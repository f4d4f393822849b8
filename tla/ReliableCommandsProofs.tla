----------------------- MODULE ReliableCommandsProofs -----------------------
(***************************************************************************)
(* For any size of the rings, any number of commands and of messages on    *)
(* their way: the safety properties of ReliableCommands that               *)
(* MCReliableCommands checks.                                              *)
(***************************************************************************)
EXTENDS ReliableCommands, WellFoundedInduction, TLAPS

\* What is used of the assumptions about constants.
LEMMA Constants ==
    /\ MaxReliable \in Nat \ {0} /\ MaxInFlight \in Nat \ {0}
    /\ Disconnect \notin Nat /\ Empty \notin Nat /\ Disconnect # Empty
BY BoundsAssumption, CommandsAssumption

USE Constants

(***************************************************************************)
(* The slots of the ring: two numbers that are less than a ring apart      *)
(* have different slots, and a ring apart the same.                        *)
(***************************************************************************)
LEMMA SlotRange == ASSUME NEW i \in Nat PROVE i % MaxReliable \in Slot
BY DEF Slot

LEMMA Division ==
    ASSUME NEW i \in Nat
    PROVE  \E a \in Int : i = MaxReliable * a + (i % MaxReliable)
<1>1. i \div MaxReliable \in Int
  OBVIOUS
<1>2. i = MaxReliable * (i \div MaxReliable) + (i % MaxReliable)
  OBVIOUS
<1> QED BY <1>1, <1>2

LEMMA Remainder ==
    ASSUME NEW n \in Nat, NEW a \in Int, NEW r \in Slot, n = MaxReliable * a + r
    PROVE  n % MaxReliable = r
BY DEF Slot

LEMMA SlotsDiffer ==
    ASSUME NEW i \in Nat, NEW n \in Nat, i < n, n - i < MaxReliable
    PROVE  i % MaxReliable # n % MaxReliable
<1>1. PICK a \in Int : i = MaxReliable * a + (i % MaxReliable)
  BY Division
<1>2. PICK b \in Int : n = MaxReliable * b + (n % MaxReliable)
  BY Division
<1>3. SUFFICES ASSUME i % MaxReliable = n % MaxReliable PROVE FALSE
  OBVIOUS
<1>4. PICK r \in 0..MaxReliable-1 : r = i % MaxReliable
  BY SlotRange DEF Slot
<1>5. i = MaxReliable * a + r /\ n = MaxReliable * b + r
  BY <1>1, <1>2, <1>3, <1>4
<1>6. CASE b <= a
  <2>1. MaxReliable * b <= MaxReliable * a
    BY <1>6
  <2> QED BY <2>1, <1>5
<1>7. CASE b >= a + 1
  <2>1. MaxReliable * b >= MaxReliable * (a + 1)
    BY <1>7
  <2>2. MaxReliable * (a + 1) = MaxReliable * a + MaxReliable
    OBVIOUS
  <2> QED BY <2>1, <2>2, <1>5
<1> QED BY <1>6, <1>7

LEMMA SlotsRecur ==
    ASSUME NEW n \in Nat, n >= MaxReliable
    PROVE  (n - MaxReliable) % MaxReliable = n % MaxReliable
<1>1. PICK a \in Int : n = MaxReliable * a + (n % MaxReliable)
  BY Division
<1>2. PICK r \in Slot : r = n % MaxReliable
  BY SlotRange
<1>3. n - MaxReliable = MaxReliable * (a - 1) + r
  <2>1. MaxReliable * (a - 1) = MaxReliable * a - MaxReliable
    OBVIOUS
  <2> QED BY <2>1, <1>1, <1>2 DEF Slot
<1>4. n - MaxReliable \in Nat /\ a - 1 \in Int
  OBVIOUS
<1>5. (n - MaxReliable) % MaxReliable = r
  BY <1>3, <1>4, Remainder
<1> QED BY <1>5, <1>2

(***************************************************************************)
(* A queue.                                                                *)
(***************************************************************************)
InSlot(q, i) == q.reliableCommands[i % MaxReliable]

\* What holds of a queue at any time: every slot used holds a command, and while none is
\* lost the slots of those not acknowledged hold these.
QueueSound(q) ==
    /\ q \in QueueType
    /\ Len(q.added) = q.reliableSequence
    /\ q.reliableAcknowledge <= q.reliableSequence
    /\ q.reliableSent <= q.reliableSequence
    /\ \A i \in 1..q.reliableSequence : InSlot(q, i) \in Command
    /\ q.lost = {} =>
          /\ Window(q) <= MaxReliable
          /\ \A i \in q.reliableAcknowledge+1..q.reliableSequence : InSlot(q, i) = q.added[i]

\* What every step keeps of a queue q that becomes r.
Grows(q, r) ==
    /\ q.reliableSequence <= r.reliableSequence
    /\ q.reliableSent <= r.reliableSent
    /\ r.lost = {} => q.lost = {}
    /\ \A i \in 1..q.reliableSequence : r.added[i] = q.added[i]

LEMMA QueueFields ==
    ASSUME NEW q \in QueueType
    PROVE  /\ q.reliableSequence \in Nat /\ q.reliableAcknowledge \in Nat
           /\ q.reliableSent \in Nat
           /\ q.reliableCommands \in [Slot -> Command \cup {Empty}]
           /\ q.added \in Seq(Command) /\ q.lost \in SUBSET Nat
BY DEF QueueType

LEMMA NewQueueSound == QueueSound(NewQueue)
<1>1. NewQueue \in QueueType
  BY DEF NewQueue, QueueType, Slot
<1> QED BY <1>1 DEF QueueSound, NewQueue, Window

LEMMA PutFields ==
    ASSUME NEW q \in QueueType, NEW c \in Command
    PROVE  /\ Put(q, c) \in QueueType
           /\ Put(q, c).reliableSequence = q.reliableSequence + 1
           /\ Put(q, c).reliableAcknowledge = q.reliableAcknowledge
           /\ Put(q, c).reliableSent = q.reliableSent
           /\ Put(q, c).added = Append(q.added, c)
           /\ Put(q, c).reliableCommands =
                 [q.reliableCommands EXCEPT ![(q.reliableSequence + 1) % MaxReliable] = c]
           /\ Window(q) < MaxReliable => Put(q, c).lost = q.lost
           /\ Put(q, c).lost = {} => q.lost = {} /\ Window(q) < MaxReliable
<1> DEFINE n == q.reliableSequence + 1
<1>0. n \in Nat /\ Window(q) \in Int
  BY QueueFields DEF Window
<1>1. n % MaxReliable \in Slot
  BY <1>0, SlotRange
<1>2. Append(q.added, c) \in Seq(Command)
  BY QueueFields
<1>3. [q.reliableCommands EXCEPT ![n % MaxReliable] = c] \in [Slot -> Command \cup {Empty}]
  BY <1>1, QueueFields
<1>4. Window(q) >= MaxReliable => n - MaxReliable \in Nat
  BY QueueFields DEF Window
<1>5. Put(q, c) = [q EXCEPT !.reliableSequence = n,
                  !.reliableCommands = [@ EXCEPT ![n % MaxReliable] = c],
                  !.added = Append(@, c),
                  !.lost = IF Window(q) < MaxReliable THEN @
                           ELSE @ \cup {n - MaxReliable}]
  BY DEF Put, NextNumber, QueueType
<1> HIDE DEF n
<1>6. (IF Window(q) < MaxReliable THEN q.lost ELSE q.lost \cup {n - MaxReliable}) \in SUBSET Nat
  BY <1>0, <1>4, QueueFields
<1> QED BY <1>0, <1>2, <1>3, <1>5, <1>6 DEF QueueType, n

LEMMA PutSound ==
    ASSUME NEW q, QueueSound(q), NEW c \in Command
    PROVE  /\ QueueSound(Put(q, c)) /\ Grows(q, Put(q, c))
           /\ Window(Put(q, c)) = Window(q) + 1
<1> DEFINE n == q.reliableSequence + 1
<1> DEFINE r == Put(q, c)
<1>0. q \in QueueType /\ Len(q.added) = q.reliableSequence
      /\ q.reliableAcknowledge <= q.reliableSequence /\ q.reliableSent <= q.reliableSequence
  BY DEF QueueSound
<1>f. /\ r \in QueueType
      /\ r.reliableSequence = n
      /\ r.reliableAcknowledge = q.reliableAcknowledge
      /\ r.reliableSent = q.reliableSent
      /\ r.added = Append(q.added, c)
      /\ r.reliableCommands = [q.reliableCommands EXCEPT ![n % MaxReliable] = c]
      /\ r.lost = {} => q.lost = {} /\ Window(q) < MaxReliable
  BY <1>0, PutFields
<1> HIDE DEF r
<1>n. n \in Nat
  BY <1>0, QueueFields
<1>1. n % MaxReliable \in Slot
  BY <1>n, SlotRange
<1>2. /\ Len(r.added) = n /\ r.added[n] = c
      /\ \A i \in 1..q.reliableSequence : r.added[i] = q.added[i]
  BY <1>0, <1>f, QueueFields
<1>3. InSlot(r, n) = c
  BY <1>0, <1>f, <1>1, QueueFields DEF InSlot
<1>4. ASSUME NEW i \in Nat, i % MaxReliable # n % MaxReliable
      PROVE  InSlot(r, i) = InSlot(q, i)
  <2>1. i % MaxReliable \in Slot
    BY SlotRange
  <2> QED BY <2>1, <1>4, <1>0, <1>f, QueueFields DEF InSlot
<1>5. ASSUME NEW i \in 1..n
      PROVE  InSlot(r, i) \in Command
  <2>1. CASE i % MaxReliable = n % MaxReliable
    BY <2>1, <1>3 DEF InSlot
  <2>2. CASE i % MaxReliable # n % MaxReliable
    <3>1. i \in 1..q.reliableSequence
      BY <2>2, <1>0, QueueFields
    <3> QED BY <3>1, <2>2, <1>4 DEF QueueSound
  <2> QED BY <2>1, <2>2
<1>6. ASSUME r.lost = {}, NEW i \in r.reliableAcknowledge+1..n
      PROVE  InSlot(r, i) = r.added[i]
  <2>1. CASE i = n
    BY <2>1, <1>2, <1>3
  <2>2. CASE i # n
    <3>1. i \in Nat /\ i < n /\ n - i < MaxReliable /\ i \in 1..q.reliableSequence
          /\ i \in q.reliableAcknowledge+1..q.reliableSequence
      <4>1. q.reliableSequence - q.reliableAcknowledge < MaxReliable
        BY <1>f, <1>6 DEF Window
      <4>2. i \in q.reliableAcknowledge+1..q.reliableSequence+1
        BY <1>f, <1>6
      <4> QED BY <4>1, <4>2, <2>2, <1>0, QueueFields
    <3>2. i % MaxReliable # n % MaxReliable
      BY <3>1, <1>n, SlotsDiffer
    <3>3. InSlot(q, i) = q.added[i]
      BY <3>1, <1>6, <1>f DEF QueueSound
    <3> QED BY <3>1, <3>2, <3>3, <1>2, <1>4
  <2> QED BY <2>1, <2>2
<1>7. Window(r) = Window(q) + 1
  BY <1>0, <1>f, QueueFields DEF Window
<1>8. r.lost = {} => Window(r) <= MaxReliable
  BY <1>0, <1>f, <1>7, QueueFields DEF Window
<1>9. /\ r.reliableAcknowledge <= r.reliableSequence
      /\ r.reliableSent <= r.reliableSequence
      /\ q.reliableSequence <= r.reliableSequence
      /\ q.reliableSent <= r.reliableSent
  BY <1>0, <1>f, QueueFields
<1>10. Grows(q, r)
  BY <1>f, <1>2, <1>9 DEF Grows
<1>11. QueueSound(r)
  BY <1>f, <1>2, <1>5, <1>6, <1>8, <1>9 DEF QueueSound
<1> QED BY <1>7, <1>10, <1>11 DEF r

LEMMA SkipSound ==
    ASSUME NEW q, QueueSound(q), NEW c \in Command, Window(q) = MaxReliable
    PROVE  /\ QueueSound(Skip(q, c)) /\ Grows(q, Skip(q, c))
           /\ Window(Skip(q, c)) = MaxReliable + 1
           /\ Skip(q, c).lost # {}
           /\ Skip(q, c).reliableAcknowledge = q.reliableAcknowledge
<1> DEFINE n == q.reliableSequence + 1
<1> DEFINE r == Skip(q, c)
<1>0. q \in QueueType /\ Len(q.added) = q.reliableSequence
      /\ q.reliableAcknowledge <= q.reliableSequence /\ q.reliableSent <= q.reliableSequence
  BY DEF QueueSound
<1>1. n \in Nat /\ n >= MaxReliable /\ n - MaxReliable \in 1..q.reliableSequence
  BY <1>0, QueueFields DEF Window
<1>2. Append(q.added, c) \in Seq(Command) /\ q.lost \cup {n} \in SUBSET Nat
  BY <1>0, <1>1, QueueFields
<1>3. r = [q EXCEPT !.reliableSequence = n, !.added = Append(@, c), !.lost = @ \cup {n}]
  BY DEF Skip, NextNumber
<1> HIDE DEF n, r
<1>f. /\ r \in QueueType
      /\ r.reliableSequence = n
      /\ r.reliableAcknowledge = q.reliableAcknowledge
      /\ r.reliableSent = q.reliableSent
      /\ r.added = Append(q.added, c)
      /\ r.reliableCommands = q.reliableCommands
      /\ r.lost = q.lost \cup {n}
  BY <1>0, <1>1, <1>2, <1>3 DEF QueueType
<1>4. r.lost # {}
  BY <1>f
<1>5. /\ Len(r.added) = n
      /\ \A i \in 1..q.reliableSequence : r.added[i] = q.added[i]
  BY <1>0, <1>f, QueueFields DEF n
<1>6. ASSUME NEW i \in 1..n
      PROVE  InSlot(r, i) \in Command
  <2>1. CASE i \in 1..q.reliableSequence
    BY <2>1, <1>f DEF QueueSound, InSlot
  <2>2. CASE i = n
    <3>1. (n - MaxReliable) % MaxReliable = n % MaxReliable
      BY <1>1, SlotsRecur
    <3> QED BY <3>1, <2>2, <1>1, <1>f DEF QueueSound, InSlot
  <2> QED BY <2>1, <2>2, <1>0, QueueFields DEF n
<1>7. /\ r.reliableAcknowledge <= r.reliableSequence
      /\ r.reliableSent <= r.reliableSequence
      /\ q.reliableSequence <= r.reliableSequence
      /\ q.reliableSent <= r.reliableSent
      /\ Window(r) = MaxReliable + 1
  BY <1>0, <1>f, QueueFields DEF Window, n
<1>8. Grows(q, r)
  BY <1>4, <1>5, <1>7 DEF Grows
<1>9. QueueSound(r)
  BY <1>f, <1>4, <1>5, <1>6, <1>7 DEF QueueSound
<1> QED BY <1>4, <1>7, <1>8, <1>9, <1>f DEF r

LEMMA SentSound ==
    ASSUME NEW q, QueueSound(q)
    PROVE  /\ QueueSound(Sent(q)) /\ Grows(q, Sent(q))
           /\ Sent(q) = [q EXCEPT !.reliableSent = q.reliableSequence]
           /\ Window(Sent(q)) = Window(q)
           /\ Sent(q).reliableSent = q.reliableSequence
           /\ Sent(q).reliableAcknowledge = q.reliableAcknowledge
           /\ Sent(q).lost = q.lost
           /\ Sent(q).added = q.added
<1>0. q \in QueueType /\ q.reliableSent <= q.reliableSequence
  BY DEF QueueSound
<1>1. /\ Sent(q) \in QueueType
      /\ Sent(q).reliableSequence = q.reliableSequence
      /\ Sent(q).reliableAcknowledge = q.reliableAcknowledge
      /\ Sent(q).reliableSent = q.reliableSequence
      /\ Sent(q).added = q.added
      /\ Sent(q).reliableCommands = q.reliableCommands
      /\ Sent(q).lost = q.lost
      /\ Sent(q) = [q EXCEPT !.reliableSent = q.reliableSequence]
  BY <1>0 DEF Sent, QueueType
<1>2. Window(Sent(q)) = Window(q)
  BY <1>1 DEF Window
<1>3. q.reliableSequence <= q.reliableSequence
  BY <1>0, QueueFields
<1>4. Grows(q, Sent(q))
  BY <1>0, <1>1, <1>3 DEF Grows
<1>5. QueueSound(Sent(q))
  BY <1>1, <1>2, <1>3 DEF QueueSound, InSlot
<1> QED BY <1>1, <1>2, <1>4, <1>5

LEMMA AckSound ==
    ASSUME NEW q, QueueSound(q), NEW ack \in Nat,
           q.reliableAcknowledge <= ack, ack <= q.reliableSequence
    PROVE  LET r == [q EXCEPT !.reliableAcknowledge = ack]
           IN  /\ QueueSound(r) /\ Grows(q, r)
               /\ Window(r) <= Window(q) /\ Window(r) \in Nat
               /\ r.reliableAcknowledge = ack
               /\ r.lost = q.lost /\ r.reliableSent = q.reliableSent
<1> DEFINE r == [q EXCEPT !.reliableAcknowledge = ack]
<1>0. q \in QueueType /\ q.reliableSent <= q.reliableSequence
  BY DEF QueueSound
<1>1. /\ r \in QueueType
      /\ r.reliableSequence = q.reliableSequence
      /\ r.reliableAcknowledge = ack
      /\ r.reliableSent = q.reliableSent
      /\ r.added = q.added
      /\ r.reliableCommands = q.reliableCommands
      /\ r.lost = q.lost
  BY <1>0 DEF QueueType
<1> HIDE DEF r
<1>2. Window(r) <= Window(q) /\ Window(r) \in Nat
  BY <1>0, <1>1, QueueFields DEF Window
<1>3. q.reliableSequence <= q.reliableSequence /\ q.reliableSent <= q.reliableSent
  BY <1>0, QueueFields
<1>4. Grows(q, r)
  BY <1>0, <1>1, <1>3 DEF Grows
<1>5. r.lost = {} => Window(r) <= MaxReliable
  BY <1>0, <1>1, <1>2, QueueFields DEF QueueSound, Window
<1>6. ASSUME r.lost = {}, NEW i \in ack+1..q.reliableSequence
      PROVE  InSlot(r, i) = r.added[i]
  <2>1. i \in q.reliableAcknowledge+1..q.reliableSequence
    BY <1>0, QueueFields
  <2> QED BY <2>1, <1>1, <1>6 DEF QueueSound, InSlot
<1>7. QueueSound(r)
  BY <1>0, <1>1, <1>5, <1>6 DEF QueueSound, InSlot
<1> QED BY <1>1, <1>2, <1>4, <1>7 DEF r

LEMMA GiveUpSound ==
    ASSUME NEW q, QueueSound(q), Overflows(q)
    PROVE  /\ QueueSound(GiveUp(q)) /\ Grows(q, GiveUp(q))
           /\ Window(GiveUp(q)) = 0 /\ GiveUp(q).lost # {}
<1> DEFINE r == GiveUp(q)
<1> DEFINE given == q.reliableAcknowledge+1..q.reliableSequence
<1>0. q \in QueueType /\ q.reliableSent <= q.reliableSequence
  BY DEF QueueSound
<1>1. q.lost \cup given \in SUBSET Nat
  BY <1>0, QueueFields
<1>2. q.reliableSequence \in given
  BY <1>0, QueueFields DEF Overflows
<1>3. r = [q EXCEPT !.reliableAcknowledge = q.reliableSequence, !.lost = @ \cup given]
  BY DEF GiveUp
<1> HIDE DEF r, given
<1>4. /\ r \in QueueType
      /\ r.reliableSequence = q.reliableSequence
      /\ r.reliableAcknowledge = q.reliableSequence
      /\ r.reliableSent = q.reliableSent
      /\ r.added = q.added
      /\ r.reliableCommands = q.reliableCommands
      /\ r.lost = q.lost \cup given
  BY <1>0, <1>1, <1>3 DEF QueueType
<1>5. Window(r) = 0 /\ r.lost # {}
  BY <1>0, <1>2, <1>4, QueueFields DEF Window
<1>6. q.reliableSequence <= q.reliableSequence /\ q.reliableSent <= q.reliableSent
  BY <1>0, QueueFields
<1>7. Grows(q, r)
  BY <1>0, <1>4, <1>5, <1>6 DEF Grows
<1>8. QueueSound(r)
  BY <1>0, <1>4, <1>5, <1>6 DEF QueueSound, InSlot
<1> QED BY <1>5, <1>7, <1>8 DEF r

LEMMA GrowsTransitive ==
    ASSUME NEW q \in QueueType, NEW r \in QueueType, NEW s \in QueueType,
           Grows(q, r), Grows(r, s)
    PROVE  Grows(q, s)
<1>1. /\ q.reliableSequence <= s.reliableSequence
      /\ q.reliableSent <= s.reliableSent
      /\ 1..q.reliableSequence \subseteq 1..r.reliableSequence
  BY QueueFields DEF Grows
<1> QED BY <1>1 DEF Grows

LEMMA GrowsReflexive ==
    ASSUME NEW q \in QueueType
    PROVE  Grows(q, q)
<1>1. q.reliableSequence <= q.reliableSequence /\ q.reliableSent <= q.reliableSent
  BY QueueFields
<1> QED BY <1>1 DEF Grows

(***************************************************************************)
(* The invariant.                                                          *)
(***************************************************************************)
Batch == UNION {[S -> Command] : S \in SUBSET Nat}
MessageType == [ack : Nat, commands : Batch, movesAfter : Nat]

\* A message from an end with queue q to one that has executed commands up to done: its
\* commands have consecutive numbers up to the last one added, and while none is lost they are
\* what was added and none is missing before them.
MessageSound(m, q, done) ==
    /\ \E lo \in 0..m.movesAfter :
          /\ DOMAIN m.commands = lo+1..m.movesAfter
          /\ lo = m.movesAfter => lo <= done
          /\ q.lost = {} => lo <= done
    /\ m.movesAfter <= q.reliableSent
    /\ q.lost = {} => \A i \in DOMAIN m.commands : m.commands[i] = q.added[i]

Typed ==
    /\ queue \in [End -> QueueType]
    /\ executedTo \in [End -> Nat]
    /\ state \in [End -> {"connected", "leaving", "gone", "crashed"}]
    /\ state["server"] \in {"connected", "gone"}
    /\ rounds \in 0..3 /\ (state["client"] = "leaving" => rounds # 0)
    /\ inError \in BOOLEAN
    /\ unread \in Seq(Command)
    /\ net \in [End -> Seq(MessageType)]
    /\ \A e \in End : Len(net[e]) <= MaxInFlight
    /\ executed \in [End -> Seq(Command)]
    /\ movesAfter \in Nat

QueuesSound ==
    /\ \A e \in End : QueueSound(queue[e])
    /\ Window(queue["server"]) <= MaxReliable + 2
    /\ Window(queue["client"]) <= MaxReliable + 1
    /\ state["server"] = "connected" => queue["server"].lost = {}

NetSoundAt(n, qs, done) ==
    \A e \in End : \A k \in 1..Len(n[e]) : MessageSound(n[e][k], qs[Peer(e)], done[e])
NetSound == NetSoundAt(net, queue, executedTo)

\* Acknowledgements are true, and those on their way do not go back.
AcksSoundAt(n, qs, done, st) ==
    \A e \in End :
        /\ done[e] <= qs[Peer(e)].reliableSent
        /\ st[e] = "connected" \/ qs[e].lost = {} =>
              qs[e].reliableAcknowledge <= done[Peer(e)]
        /\ \A k \in 1..Len(n[e]) :
              /\ n[e][k].ack <= done[Peer(e)]
              /\ st[e] = "connected" => qs[e].reliableAcknowledge <= n[e][k].ack
              /\ \A j \in 1..k : n[e][j].ack <= n[e][k].ack
AcksSound == AcksSoundAt(net, queue, executedTo, state)

ExecutedSoundAt(ex, done, qs, st) ==
    \A e \in End :
        /\ qs[Peer(e)].lost = {} =>
              /\ Len(ex[e]) = done[e]
              /\ \A i \in 1..Len(ex[e]) : ex[e][i] = qs[Peer(e)].added[i]
        /\ st[e] = "connected" => \A i \in 1..Len(ex[e]) : ex[e][i] # Disconnect
ExecutedSound == ExecutedSoundAt(executed, executedTo, queue, state)

\* Of the queue of the server a disconnect is the last command, unless one is lost: then the
\* client has nothing left to execute after it.
AddedLast(qs, st, rest) ==
    qs["server"].lost = {} =>
        /\ \A i \in 1..Len(qs["server"].added) : qs["server"].added[i] = Disconnect =>
              i = Len(qs["server"].added) /\ st["server"] # "connected"
        /\ rest = <<>>

\* The server stops at a disconnect in any case.
ExecutedLast(ex) ==
    \A i \in 1..Len(ex["server"]) : ex["server"][i] = Disconnect => i = Len(ex["server"])

DisconnectSound == AddedLast(queue, state, unread) /\ ExecutedLast(executed)

IInv == /\ Typed /\ QueuesSound /\ NetSound /\ AcksSound /\ ExecutedSound
        /\ MovesFollowCommands /\ DisconnectSound

LEMMA NoCommands == <<>> \in Seq(Command)
OBVIOUS

LEMMA BatchValue ==
    ASSUME NEW m \in MessageType
    PROVE  /\ \A i \in DOMAIN m.commands : m.commands[i] \in Command
           /\ m.ack \in Nat /\ m.movesAfter \in Nat
<1>1. m.commands \in Batch /\ m.ack \in Nat /\ m.movesAfter \in Nat
  BY DEF MessageType
<1>2. PICK S \in SUBSET Nat : m.commands \in [S -> Command]
  BY <1>1 DEF Batch
<1> QED BY <1>1, <1>2

LEMMA MessageOfQueue ==
    ASSUME NEW q, QueueSound(q), NEW ack \in Nat, NEW done \in Nat,
           q.lost = {} => q.reliableAcknowledge <= done,
           q.reliableAcknowledge = q.reliableSequence => q.reliableAcknowledge <= done
    PROVE  /\ Message(ack, q) \in MessageType
           /\ Message(ack, q).ack = ack
           /\ MessageSound(Message(ack, q), Sent(q), done)
<1> DEFINE m == Message(ack, q)
<1> DEFINE range == q.reliableAcknowledge+1..q.reliableSequence
<1>0. q \in QueueType /\ q.reliableAcknowledge <= q.reliableSequence
  BY DEF QueueSound
<1>1. /\ m.ack = ack /\ m.movesAfter = q.reliableSequence
      /\ m.commands = [i \in range |-> InSlot(q, i)]
      /\ m = [ack |-> ack, commands |-> m.commands, movesAfter |-> q.reliableSequence]
  BY DEF Message, Pending, InSlot
<1>2. range \subseteq Nat /\ range \subseteq 1..q.reliableSequence
  BY <1>0, QueueFields
<1>3. m.commands \in [range -> Command]
  BY <1>1, <1>2 DEF QueueSound
<1>4. m.commands \in Batch
  BY <1>2, <1>3 DEF Batch
<1> HIDE DEF m
<1>5. m \in MessageType
  BY <1>0, <1>1, <1>4, QueueFields DEF MessageType
<1>6. q.reliableAcknowledge \in 0..m.movesAfter /\ DOMAIN m.commands = range
  BY <1>0, <1>1, QueueFields
<1>7. q.reliableSequence <= Sent(q).reliableSent /\ Sent(q).lost = q.lost
      /\ Sent(q).added = q.added
  BY <1>0, SentSound, QueueFields
<1>8. q.lost = {} => \A i \in range : m.commands[i] = q.added[i]
  BY <1>1 DEF QueueSound
<1> HIDE DEF range
<1>9. MessageSound(m, Sent(q), done)
  BY <1>1, <1>6, <1>7, <1>8 DEF MessageSound, range
<1> QED BY <1>1, <1>5, <1>9 DEF m

LEMMA MessageKept ==
    ASSUME NEW m \in MessageType, NEW q, NEW r \in QueueType, NEW done \in Nat, NEW done2 \in Nat,
           QueueSound(q), Grows(q, r), done <= done2, MessageSound(m, q, done)
    PROVE  MessageSound(m, r, done2)
<1>0. q \in QueueType /\ q.reliableSent <= q.reliableSequence
  BY DEF QueueSound
<1>1. m.movesAfter <= r.reliableSent /\ m.movesAfter <= q.reliableSequence
  BY <1>0, BatchValue, QueueFields DEF MessageSound, Grows
<1>2. PICK lo \in 0..m.movesAfter :
          /\ DOMAIN m.commands = lo+1..m.movesAfter
          /\ lo = m.movesAfter => lo <= done
          /\ q.lost = {} => lo <= done
  BY DEF MessageSound
<1>3. /\ lo = m.movesAfter => lo <= done2
      /\ r.lost = {} => lo <= done2
  BY <1>2, BatchValue DEF Grows
<1>4. DOMAIN m.commands \subseteq 1..q.reliableSequence
  BY <1>0, <1>1, <1>2, BatchValue, QueueFields
<1>5. r.lost = {} => \A i \in DOMAIN m.commands : m.commands[i] = r.added[i]
  BY <1>4 DEF MessageSound, Grows
<1> QED BY <1>1, <1>2, <1>3, <1>5 DEF MessageSound

(***************************************************************************)
(* The network.                                                            *)
(***************************************************************************)
LEMMA Ends == /\ \A e \in End : Peer(e) \in End /\ Peer(Peer(e)) = e /\ Peer(e) # e
              /\ Peer("client") = "server" /\ Peer("server") = "client"
BY DEF End, Peer

\* The network n has, on the way to each end, the messages that net has, or all but the
\* first, and then perhaps one of add.
NetFrom(n, add) ==
    \A d \in End : \E s \in 0..1 : \A k \in 1..Len(n[d]) :
        \/ k + s \in 1..Len(net[d]) /\ n[d][k] = net[d][k + s]
        \/ k = Len(n[d]) /\ n[d][k] \in add[d]

NetType(n) == n \in [End -> Seq(MessageType)] /\ \A e \in End : Len(n[e]) <= MaxInFlight

NoMessage == [d \in End |-> {}]
OneMessage(e, m) == [d \in End |-> IF d = Peer(e) THEN {m} ELSE {}]

LEMMA NetUnchanged ==
    ASSUME Typed, NEW add
    PROVE  NetFrom(net, add) /\ NetType(net)
<1>1. NetType(net)
  BY DEF Typed, NetType
<1>2. ASSUME NEW d \in End, NEW k \in 1..Len(net[d])
      PROVE  k + 0 \in 1..Len(net[d]) /\ net[d][k] = net[d][k + 0]
  BY <1>1, <1>2 DEF NetType
<1> QED BY <1>1, <1>2 DEF NetFrom

LEMMA NetTaken ==
    ASSUME Typed, NEW e \in End, net[e] # <<>>, NEW add
    PROVE  /\ NetFrom(Taken(e), add) /\ NetType(Taken(e))
           /\ Head(net[e]) \in MessageType /\ Len(net[e]) \in Nat \ {0}
           /\ Head(net[e]) = net[e][1]
           /\ Taken(e)[e] = Tail(net[e])
<1>1. NetType(net)
  BY DEF Typed, NetType
<1>2. /\ Tail(net[e]) \in Seq(MessageType) /\ Head(net[e]) \in MessageType
      /\ Len(net[e]) \in Nat \ {0} /\ Head(net[e]) = net[e][1]
      /\ Len(Tail(net[e])) = Len(net[e]) - 1
      /\ \A k \in 1..Len(net[e]) - 1 : Tail(net[e])[k] = net[e][k + 1]
  BY <1>1 DEF NetType
<1>3. /\ Taken(e) \in [End -> Seq(MessageType)]
      /\ Taken(e)[e] = Tail(net[e])
      /\ \A d \in End \ {e} : Taken(e)[d] = net[d]
  BY <1>1, <1>2 DEF NetType, Taken
<1>4. \A d \in End : Len(Taken(e)[d]) <= MaxInFlight
  <2> TAKE d \in End
  <2>1. CASE d = e
    BY <2>1, <1>1, <1>2, <1>3 DEF NetType
  <2>2. CASE d # e
    BY <2>2, <1>1, <1>3 DEF NetType
  <2> QED BY <2>1, <2>2
<1>5. ASSUME NEW d \in End
      PROVE  \E s \in 0..1 : \A k \in 1..Len(Taken(e)[d]) :
                 k + s \in 1..Len(net[d]) /\ Taken(e)[d][k] = net[d][k + s]
  <2>1. CASE d = e
    <3>1. ASSUME NEW k \in 1..Len(Taken(e)[d])
          PROVE  k + 1 \in 1..Len(net[d]) /\ Taken(e)[d][k] = net[d][k + 1]
      BY <2>1, <3>1, <1>2, <1>3
    <3> QED BY <3>1
  <2>2. CASE d # e
    <3>1. ASSUME NEW k \in 1..Len(Taken(e)[d])
          PROVE  k + 0 \in 1..Len(net[d]) /\ Taken(e)[d][k] = net[d][k + 0]
      BY <2>2, <3>1, <1>3
    <3> QED BY <3>1
  <2> QED BY <2>1, <2>2
<1>6. NetFrom(Taken(e), add)
  BY <1>5 DEF NetFrom
<1> QED BY <1>2, <1>3, <1>4, <1>6 DEF NetType

LEMMA NetTransmit ==
    ASSUME NEW e \in End, NEW m \in MessageType, NEW n, NetType(n),
           NetFrom(n, NoMessage), Transmit(e, m, n)
    PROVE  NetFrom(net', OneMessage(e, m)) /\ NetType(net')
<1> DEFINE add == OneMessage(e, m)
<1>1. CASE net' = n
  BY <1>1 DEF NetFrom, NetType, NoMessage
<1>2. CASE /\ Len(n[Peer(e)]) < MaxInFlight
           /\ net' = [n EXCEPT ![Peer(e)] = Append(@, m)]
  <2>1. PICK p \in End : p = Peer(e)
    BY Ends
  <2>2. /\ Append(n[p], m) \in Seq(MessageType)
        /\ Len(Append(n[p], m)) = Len(n[p]) + 1
        /\ Append(n[p], m)[Len(n[p]) + 1] = m
        /\ \A k \in 1..Len(n[p]) : Append(n[p], m)[k] = n[p][k]
        /\ Len(n[p]) \in Nat
    BY DEF NetType
  <2>3. /\ net' \in [End -> Seq(MessageType)]
        /\ net'[p] = Append(n[p], m)
        /\ \A d \in End \ {p} : net'[d] = n[d]
    BY <1>2, <2>1, <2>2 DEF NetType
  <2>4. \A d \in End : Len(net'[d]) <= MaxInFlight
    <3> TAKE d \in End
    <3>1. CASE d = p
      BY <3>1, <1>2, <2>1, <2>2, <2>3
    <3>2. CASE d # p
      BY <3>2, <2>3 DEF NetType
    <3> QED BY <3>1, <3>2
  <2>5. add[p] = {m}
    BY <2>1 DEF OneMessage
  <2>6. ASSUME NEW d \in End
        PROVE  \E s \in 0..1 : \A k \in 1..Len(net'[d]) :
                  \/ k + s \in 1..Len(net[d]) /\ net'[d][k] = net[d][k + s]
                  \/ k = Len(net'[d]) /\ net'[d][k] \in add[d]
    <3>1. PICK s \in 0..1 : \A k \in 1..Len(n[d]) :
                  k + s \in 1..Len(net[d]) /\ n[d][k] = net[d][k + s]
      BY DEF NetFrom, NoMessage
    <3>2. ASSUME NEW k \in 1..Len(net'[d])
          PROVE  \/ k + s \in 1..Len(net[d]) /\ net'[d][k] = net[d][k + s]
                 \/ k = Len(net'[d]) /\ net'[d][k] \in add[d]
      <4>1. CASE k \in 1..Len(n[d])
        BY <4>1, <3>1, <2>2, <2>3
      <4>2. CASE k \notin 1..Len(n[d])
        <5>1. d = p
          BY <4>2, <2>3
        <5>2. k = Len(n[p]) + 1 /\ Len(net'[p]) = Len(n[p]) + 1
          BY <5>1, <4>2, <3>2, <2>2, <2>3
        <5> QED BY <5>1, <5>2, <2>2, <2>3, <2>5
      <4> QED BY <4>1, <4>2
    <3> QED BY <3>2
  <2> HIDE DEF add
  <2>7. NetFrom(net', add)
    BY <2>6 DEF NetFrom
  <2> QED BY <2>3, <2>4, <2>7 DEF NetType, add
<1> QED BY <1>1, <1>2 DEF Transmit

\* What a step does to the acknowledgements: an end takes none, or that of the first message
\* on its way, or has given its commands up.
AckStep(n, qs, st) ==
    \A e \in End :
        \/ /\ qs[e].reliableAcknowledge = queue[e].reliableAcknowledge
           /\ st[e] = "connected" => state[e] = "connected"
        \/ /\ state[e] = "connected" /\ net[e] # <<>>
           /\ qs[e].reliableAcknowledge = net[e][1].ack
           /\ n[e] = Tail(net[e])
        \/ st[e] # "connected" /\ qs[e].lost # {}

\* The messages of add tell what was executed and are made from the queues.
SendStep(add, qs, done) ==
    \A e \in End : \A m \in add[e] :
        /\ m.ack = done[Peer(e)]
        /\ MessageSound(m, qs[Peer(e)], done[e])

QueueStep(qs) == \A e \in End : QueueSound(qs[e]) /\ Grows(queue[e], qs[e])

LEMMA NetKept ==
    ASSUME IInv, NEW n, NetType(n), NEW add, NetFrom(n, add), NEW qs, QueueStep(qs),
           NEW done \in [End -> Nat], \A e \in End : executedTo[e] <= done[e],
           SendStep(add, qs, done)
    PROVE  NetSoundAt(n, qs, done)
<1>1. SUFFICES ASSUME NEW e \in End, NEW k \in 1..Len(n[e])
               PROVE  MessageSound(n[e][k], qs[Peer(e)], done[e])
  BY DEF NetSoundAt
<1>2. PICK s \in 0..1 : \A i \in 1..Len(n[e]) :
        \/ i + s \in 1..Len(net[e]) /\ n[e][i] = net[e][i + s]
        \/ i = Len(n[e]) /\ n[e][i] \in add[e]
  BY DEF NetFrom
<1>3. CASE k + s \in 1..Len(net[e]) /\ n[e][k] = net[e][k + s]
  <2>1. /\ net[e][k + s] \in MessageType
        /\ MessageSound(net[e][k + s], queue[Peer(e)], executedTo[e])
        /\ executedTo[e] \in Nat
    BY <1>3 DEF IInv, Typed, NetSound, NetSoundAt
  <2>2. /\ QueueSound(queue[Peer(e)]) /\ Grows(queue[Peer(e)], qs[Peer(e)])
        /\ qs[Peer(e)] \in QueueType
    BY Ends DEF IInv, QueuesSound, QueueStep, QueueSound
  <2>3. MessageSound(net[e][k + s], qs[Peer(e)], done[e])
    BY <2>1, <2>2, MessageKept
  <2> QED BY <2>3, <1>3
<1>4. CASE n[e][k] \in add[e]
  BY <1>4 DEF SendStep
<1> QED BY <1>2, <1>3, <1>4

LEMMA AcksKept ==
    ASSUME IInv, NEW n, NetType(n), NEW add, NetFrom(n, add), NEW qs, QueueStep(qs),
           NEW done \in [End -> Nat], \A e \in End : executedTo[e] <= done[e],
           \A e \in End : done[e] <= qs[Peer(e)].reliableSent,
           NEW st, AckStep(n, qs, st), SendStep(add, qs, done)
    PROVE  AcksSoundAt(n, qs, done, st)
<1>1. SUFFICES ASSUME NEW e \in End
               PROVE  /\ st[e] = "connected" \/ qs[e].lost = {} =>
                            qs[e].reliableAcknowledge <= done[Peer(e)]
                      /\ \A k \in 1..Len(n[e]) :
                            /\ n[e][k].ack <= done[Peer(e)]
                            /\ st[e] = "connected" => qs[e].reliableAcknowledge <= n[e][k].ack
                            /\ \A j \in 1..k : n[e][j].ack <= n[e][k].ack
  BY DEF AcksSoundAt
<1>2. PICK p \in End : p = Peer(e)
  BY Ends
<1>t. /\ executedTo[p] \in Nat /\ done[p] \in Nat /\ executedTo[p] <= done[p]
      /\ queue[e] \in QueueType /\ qs[e] \in QueueType
      /\ net[e] \in Seq(MessageType) /\ n[e] \in Seq(MessageType)
      /\ Grows(queue[e], qs[e])
  BY DEF IInv, Typed, NetType, QueueStep, QueueSound
<1>q. /\ queue[e].reliableAcknowledge \in Nat /\ qs[e].reliableAcknowledge \in Nat
      /\ qs[e].lost = {} => queue[e].lost = {}
      /\ \A k \in 1..Len(net[e]) : net[e][k].ack \in Nat
      /\ \A k \in 1..Len(n[e]) : n[e][k].ack \in Nat
  BY <1>t, QueueFields, BatchValue DEF Grows
<1>3. /\ state[e] = "connected" \/ queue[e].lost = {} =>
              queue[e].reliableAcknowledge <= executedTo[p]
      /\ \A k \in 1..Len(net[e]) :
              /\ net[e][k].ack <= executedTo[p]
              /\ state[e] = "connected" => queue[e].reliableAcknowledge <= net[e][k].ack
              /\ \A j \in 1..k : net[e][j].ack <= net[e][k].ack
  BY <1>2 DEF IInv, AcksSound, AcksSoundAt
<1>4. PICK s \in 0..1 : \A i \in 1..Len(n[e]) :
        \/ i + s \in 1..Len(net[e]) /\ n[e][i] = net[e][i + s]
        \/ i = Len(n[e]) /\ n[e][i] \in add[e]
  BY DEF NetFrom
<1>5. \A m \in add[e] : m.ack = done[p]
  BY <1>2 DEF SendStep
<1>6. st[e] = "connected" \/ qs[e].lost = {} => qs[e].reliableAcknowledge <= done[p]
  <2>1. CASE /\ qs[e].reliableAcknowledge = queue[e].reliableAcknowledge
             /\ st[e] = "connected" => state[e] = "connected"
    BY <2>1, <1>t, <1>q, <1>3
  <2>2. CASE net[e] # <<>> /\ qs[e].reliableAcknowledge = net[e][1].ack
    <3>1. 1 \in 1..Len(net[e])
      BY <2>2, <1>t
    <3> QED BY <3>1, <2>2, <1>t, <1>q, <1>3
  <2> QED BY <2>1, <2>2 DEF AckStep
<1>7. ASSUME NEW k \in 1..Len(n[e])
      PROVE  n[e][k].ack <= done[p]
  <2>1. CASE k + s \in 1..Len(net[e]) /\ n[e][k] = net[e][k + s]
    BY <2>1, <1>t, <1>q, <1>3
  <2>2. CASE n[e][k] \in add[e]
    BY <2>2, <1>5, <1>t
  <2> QED BY <2>1, <2>2, <1>4
<1>8. ASSUME NEW k \in 1..Len(n[e]), NEW j \in 1..k
      PROVE  n[e][j].ack <= n[e][k].ack
  <2>1. CASE k + s \in 1..Len(net[e]) /\ n[e][k] = net[e][k + s] /\ j # k
    <3>1. j \in 1..Len(n[e]) /\ j # Len(n[e])
      BY <2>1, <1>t
    <3>2. j + s \in 1..Len(net[e]) /\ n[e][j] = net[e][j + s] /\ j + s \in 1..k + s
      BY <3>1, <1>4
    <3> QED BY <3>2, <2>1, <1>3
  <2>2. CASE n[e][k] \in add[e]
    <3>1. j \in 1..Len(n[e])
      BY <1>t
    <3> QED BY <3>1, <2>2, <1>5, <1>7, <1>t
  <2>3. CASE j = k
    BY <2>3, <1>q
  <2> QED BY <2>1, <2>2, <2>3, <1>4
<1>9. ASSUME st[e] = "connected", NEW k \in 1..Len(n[e])
      PROVE  qs[e].reliableAcknowledge <= n[e][k].ack
  <2>1. CASE n[e][k] \in add[e]
    BY <2>1, <1>5, <1>6, <1>9
  <2>2. CASE k + s \in 1..Len(net[e]) /\ n[e][k] = net[e][k + s]
    <3>1. CASE /\ qs[e].reliableAcknowledge = queue[e].reliableAcknowledge
               /\ state[e] = "connected"
      BY <2>2, <3>1, <1>3
    <3>2. CASE net[e] # <<>> /\ qs[e].reliableAcknowledge = net[e][1].ack
      <4>1. 1 \in 1..k + s
        BY <2>2
      <4> QED BY <4>1, <2>2, <3>2, <1>3
    <3> QED BY <3>1, <3>2, <1>9 DEF AckStep
  <2> QED BY <2>1, <2>2, <1>4
<1> QED BY <1>2, <1>6, <1>7, <1>8, <1>9

\* What a queue has added stays, so what was executed of it stays true.
LEMMA ExecutedKept ==
    ASSUME IInv, NEW qs, QueueStep(qs), NEW st, NEW ex,
           \A e \in End : st[e] = "connected" => state[e] = "connected",
           \A e \in End : qs[Peer(e)].lost = {} \/ st[e] = "connected" => ex[e] = executed[e]
    PROVE  ExecutedSoundAt(ex, executedTo, qs, st)
<1>1. SUFFICES ASSUME NEW e \in End
               PROVE  /\ qs[Peer(e)].lost = {} =>
                            /\ Len(executed[e]) = executedTo[e]
                            /\ \A i \in 1..Len(executed[e]) :
                                  executed[e][i] = qs[Peer(e)].added[i]
                      /\ st[e] = "connected" =>
                            \A i \in 1..Len(executed[e]) : executed[e][i] # Disconnect
  BY DEF ExecutedSoundAt
<1>2. PICK p \in End : p = Peer(e)
  BY Ends
<1>3. /\ Grows(queue[p], qs[p]) /\ QueueSound(queue[p]) /\ executedTo[e] \in Nat
      /\ executedTo[e] <= queue[p].reliableSent
  BY <1>2 DEF IInv, Typed, QueuesSound, QueueStep, AcksSound, AcksSoundAt
<1>4. 1..executedTo[e] \subseteq 1..queue[p].reliableSequence
  BY <1>3, QueueFields DEF QueueSound
<1>5. /\ queue[p].lost = {} =>
              /\ Len(executed[e]) = executedTo[e]
              /\ \A i \in 1..Len(executed[e]) : executed[e][i] = queue[p].added[i]
      /\ state[e] = "connected" => \A i \in 1..Len(executed[e]) : executed[e][i] # Disconnect
  BY <1>2 DEF IInv, ExecutedSound, ExecutedSoundAt
<1>6. qs[p].lost = {} =>
          /\ Len(executed[e]) = executedTo[e]
          /\ \A i \in 1..Len(executed[e]) : executed[e][i] = qs[p].added[i]
  BY <1>3, <1>4, <1>5 DEF Grows
<1> QED BY <1>2, <1>5, <1>6

\* A step in which the server adds no command, or loses one.
LEMMA AddedKept ==
    ASSUME IInv, NEW qs, NEW st, NEW rest,
           qs["server"].lost = {} =>
               qs["server"].added = queue["server"].added /\ queue["server"].lost = {},
           st["server"] = "connected" => state["server"] = "connected",
           rest = unread \/ rest = <<>>
    PROVE  AddedLast(qs, st, rest)
BY DEF IInv, DisconnectSound, AddedLast

\* A step in which the server drops the client.
LEMMA AddedByDrop ==
    ASSUME IInv, state["server"] = "connected", NEW qs, NEW st,
           qs["server"].lost = {} =>
               /\ qs["server"].added = Append(queue["server"].added, Disconnect)
               /\ queue["server"].lost = {},
           st["server"] = "gone"
    PROVE  AddedLast(qs, st, unread)
<1> DEFINE s == queue["server"].added
<1>1. SUFFICES ASSUME qs["server"].lost = {}
               PROVE  /\ \A i \in 1..Len(Append(s, Disconnect)) :
                            Append(s, Disconnect)[i] = Disconnect =>
                                i = Len(Append(s, Disconnect)) /\ st["server"] # "connected"
                      /\ unread = <<>>
  BY DEF AddedLast
<1>2. /\ s \in Seq(Command) /\ unread = <<>>
      /\ \A i \in 1..Len(s) : s[i] # Disconnect
  <2>1. "server" \in End
    BY DEF End
  <2> QED BY <2>1, <1>1, QueueFields DEF IInv, Typed, DisconnectSound, AddedLast
<1> HIDE DEF s
<1>3. /\ Len(Append(s, Disconnect)) = Len(s) + 1 /\ Len(s) \in Nat
      /\ \A i \in 1..Len(s) : Append(s, Disconnect)[i] = s[i]
  BY <1>2
<1>4. ASSUME NEW i \in 1..Len(s)+1, Append(s, Disconnect)[i] = Disconnect
      PROVE  i = Len(s) + 1
  BY <1>2, <1>3, <1>4
<1> QED BY <1>2, <1>3, <1>4

\* A step in which nobody executes a command of a message keeps the invariant: all that may
\* be executed is what follows a disconnect.
LEMMA QuietStep ==
    ASSUME IInv, UNCHANGED <<executedTo, movesAfter>>,
           AddedLast(queue', state', unread'), executed'["server"] = executed["server"],
           \A e \in End : queue'[Peer(e)].lost = {} \/ state'[e] = "connected" =>
                              executed'[e] = executed[e],
           Typed', QueuesSound', QueueStep(queue'), AckStep(net', queue', state'),
           NEW add, NetFrom(net', add), NetType(net'), SendStep(add, queue', executedTo),
           \A e \in End : state'[e] = "connected" => state[e] = "connected"
    PROVE  IInv'
<1>1. executedTo \in [End -> Nat] /\ \A e \in End : executedTo[e] <= executedTo[e]
  BY DEF IInv, Typed
<1>2. \A e \in End : executedTo[e] <= queue'[Peer(e)].reliableSent
  <2> TAKE e \in End
  <2>1. PICK p \in End : p = Peer(e)
    BY Ends
  <2>2. /\ executedTo[e] \in Nat /\ executedTo[e] <= queue[p].reliableSent
        /\ QueueSound(queue[p]) /\ QueueSound(queue'[p]) /\ Grows(queue[p], queue'[p])
    BY <2>1 DEF IInv, Typed, QueuesSound, QueueStep, AcksSound, AcksSoundAt
  <2>3. queue[p].reliableSent <= queue'[p].reliableSent
        /\ queue[p].reliableSent \in Nat /\ queue'[p].reliableSent \in Nat
    BY <2>2, QueueFields DEF Grows, QueueSound
  <2> QED BY <2>1, <2>2, <2>3
<1>3. NetSoundAt(net', queue', executedTo)
  BY <1>1, NetKept
<1>4. AcksSoundAt(net', queue', executedTo, state')
  BY <1>1, <1>2, AcksKept
<1>5. ExecutedSoundAt(executed', executedTo, queue', state')
  BY ExecutedKept
<1>6. MovesFollowCommands' /\ DisconnectSound'
  BY DEF IInv, MovesFollowCommands, DisconnectSound, ExecutedLast
<1> QED BY <1>3, <1>4, <1>5, <1>6 DEF IInv, NetSound, AcksSound, ExecutedSound

LEMMA QueueChanged ==
    ASSUME IInv, NEW e \in End, NEW q, QueueSound(q), Grows(queue[e], q),
           queue' = [queue EXCEPT ![e] = q]
    PROVE  /\ QueueStep(queue') /\ queue' \in [End -> QueueType]
           /\ queue'[e] = q
           /\ \A d \in End \ {e} : queue'[d] = queue[d]
<1>1. q \in QueueType
  BY DEF QueueSound
<1>2. /\ queue' \in [End -> QueueType] /\ queue'[e] = q
      /\ \A d \in End \ {e} : queue'[d] = queue[d]
  BY <1>1 DEF IInv, Typed
<1>3. ASSUME NEW d \in End
      PROVE  QueueSound(queue'[d]) /\ Grows(queue[d], queue'[d])
  <2>1. CASE d = e
    BY <2>1, <1>2
  <2>2. CASE d # e
    BY <2>2, <1>2, GrowsReflexive DEF IInv, QueuesSound, QueueSound
  <2> QED BY <2>1, <2>2
<1> QED BY <1>2, <1>3 DEF QueueStep

(***************************************************************************)
(* The server drops the client.                                            *)
(***************************************************************************)
LEMMA WithDisconnectSound ==
    ASSUME NEW q, QueueSound(q), Window(q) <= MaxReliable + 1
    PROVE  /\ QueueSound(WithDisconnect(q)) /\ Grows(q, WithDisconnect(q))
           /\ Window(WithDisconnect(q)) <= MaxReliable + 2
           /\ WithDisconnect(q).reliableAcknowledge = q.reliableAcknowledge
           /\ WithDisconnect(q).reliableAcknowledge # WithDisconnect(q).reliableSequence
           /\ WithDisconnect(q).lost = {} =>
                 WithDisconnect(q).added = Append(q.added, Disconnect)
<1>0. q \in QueueType /\ Disconnect \in Command /\ Window(q) \in Nat
  BY QueueFields DEF QueueSound, Command, Window
<1>1. CASE ServerOverflows(q)
  <2> DEFINE s == Skip(q, Disconnect)
  <2>1. /\ QueueSound(s) /\ Grows(q, s) /\ Window(s) = MaxReliable + 1
        /\ s.reliableAcknowledge = q.reliableAcknowledge /\ s.lost # {}
    BY <1>0, <1>1, SkipSound DEF ServerOverflows
  <2> HIDE DEF s
  <2>2. s \in QueueType
    BY <2>1 DEF QueueSound
  <2>3. /\ QueueSound(Put(s, Disconnect)) /\ Grows(s, Put(s, Disconnect))
        /\ Window(Put(s, Disconnect)) = MaxReliable + 2
    BY <1>0, <2>1, PutSound
  <2>f. /\ Put(s, Disconnect).reliableAcknowledge = q.reliableAcknowledge
        /\ Put(s, Disconnect) \in QueueType /\ Put(s, Disconnect).lost # {}
    BY <1>0, <2>1, <2>2, PutFields
  <2>4. Grows(q, Put(s, Disconnect))
    BY <1>0, <2>1, <2>2, <2>3, <2>f, GrowsTransitive
  <2>5. WithDisconnect(q) = Put(s, Disconnect)
    BY <1>1 DEF WithDisconnect, s
  <2>6. Put(s, Disconnect).reliableAcknowledge # Put(s, Disconnect).reliableSequence
    BY <2>3, <2>f, QueueFields DEF Window
  <2> QED BY <2>3, <2>4, <2>5, <2>6, <2>f
<1>2. CASE ~ServerOverflows(q)
  <2> DEFINE s == Put(q, Disconnect)
  <2>1. /\ QueueSound(s) /\ Grows(q, s) /\ Window(s) = Window(q) + 1
        /\ s.reliableAcknowledge = q.reliableAcknowledge
        /\ s.reliableSequence = q.reliableSequence + 1
        /\ s.added = Append(q.added, Disconnect)
    BY <1>0, PutSound, PutFields
  <2> HIDE DEF s
  <2>2. s.reliableAcknowledge # s.reliableSequence
    BY <1>0, <2>1, QueueFields DEF QueueSound
  <2>3. WithDisconnect(q) = s
    BY <1>2 DEF WithDisconnect, s
  <2> QED BY <1>0, <2>1, <2>2, <2>3
<1> QED BY <1>1, <1>2

LEMMA DropStep ==
    ASSUME IInv, NEW q, QueueSound(q), Window(q) <= MaxReliable + 1,
           Grows(queue["server"], q),
           q.lost = {} => q.reliableAcknowledge <= executedTo["client"],
           state["server"] = "connected", q.lost = {} => q.added = queue["server"].added,
           NEW ack \in Nat, NEW n, NetType(n), NetFrom(n, NoMessage),
           DropClient(q, ack, n)
    PROVE  /\ AddedLast(queue', state', unread)
           /\ QueueStep(queue') /\ queue' \in [End -> QueueType]
           /\ Window(queue'["server"]) <= MaxReliable + 2
           /\ queue'["client"] = queue["client"]
           /\ queue'["server"].reliableAcknowledge = q.reliableAcknowledge
           /\ NetType(net')
           /\ state' = [state EXCEPT !["server"] = "gone"]
           /\ \E add : /\ NetFrom(net', add)
                       /\ \A done : done["server"] = ack /\ done["client"] = executedTo["client"]
                                      => SendStep(add, queue', done)
<1> DEFINE w == WithDisconnect(q)
<1> DEFINE m == Message(ack, w)
<1>0. /\ "server" \in End /\ "client" \in End /\ q \in QueueType
      /\ executedTo["client"] \in Nat
  BY DEF End, IInv, Typed, QueueSound
<1>1. /\ QueueSound(w) /\ Grows(q, w) /\ Window(w) <= MaxReliable + 2
      /\ w.reliableAcknowledge = q.reliableAcknowledge
      /\ w.reliableAcknowledge # w.reliableSequence
      /\ w.lost = {} => w.added = Append(q.added, Disconnect)
  BY WithDisconnectSound
<1>d. /\ queue' = [queue EXCEPT !["server"] = Sent(w)]
      /\ state' = [state EXCEPT !["server"] = "gone"]
      /\ Transmit("server", m, n)
  BY DEF DropClient
<1> HIDE DEF w
<1>2. /\ QueueSound(Sent(w)) /\ Grows(w, Sent(w)) /\ Window(Sent(w)) <= MaxReliable + 2
      /\ Sent(w).reliableAcknowledge = q.reliableAcknowledge
      /\ Sent(w).lost = w.lost /\ Sent(w).added = w.added
  BY <1>1, SentSound
<1>3. queue["server"] \in QueueType /\ w \in QueueType /\ Sent(w) \in QueueType
  BY <1>0, <1>1, <1>2 DEF IInv, Typed, QueueSound
<1>4. Grows(queue["server"], Sent(w))
  BY <1>0, <1>1, <1>2, <1>3, GrowsTransitive
<1>5. /\ QueueStep(queue') /\ queue' \in [End -> QueueType]
      /\ queue'["server"] = Sent(w) /\ queue'["client"] = queue["client"]
  BY <1>0, <1>2, <1>4, <1>d, QueueChanged
<1>6. w.lost = {} => w.reliableAcknowledge <= executedTo["client"]
  BY <1>1 DEF Grows
<1>7. m \in MessageType /\ m.ack = ack /\ MessageSound(m, Sent(w), executedTo["client"])
  BY <1>0, <1>1, <1>6, MessageOfQueue
<1> HIDE DEF m
<1>8. NetFrom(net', OneMessage("server", m)) /\ NetType(net')
  BY <1>0, <1>7, <1>d, NetTransmit
<1>9. ASSUME NEW done, done["server"] = ack, done["client"] = executedTo["client"]
      PROVE  SendStep(OneMessage("server", m), queue', done)
  <2>1. SUFFICES ASSUME NEW e \in End, NEW x \in OneMessage("server", m)[e]
                 PROVE  x.ack = done[Peer(e)] /\ MessageSound(x, queue'[Peer(e)], done[e])
    BY DEF SendStep
  <2>2. e = "client" /\ x = m
    BY <2>1, Ends DEF OneMessage, End
  <2> QED BY <2>2, <1>5, <1>7, <1>9, Ends
<1>10. AddedLast(queue', state', unread)
  <2>1. queue'["server"].lost = {} =>
            /\ queue'["server"].added = Append(queue["server"].added, Disconnect)
            /\ queue["server"].lost = {}
    BY <1>1, <1>2, <1>5 DEF Grows
  <2>2. state'["server"] = "gone"
    BY <1>0, <1>d DEF IInv, Typed
  <2> QED BY <2>1, <2>2, AddedByDrop
<1> QED BY <1>2, <1>5, <1>8, <1>9, <1>10, <1>d

(***************************************************************************)
(* The steps in which nobody executes a command.                           *)
(***************************************************************************)
LEMMA InitSound == Init => IInv
<1> SUFFICES ASSUME Init PROVE IInv
  OBVIOUS
<1>1. /\ \A e \in End : queue[e] = NewQueue /\ executedTo[e] = 0 /\ net[e] = <<>>
                         /\ executed[e] = <<>> /\ state[e] = "connected"
      /\ "server" \in End /\ "client" \in End
  BY DEF Init, End
<1>2. /\ QueueSound(NewQueue) /\ NewQueue \in QueueType /\ NewQueue.lost = {}
      /\ NewQueue.reliableAcknowledge = 0 /\ NewQueue.reliableSent = 0
      /\ Window(NewQueue) = 0
  BY NewQueueSound DEF QueueSound, NewQueue, Window
<1>3. Typed
  <2>1. /\ queue \in [End -> QueueType] /\ executedTo \in [End -> Nat]
        /\ executed \in [End -> Seq(Command)] /\ net \in [End -> Seq(MessageType)]
    BY <1>2 DEF Init
  <2>2. /\ state \in [End -> {"connected", "leaving", "gone", "crashed"}]
        /\ rounds = 0 /\ inError = FALSE /\ movesAfter = 0 /\ unread = <<>>
    BY DEF Init
  <2>3. \A e \in End : Len(net[e]) <= MaxInFlight
    BY <1>1
  <2>4. state["server"] = "connected" /\ state["client"] # "leaving"
    BY <1>1
  <2>5. rounds \in 0..3 /\ movesAfter \in Nat
    BY <2>2
  <2>6. inError \in BOOLEAN
    BY <2>2
  <2>7. unread \in Seq(Command)
    BY <2>2, NoCommands
  <2> QED BY <2>1, <2>2, <2>3, <2>4, <2>5, <2>6, <2>7 DEF Typed
<1>4. QueuesSound
  BY <1>1, <1>2 DEF QueuesSound
<1>5. NetSound
  BY <1>1 DEF NetSound, NetSoundAt
<1>6. AcksSound
  BY <1>1, <1>2, Ends DEF AcksSound, AcksSoundAt
<1>7. ExecutedSound
  BY <1>1, <1>2, Ends DEF ExecutedSound, ExecutedSoundAt
<1>8. MovesFollowCommands /\ DisconnectSound
  <2>1. NewQueue.added = <<>>
    BY DEF NewQueue
  <2> QED BY <1>1, <2>1 DEF Init, MovesFollowCommands, DisconnectSound, AddedLast, ExecutedLast
<1> QED BY <1>3, <1>4, <1>5, <1>6, <1>7, <1>8 DEF IInv

\* What the invariant says of the server's queue, and of the client's.
LEMMA ServerQueue ==
    ASSUME IInv
    PROVE  LET q == queue["server"]
           IN  /\ "server" \in End /\ q \in QueueType /\ QueueSound(q) /\ Window(q) \in Nat
               /\ q.lost = {} => q.reliableAcknowledge <= executedTo["client"]
               /\ executedTo["client"] \in Nat /\ executedTo["server"] \in Nat
               /\ state["server"] = "connected" =>
                     /\ q.lost = {} /\ Window(q) <= MaxReliable
                     /\ q.reliableAcknowledge <= executedTo["client"]
<1>1. "server" \in End /\ "client" \in End
  BY DEF End
<1>2. /\ queue["server"] \in QueueType /\ QueueSound(queue["server"])
      /\ executedTo["client"] \in Nat /\ executedTo["server"] \in Nat
      /\ state["server"] = "connected" => queue["server"].lost = {}
  BY <1>1 DEF IInv, Typed, QueuesSound
<1>3. /\ Window(queue["server"]) \in Nat
      /\ queue["server"].lost = {} => Window(queue["server"]) <= MaxReliable
  BY <1>2, QueueFields DEF QueueSound, Window
<1>4. queue["server"].lost = {} => queue["server"].reliableAcknowledge <= executedTo["client"]
  BY <1>1, Ends DEF IInv, AcksSound, AcksSoundAt
<1> QED BY <1>1, <1>2, <1>3, <1>4

LEMMA ClientQueue ==
    ASSUME IInv
    PROVE  LET q == queue["client"]
           IN  /\ "client" \in End /\ q \in QueueType /\ QueueSound(q) /\ Window(q) \in Nat
               /\ executedTo["client"] \in Nat /\ executedTo["server"] \in Nat
               /\ q.lost = {} => q.reliableAcknowledge <= executedTo["server"]
               /\ state["client"] = "connected" =>
                     q.reliableAcknowledge <= executedTo["server"]
               /\ Window(q) <= MaxReliable + 1
<1>1. "server" \in End /\ "client" \in End
  BY DEF End
<1>2. /\ queue["client"] \in QueueType /\ QueueSound(queue["client"])
      /\ executedTo["client"] \in Nat /\ executedTo["server"] \in Nat
      /\ Window(queue["client"]) <= MaxReliable + 1
  BY <1>1 DEF IInv, Typed, QueuesSound
<1>3. Window(queue["client"]) \in Nat
  BY <1>2, QueueFields DEF QueueSound, Window
<1>4. queue["client"].lost = {} \/ state["client"] = "connected" =>
          queue["client"].reliableAcknowledge <= executedTo["server"]
  BY <1>1, Ends DEF IInv, AcksSound, AcksSoundAt
<1> QED BY <1>1, <1>2, <1>3, <1>4

\* A step that drops the client keeps the invariant, when nothing is executed.
LEMMA QuietDrop ==
    ASSUME IInv, NEW q, QueueSound(q), Window(q) <= MaxReliable + 1,
           Grows(queue["server"], q), q.reliableAcknowledge = queue["server"].reliableAcknowledge,
           state["server"] = "connected", q.lost = {} => q.added = queue["server"].added,
           DropClient(q, executedTo["server"], net),
           UNCHANGED <<executedTo, rounds, inError, unread, executed, movesAfter>>
    PROVE  IInv'
<1>0. /\ "server" \in End /\ "client" \in End /\ executedTo["server"] \in Nat
      /\ queue["server"] \in QueueType /\ Typed
      /\ executedTo = [executedTo EXCEPT !["server"] = executedTo["server"]]
  BY ServerQueue DEF End, IInv, Typed
<1>1. q.lost = {} => q.reliableAcknowledge <= executedTo["client"]
  BY ServerQueue DEF Grows
<1>2. NetType(net) /\ NetFrom(net, NoMessage)
  BY <1>0, NetUnchanged
<1>3. /\ AddedLast(queue', state', unread)
      /\ QueueStep(queue') /\ queue' \in [End -> QueueType]
      /\ Window(queue'["server"]) <= MaxReliable + 2
      /\ queue'["client"] = queue["client"]
      /\ queue'["server"].reliableAcknowledge = q.reliableAcknowledge
      /\ NetType(net')
      /\ state' = [state EXCEPT !["server"] = "gone"]
      /\ \E add : /\ NetFrom(net', add)
                  /\ \A done : done["server"] = executedTo["server"]
                                /\ done["client"] = executedTo["client"]
                                => SendStep(add, queue', done)
  BY <1>0, <1>1, <1>2, DropStep
<1>4. PICK add : NetFrom(net', add) /\ SendStep(add, queue', executedTo)
  BY <1>3
<1>5. /\ state'["server"] = "gone" /\ state'["client"] = state["client"]
      /\ state' \in [End -> {"connected", "leaving", "gone", "crashed"}]
  BY <1>0, <1>3 DEF Typed
<1>6. Typed'
  BY <1>0, <1>3, <1>5 DEF Typed, NetType
<1>7. QueuesSound'
  BY <1>3, <1>5 DEF IInv, QueuesSound, QueueStep
<1>8. AckStep(net', queue', state')
  BY <1>3, <1>5 DEF AckStep, End
<1>9. \A e \in End : state'[e] = "connected" => state[e] = "connected"
  BY <1>5 DEF End
<1> QED BY <1>3, <1>4, <1>6, <1>7, <1>8, <1>9, QuietStep

LEMMA ServerAddCommandSound == ASSUME IInv, ServerAddCommand PROVE IInv'
<1> DEFINE q == queue["server"]
<1> DEFINE c == NextNumber(q)
<1>0. /\ "server" \in End /\ q \in QueueType /\ QueueSound(q) /\ Window(q) \in Nat
      /\ q.lost = {} /\ Window(q) <= MaxReliable /\ Typed
  BY ServerQueue DEF ServerAddCommand, IInv
<1>1. c \in Command
  BY <1>0, QueueFields DEF NextNumber, Command
<1>2. CASE ServerOverflows(q)
  <2>1. /\ QueueSound(Skip(q, c)) /\ Grows(q, Skip(q, c))
        /\ Window(Skip(q, c)) = MaxReliable + 1
        /\ Skip(q, c).reliableAcknowledge = q.reliableAcknowledge
        /\ Skip(q, c).lost # {}
    BY <1>0, <1>1, <1>2, SkipSound DEF ServerOverflows
  <2>2. /\ DropClient(Skip(q, c), executedTo["server"], net)
        /\ UNCHANGED <<executedTo, rounds, inError, unread, executed, movesAfter>>
        /\ state["server"] = "connected"
    BY <1>2 DEF ServerAddCommand
  <2> HIDE DEF c
  <2>3. Window(Skip(q, c)) <= MaxReliable + 1
    BY <2>1
  <2> QED BY <2>1, <2>2, <2>3, QuietDrop
<1>3. CASE ~ServerOverflows(q)
  <2> DEFINE r == Put(q, c)
  <2>1. QueueSound(r) /\ Grows(q, r) /\ Window(r) = Window(q) + 1
    BY <1>0, <1>1, PutSound
  <2>2. r.reliableAcknowledge = q.reliableAcknowledge /\ r.lost = {} /\ r.added = Append(q.added, c)
    <3>1. Window(q) < MaxReliable
      BY <1>0, <1>3 DEF ServerOverflows
    <3> HIDE DEF c
    <3> QED BY <1>0, <1>1, <3>1, PutFields
  <2>3. /\ queue' = [queue EXCEPT !["server"] = r]
        /\ UNCHANGED <<state, net, executedTo, rounds, inError, unread, executed, movesAfter>>
    BY <1>3 DEF ServerAddCommand
  <2> HIDE DEF r
  <2>4. /\ QueueStep(queue') /\ queue' \in [End -> QueueType]
        /\ queue'["server"] = r
        /\ \A d \in End \ {"server"} : queue'[d] = queue[d]
    BY <1>0, <2>1, <2>3, QueueChanged
  <2>5. queue'["client"] = queue["client"]
    BY <2>4 DEF End
  <2>6. Typed'
    BY <1>0, <2>3, <2>4 DEF Typed
  <2>7. QueuesSound'
    BY <1>0, <2>1, <2>2, <2>3, <2>4, <2>5 DEF IInv, QueuesSound, QueueStep
  <2>8. AckStep(net', queue', state')
    BY <2>2, <2>3, <2>4, <2>5 DEF AckStep, End
  <2>9. NetFrom(net', NoMessage) /\ NetType(net')
    BY <1>0, <2>3, NetUnchanged
  <2>10. SendStep(NoMessage, queue', executedTo)
    BY DEF SendStep, NoMessage
  \* The new command is a number.
  <2>11. AddedLast(queue', state', unread')
    <3>1. SUFFICES /\ \A i \in 1..Len(r.added) : r.added[i] # Disconnect
                   /\ unread = <<>>
      BY <2>3, <2>4 DEF AddedLast
    <3>2. /\ q.added \in Seq(Command) /\ unread = <<>> /\ c # Disconnect
          /\ \A i \in 1..Len(q.added) : q.added[i] # Disconnect
      <4>1. state["server"] = "connected"
        BY DEF ServerAddCommand
      <4>2. c \in Nat
        BY <1>0, QueueFields DEF NextNumber
      <4> QED BY <4>1, <4>2, <1>0, QueueFields, CommandsAssumption
              DEF IInv, DisconnectSound, AddedLast
    <3> HIDE DEF c, q
    <3>3. /\ Len(Append(q.added, c)) = Len(q.added) + 1 /\ Len(q.added) \in Nat
          /\ \A i \in 1..Len(q.added) : Append(q.added, c)[i] = q.added[i]
          /\ Append(q.added, c)[Len(q.added) + 1] = c
      BY <1>1, <3>2
    <3>4. ASSUME NEW i \in 1..Len(q.added) + 1
          PROVE  Append(q.added, c)[i] # Disconnect
      <4>1. i \in 1..Len(q.added) \/ i = Len(q.added) + 1
        BY <3>3
      <4> QED BY <4>1, <3>2, <3>3
    <3> QED BY <2>2, <3>2, <3>3, <3>4
  <2> QED BY <2>3, <2>4, <2>6, <2>7, <2>8, <2>9, <2>10, <2>11, QuietStep
<1> QED BY <1>2, <1>3

LEMMA ServerDropSound == ASSUME IInv, ServerDrop PROVE IInv'
<1>1. /\ QueueSound(queue["server"]) /\ Window(queue["server"]) <= MaxReliable + 1
      /\ Grows(queue["server"], queue["server"])
  BY ServerQueue, GrowsReflexive DEF ServerDrop
<1>2. /\ DropClient(queue["server"], executedTo["server"], net)
      /\ UNCHANGED <<executedTo, rounds, inError, unread, executed, movesAfter>>
      /\ state["server"] = "connected"
  BY DEF ServerDrop
<1> QED BY <1>1, <1>2, QuietDrop

\* The client gives up what is not acknowledged.
LEMMA ClientOverflowSound ==
    ASSUME IInv, Overflows(queue["client"]), ClientOverflow,
           UNCHANGED <<executedTo, executed, movesAfter>>
    PROVE  IInv'
<1> DEFINE q == queue["client"]
<1> DEFINE r == GiveUp(q)
<1>0. /\ "client" \in End /\ "server" \in End /\ q \in QueueType /\ QueueSound(q) /\ Typed
  BY ClientQueue DEF End, IInv
<1>1. QueueSound(r) /\ Grows(q, r) /\ Window(r) = 0 /\ r.lost # {}
  BY <1>0, GiveUpSound
<1>2. /\ queue' = [queue EXCEPT !["client"] = r] /\ net' = net
      /\ \E s \in {"leaving", "crashed"} : state' = [state EXCEPT !["client"] = s]
      /\ rounds' \in 0..3 /\ inError' \in BOOLEAN
      /\ state'["client"] = "leaving" => rounds' # 0
      /\ unread' = unread \/ unread' = <<>>
  <2>1. state \in [End -> {"connected", "leaving", "gone", "crashed"}] /\ rounds \in 0..3
        /\ inError \in BOOLEAN
    BY <1>0 DEF Typed
  <2>2. CASE inError
    <3>1. /\ state' = [state EXCEPT !["client"] = "crashed"]
          /\ rounds' = rounds /\ inError' = inError /\ unread' = unread
      BY <2>2 DEF ClientOverflow
    <3>2. state'["client"] = "crashed"
      BY <3>1, <2>1, <1>0
    <3> QED BY <3>1, <3>2, <2>1 DEF ClientOverflow
  <2>3. CASE ~inError
    <3>1. /\ state' = [state EXCEPT !["client"] = "leaving"]
          /\ rounds' = 3 /\ inError' = TRUE /\ unread' = <<>>
      BY <2>3 DEF ClientOverflow, Leave
    <3> QED BY <3>1 DEF ClientOverflow
  <2> QED BY <2>2, <2>3
<1> HIDE DEF r
<1>3. /\ QueueStep(queue') /\ queue' \in [End -> QueueType]
      /\ queue'["client"] = r
      /\ \A d \in End \ {"client"} : queue'[d] = queue[d]
  BY <1>0, <1>1, <1>2, QueueChanged
<1>4. queue'["server"] = queue["server"]
  BY <1>3 DEF End
<1>5. /\ state' \in [End -> {"connected", "leaving", "gone", "crashed"}]
      /\ state'["client"] # "connected" /\ state'["server"] = state["server"]
  BY <1>0, <1>2 DEF Typed
<1>6. Typed'
  <2>1. unread' \in Seq(Command)
    <3>1. unread \in Seq(Command)
      BY <1>0 DEF Typed
    <3> QED BY <3>1, <1>2, NoCommands
  <2> QED BY <2>1, <1>0, <1>2, <1>3, <1>5 DEF Typed
<1>7. QueuesSound'
  BY <1>1, <1>3, <1>4, <1>5 DEF IInv, QueuesSound, QueueStep
<1>8. AckStep(net', queue', state')
  BY <1>1, <1>3, <1>4, <1>5 DEF AckStep, End
<1>9. NetFrom(net', NoMessage) /\ NetType(net')
  BY <1>0, <1>2, NetUnchanged
<1>10. SendStep(NoMessage, queue', executedTo)
  BY DEF SendStep, NoMessage
<1>11. \A e \in End : state'[e] = "connected" => state[e] = "connected"
  BY <1>5 DEF End
<1>12. AddedLast(queue', state', unread')
  BY <1>2, <1>4, <1>5, AddedKept
<1> QED BY <1>3, <1>6, <1>7, <1>8, <1>9, <1>10, <1>11, <1>12, QuietStep

LEMMA ClientAddCommandSound == ASSUME IInv, ClientAddCommand PROVE IInv'
<1> DEFINE q == queue["client"]
<1> DEFINE c == NextNumber(q)
<1>0. /\ "client" \in End /\ q \in QueueType /\ QueueSound(q) /\ Window(q) \in Nat /\ Typed
  BY ClientQueue DEF IInv
<1>1. c \in Command
  BY <1>0, QueueFields DEF NextNumber, Command
<1>2. CASE Overflows(q)
  BY <1>2, ClientOverflowSound DEF ClientAddCommand
<1>3. CASE ~Overflows(q)
  <2> DEFINE r == Put(q, c)
  <2>1. QueueSound(r) /\ Grows(q, r) /\ Window(r) = Window(q) + 1
    BY <1>0, <1>1, PutSound
  <2>2. r.reliableAcknowledge = q.reliableAcknowledge
    BY <1>0, <1>1, PutFields
  <2>3. /\ queue' = [queue EXCEPT !["client"] = r]
        /\ UNCHANGED <<state, net, executedTo, rounds, inError, unread, executed, movesAfter>>
    BY <1>3 DEF ClientAddCommand
  <2>w. Window(r) <= MaxReliable + 1
    BY <1>0, <1>3, <2>1, QueueFields DEF Overflows, Window
  <2> HIDE DEF r
  <2>4. /\ QueueStep(queue') /\ queue' \in [End -> QueueType]
        /\ queue'["client"] = r
        /\ \A d \in End \ {"client"} : queue'[d] = queue[d]
    BY <1>0, <2>1, <2>3, QueueChanged
  <2>5. queue'["server"] = queue["server"]
    BY <2>4 DEF End
  <2>6. Typed'
    BY <1>0, <2>3, <2>4 DEF Typed
  <2>7. QueuesSound'
    BY <2>3, <2>4, <2>5, <2>w DEF IInv, QueuesSound, QueueStep
  <2>8. AckStep(net', queue', state')
    BY <2>2, <2>3, <2>4, <2>5 DEF AckStep, End
  <2>9. NetFrom(net', NoMessage) /\ NetType(net')
    BY <1>0, <2>3, NetUnchanged
  <2>10. SendStep(NoMessage, queue', executedTo)
    BY DEF SendStep, NoMessage
  <2>11. AddedLast(queue', state', unread')
    BY <2>3, <2>5, AddedKept
  <2> QED BY <2>11, <2>3, <2>4, <2>6, <2>7, <2>8, <2>9, <2>10, QuietStep
<1> QED BY <1>2, <1>3

LEMMA ClientDisconnectSound == ASSUME IInv, ClientDisconnect PROVE IInv'
<1>0. "client" \in End /\ "server" \in End /\ Typed /\ QueuesSound /\ IInv
  BY DEF End, IInv
<1>1. /\ UNCHANGED <<queue, executedTo, net, executed, movesAfter>>
      /\ state' = [state EXCEPT !["client"] = "leaving"]
      /\ rounds' = 3 /\ inError' \in BOOLEAN /\ unread' = <<>>
  BY DEF ClientDisconnect, Leave
<1>2. /\ state' \in [End -> {"connected", "leaving", "gone", "crashed"}]
      /\ state'["client"] = "leaving" /\ state'["server"] = state["server"]
  BY <1>0, <1>1 DEF Typed
<1>3. Typed'
  BY <1>0, <1>1, <1>2 DEF Typed
<1>4. QueuesSound'
  BY <1>0, <1>1, <1>2 DEF QueuesSound
<1>5. QueueStep(queue')
  BY <1>0, <1>1, GrowsReflexive DEF QueuesSound, QueueStep, QueueSound
<1>6. AckStep(net', queue', state')
  BY <1>1, <1>2 DEF AckStep, End
<1>7. NetFrom(net', NoMessage) /\ NetType(net')
  BY <1>0, <1>1, NetUnchanged
<1>8. SendStep(NoMessage, queue', executedTo)
  BY DEF SendStep, NoMessage
<1>9. \A e \in End : state'[e] = "connected" => state[e] = "connected"
  BY <1>2 DEF End
<1>10. AddedLast(queue', state', unread')
  BY <1>1, <1>2, AddedKept
<1> QED BY <1>10, <1>1, <1>3, <1>4, <1>5, <1>6, <1>7, <1>8, <1>9, QuietStep

\* An end e sends a message of a queue that it has perhaps added to.
LEMMA SendSound ==
    ASSUME IInv, NEW e \in End, NEW q, QueueSound(q), Grows(queue[e], q),
           q.reliableAcknowledge = queue[e].reliableAcknowledge,
           q.lost = {} => q.reliableAcknowledge <= executedTo[Peer(e)],
           q.reliableAcknowledge = q.reliableSequence =>
               q.reliableAcknowledge <= executedTo[Peer(e)],
           Window(q) <= IF e = "server" THEN MaxReliable + 2 ELSE MaxReliable + 1,
           e = "server" /\ state'["server"] = "connected" => q.lost = {},
           queue' = [queue EXCEPT ![e] = Sent(q)],
           Transmit(e, Message(executedTo[e], q), net),
           UNCHANGED <<executedTo, inError, movesAfter>>,
           executed' \in [End -> Seq(Command)], unread' \in Seq(Command),
           e = "server" => q.added = queue["server"].added,
           unread' = unread \/ unread' = <<>>, executed'["server"] = executed["server"],
           queue["server"].lost = {} \/ state'["client"] = "connected" =>
               executed'["client"] = executed["client"],
           rounds' \in 0..3 /\ (state'["client"] = "leaving" => rounds' # 0),
           state' \in [End -> {"connected", "leaving", "gone", "crashed"}],
           state'["server"] = state["server"],
           state'["client"] = "connected" => state["client"] = "connected"
    PROVE  IInv'
<1> DEFINE m == Message(executedTo[e], q)
<1>0. /\ Typed /\ QueuesSound /\ Peer(e) \in End
      /\ executedTo[e] \in Nat /\ executedTo[Peer(e)] \in Nat
      /\ queue[e] \in QueueType /\ q \in QueueType
  BY Ends DEF IInv, Typed, QueueSound
<1>1. /\ m \in MessageType /\ m.ack = executedTo[e]
      /\ MessageSound(m, Sent(q), executedTo[Peer(e)])
  BY <1>0, MessageOfQueue
<1>2. /\ QueueSound(Sent(q)) /\ Grows(q, Sent(q)) /\ Window(Sent(q)) = Window(q)
      /\ Sent(q).reliableAcknowledge = q.reliableAcknowledge
      /\ Sent(q).lost = q.lost
  BY SentSound
<1> HIDE DEF m
<1>3. Grows(queue[e], Sent(q))
  BY <1>0, <1>2, GrowsTransitive DEF QueueSound
<1>4. /\ QueueStep(queue') /\ queue' \in [End -> QueueType]
      /\ queue'[e] = Sent(q)
      /\ \A d \in End \ {e} : queue'[d] = queue[d]
  BY <1>2, <1>3, QueueChanged
<1>5. NetFrom(net, NoMessage) /\ NetType(net)
  BY <1>0, NetUnchanged
<1>6. NetFrom(net', OneMessage(e, m)) /\ NetType(net')
  BY <1>1, <1>5, NetTransmit DEF m
<1>7. Typed'
  BY <1>0, <1>4, <1>6 DEF Typed, NetType
<1>8. QueuesSound'
  <2>1. CASE e = "server"
    <3>1. queue'["client"] = queue["client"]
      BY <2>1, <1>4 DEF End
    <3> QED BY <2>1, <3>1, <1>0, <1>2, <1>4 DEF QueuesSound, QueueStep
  <2>2. CASE e = "client"
    <3>1. queue'["server"] = queue["server"]
      BY <2>2, <1>4 DEF End
    <3> QED BY <2>2, <3>1, <1>0, <1>2, <1>4 DEF QueuesSound, QueueStep
  <2> QED BY <2>1, <2>2 DEF End
<1>9. \A d \in End : state'[d] = "connected" => state[d] = "connected"
  BY DEF End
<1>10. AckStep(net', queue', state')
  <2>1. \A d \in End : queue'[d].reliableAcknowledge = queue[d].reliableAcknowledge
    BY <1>2, <1>4
  <2> QED BY <2>1, <1>9 DEF AckStep
<1>11. SendStep(OneMessage(e, m), queue', executedTo)
  <2>1. SUFFICES ASSUME NEW d \in End, NEW x \in OneMessage(e, m)[d]
                 PROVE  /\ x.ack = executedTo[Peer(d)]
                        /\ MessageSound(x, queue'[Peer(d)], executedTo[d])
    BY DEF SendStep
  <2>2. d = Peer(e) /\ x = m /\ Peer(d) = e
    BY <2>1, Ends DEF OneMessage
  <2> QED BY <2>2, <1>1, <1>4
<1>12. /\ queue'["server"].lost = {} =>
              queue'["server"].added = queue["server"].added /\ queue["server"].lost = {}
       /\ e = "client" => queue'["server"] = queue["server"]
  <2>1. CASE e = "server"
    BY <2>1, <1>3, <1>4, SentSound DEF Grows
  <2>2. CASE e = "client"
    BY <2>2, <1>4 DEF End
  <2> QED BY <2>1, <2>2 DEF End
<1>13. AddedLast(queue', state', unread')
  BY <1>12, AddedKept
<1>14. \A d \in End : queue'[Peer(d)].lost = {} \/ state'[d] = "connected" =>
                           executed'[d] = executed[d]
  BY <1>12 DEF End, Peer
<1> QED BY <1>4, <1>6, <1>7, <1>8, <1>9, <1>10, <1>11, <1>13, <1>14, QuietStep

LEMMA SendActionSound == ASSUME IInv, NEW e \in End, Send(e) PROVE IInv'
<1> DEFINE q == queue[e]
<1>0. Typed /\ Peer(e) \in End
  BY Ends DEF IInv
<1>1. /\ queue' = [queue EXCEPT ![e] = Sent(q)]
      /\ Transmit(e, Message(executedTo[e], q), net)
      /\ UNCHANGED <<executedTo, state, rounds, inError, unread, executed, movesAfter>>
      /\ state[e] = "connected"
  BY DEF Send
<1>2. /\ QueueSound(q) /\ q \in QueueType
      /\ Window(q) <= IF e = "server" THEN MaxReliable + 2 ELSE MaxReliable + 1
  BY DEF IInv, QueuesSound, QueueSound, End
<1>3. q.reliableAcknowledge <= executedTo[Peer(e)]
  BY <1>1 DEF IInv, AcksSound, AcksSoundAt
<1>4. e = "server" /\ state'["server"] = "connected" => q.lost = {}
  BY <1>1 DEF IInv, QueuesSound
<1>5. /\ rounds' \in 0..3 /\ (state'["client"] = "leaving" => rounds' # 0)
      /\ state' \in [End -> {"connected", "leaving", "gone", "crashed"}]
      /\ state'["server"] = state["server"] /\ state'["client"] = state["client"]
      /\ executed' \in [End -> Seq(Command)] /\ unread' \in Seq(Command)
  BY <1>0, <1>1 DEF Typed
<1>6. Grows(q, q)
  BY <1>2, GrowsReflexive
<1> QED BY <1>1, <1>2, <1>3, <1>4, <1>5, <1>6, SendSound

LEMMA DisconnectRoundSound == ASSUME IInv, DisconnectRound PROVE IInv'
<1> DEFINE q == queue["client"]
<1> DEFINE r == Put(q, Disconnect)
<1>0. /\ "client" \in End /\ "server" \in End /\ q \in QueueType /\ QueueSound(q)
      /\ Window(q) \in Nat /\ Typed
      /\ Disconnect \in Command /\ executedTo["server"] \in Nat
      /\ q.lost = {} => q.reliableAcknowledge <= executedTo["server"]
  BY ClientQueue DEF End, IInv, Command
<1>1. CASE Overflows(q)
  BY <1>1, ClientOverflowSound DEF DisconnectRound
<1>2. CASE ~Overflows(q)
  <2>1. /\ QueueSound(r) /\ Grows(q, r) /\ Window(r) = Window(q) + 1
    BY <1>0, PutSound
  <2>2. /\ r.reliableAcknowledge = q.reliableAcknowledge
        /\ r.reliableSequence = q.reliableSequence + 1
    BY <1>0, PutFields
  <2>3. Window(r) <= MaxReliable + 1
    BY <1>0, <1>2, <2>1, QueueFields DEF Overflows, Window
  <2>4. /\ queue' = [queue EXCEPT !["client"] = Sent(r)]
        /\ Transmit("client", Message(executedTo["client"], r), net)
        /\ rounds' = rounds - 1
        /\ IF rounds = 1 THEN Left ELSE UNCHANGED <<state, unread, executed>>
        /\ UNCHANGED <<executedTo, inError, movesAfter>>
        /\ state["client"] = "leaving"
    BY <1>2 DEF DisconnectRound
  <2> HIDE DEF r
  <2>5. r.lost = {} => r.reliableAcknowledge <= executedTo[Peer("client")]
    BY <1>0, <2>1, <2>2, Ends DEF Grows
  <2>6. r.reliableAcknowledge # r.reliableSequence
    BY <1>0, <2>2, QueueFields DEF QueueSound
  <2>7. /\ rounds' \in 0..3 /\ (state'["client"] = "leaving" => rounds' # 0)
        /\ state' \in [End -> {"connected", "leaving", "gone", "crashed"}]
        /\ state'["server"] = state["server"] /\ state'["client"] # "connected"
        /\ executed' \in [End -> Seq(Command)] /\ unread' \in Seq(Command)
        /\ unread' = unread \/ unread' = <<>>
        /\ executed'["server"] = executed["server"]
        /\ queue["server"].lost = {} => executed'["client"] = executed["client"]
    <3>1. /\ rounds \in 1..3 /\ state \in [End -> {"connected", "leaving", "gone", "crashed"}]
          /\ executed \in [End -> Seq(Command)] /\ unread \in Seq(Command)
          /\ executed["client"] \in Seq(Command)
          /\ queue["server"].lost = {} => unread = <<>>
      BY <1>0, <2>4 DEF Typed, IInv, DisconnectSound, AddedLast
    <3>2. CASE rounds = 1
      <4> DEFINE ex == executed["client"] \o unread
      <4>1. ex \in Seq(Command) /\ (unread = <<>> => ex = executed["client"])
        BY <3>1
      <4>2. /\ executed' = [executed EXCEPT !["client"] = ex]
            /\ state' = [state EXCEPT !["client"] = "gone"] /\ unread' = <<>> /\ rounds' = 0
        BY <2>4, <3>2 DEF Left
      <4> HIDE DEF ex
      <4>3. /\ executed' \in [End -> Seq(Command)] /\ executed'["client"] = ex
            /\ executed'["server"] = executed["server"]
        BY <1>0, <3>1, <4>1, <4>2
      <4>4. /\ state' \in [End -> {"connected", "leaving", "gone", "crashed"}]
            /\ state'["client"] = "gone" /\ state'["server"] = state["server"]
        BY <1>0, <3>1, <4>2
      <4> QED BY <3>1, <4>1, <4>2, <4>3, <4>4
    <3>3. CASE rounds # 1
      BY <1>0, <2>4, <3>1, <3>3
    <3> QED BY <3>2, <3>3
  <2> QED BY <1>0, <2>1, <2>2, <2>3, <2>4, <2>5, <2>6, <2>7, SendSound
<1> QED BY <1>1, <1>2

(***************************************************************************)
(* The commands of a message that are executed.                            *)
(***************************************************************************)
LEMMA Smallest ==
    ASSUME NEW S, S \subseteq Nat, S # {}
    PROVE  \E d \in S : \A j \in S : d <= j
<1>1. IsWellFoundedOn(OpToRel(<, Nat), Nat)
  BY NatLessThanWellFounded
<1> DEFINE R == OpToRel(<, Nat)
<1> HIDE DEF R
<1>2. \E x \in S : \A y \in S : ~(<<y, x>> \in R)
  BY <1>1, WFMin, Zenon DEF R
<1>3. \A x, y \in Nat : x < y => <<x, y>> \in R
  BY DEF OpToRel, R
<1>4. \E x \in S : \A y \in S : ~(y < x)
  BY <1>2, <1>3
<1> QED BY <1>4

\* They are consecutive, from the first one not executed before to the last one or a disconnect.
LEMMA ExecutedRange ==
    ASSUME NEW m \in MessageType, NEW e \in End, executedTo[e] \in Nat,
           NEW lo \in 0..m.movesAfter, DOMAIN m.commands = lo+1..m.movesAfter,
           lo = m.movesAfter => lo <= executedTo[e]
    PROVE  \/ ExecutedNow(e, m) = {} /\ m.movesAfter <= executedTo[e] /\ ~Disconnects(e, m)
           \/ \E base \in Nat, last \in Nat :
                /\ base = IF lo > executedTo[e] THEN lo ELSE executedTo[e]
                /\ base < last /\ last <= m.movesAfter
                /\ ExecutedNow(e, m) = base+1..last
                /\ \A j \in base+1..last-1 : m.commands[j] # Disconnect
                /\ Disconnects(e, m) <=> m.commands[last] = Disconnect
                /\ m.commands[last] # Disconnect => last = m.movesAfter
<1> DEFINE hi == m.movesAfter
<1> DEFINE base == IF lo > executedTo[e] THEN lo ELSE executedTo[e]
<1> DEFINE news == base+1..hi
<1>1. hi \in Nat /\ lo \in Nat /\ base \in Nat /\ (lo = hi => lo <= executedTo[e])
  BY BatchValue
<1>2. NewCommands(e, m) = news
  BY <1>1 DEF NewCommands
<1>3. CASE base >= hi
  <2>1. news = {} /\ hi <= executedTo[e]
    BY <1>1, <1>3
  <2>2. ExecutedNow(e, m) = {}
    BY <1>2, <2>1 DEF ExecutedNow
  <2> QED BY <2>1, <2>2 DEF Disconnects
<1>4. CASE base < hi
  <2> DEFINE D == {j \in news : m.commands[j] = Disconnect}
  <2> HIDE DEF base
  <2>1. PICK last \in news : /\ \A j \in base+1..last-1 : m.commands[j] # Disconnect
                             /\ m.commands[last] # Disconnect => last = hi
    <3>1. CASE D = {}
      <4>1. hi \in news /\ \A j \in news : m.commands[j] # Disconnect
        BY <3>1, <1>1, <1>4
      <4>2. base+1..hi-1 \subseteq news
        BY <1>1
      <4> QED BY <4>1, <4>2
    <3>2. CASE D # {}
      <4>1. D \in SUBSET Nat
        BY <1>1
      <4>2. PICK d \in D : \A j \in D : d <= j
        BY <3>2, <4>1, Smallest
      <4>3. \A j \in base+1..d-1 : j \in news /\ ~(d <= j)
        BY <1>1
      <4> QED BY <4>2, <4>3
    <3> QED BY <3>1, <3>2
  <2>2. last \in Nat /\ base < last /\ last <= hi
    BY <1>1
  <2>3. ASSUME NEW i \in news
        PROVE  (\A j \in news : j < i => m.commands[j] # Disconnect)
                  <=> i <= last \/ m.commands[last] # Disconnect
    <3>1. CASE i <= last
      <4>1. \A j \in news : j < i => j \in base+1..last-1
        BY <3>1, <2>2, <1>1
      <4> QED BY <4>1, <3>1, <2>1
    <3>2. CASE ~(i <= last)
      <4>1. last < i /\ last # hi
        BY <3>2, <2>2, <1>1
      <4> QED BY <4>1, <2>1
    <3> QED BY <3>1, <3>2
  <2>4. ASSUME NEW i \in news, last < i
        PROVE  m.commands[last] = Disconnect
    BY <2>1, <2>2, <2>4, <1>1
  <2>5. ASSUME NEW i \in news
        PROVE  (\A j \in news : j < i => m.commands[j] # Disconnect) <=> i <= last
    BY <2>2, <2>3, <2>4, <2>5, <1>1
  <2>6. ExecutedNow(e, m) = {i \in news : i <= last}
    BY <1>2, <2>5 DEF ExecutedNow
  <2>7. ExecutedNow(e, m) = base+1..last
    BY <2>2, <2>6, <1>1
  <2>8. last \in base+1..last /\ \A i \in base+1..last : i = last \/ i \in base+1..last-1
    BY <1>1, <2>2
  <2>9. Disconnects(e, m) <=> m.commands[last] = Disconnect
    BY <2>1, <2>7, <2>8 DEF Disconnects
  <2>10. base \in Nat /\ base = IF lo > executedTo[e] THEN lo ELSE executedTo[e]
    BY <1>1 DEF base
  <2> QED BY <2>1, <2>2, <2>7, <2>9, <2>10
<1> QED BY <1>1, <1>3, <1>4

LEMMA Concatenation ==
    ASSUME NEW s \in Seq(Command), NEW t \in Seq(Command)
    PROVE  /\ s \o t \in Seq(Command) /\ Len(s \o t) = Len(s) + Len(t)
           /\ \A i \in 1..Len(s) : (s \o t)[i] = s[i]
           /\ \A k \in 1..Len(t) : (s \o t)[Len(s) + k] = t[k]
OBVIOUS

\* What executing m does, to an end e that is connected.
ExecuteGoal(e, m) ==
    /\ executedTo' \in [End -> Nat] /\ executed' \in [End -> Seq(Command)]
    /\ executedTo'[Peer(e)] = executedTo[Peer(e)] /\ executed'[Peer(e)] = executed[Peer(e)]
    /\ executedTo[e] <= executedTo'[e]
    /\ executedTo'[e] <= queue[Peer(e)].reliableSent
    /\ ~Disconnects(e, m) =>
          /\ m.movesAfter <= executedTo'[e]
          /\ \A i \in 1..Len(executed'[e]) : executed'[e][i] # Disconnect
    /\ queue[Peer(e)].lost = {} =>
          /\ Len(executed'[e]) = executedTo'[e]
          /\ \A i \in 1..Len(executed'[e]) : executed'[e][i] = queue[Peer(e)].added[i]
    /\ \A i \in 1..Len(executed'[e]) :
          executed'[e][i] = Disconnect => i = Len(executed'[e])
    /\ Disconnects(e, m) =>
          /\ executedTo'[e] \in DOMAIN m.commands
          /\ m.commands[executedTo'[e]] = Disconnect
          /\ \A k \in 1..m.movesAfter - executedTo'[e] :
                executedTo'[e] + k \in DOMAIN m.commands

LEMMA ExecuteSound ==
    ASSUME IInv, NEW e \in End, state[e] = "connected", NEW m \in MessageType,
           MessageSound(m, queue[Peer(e)], executedTo[e]), Execute(e, m)
    PROVE  ExecuteGoal(e, m)
<1>1. PICK p \in End : p = Peer(e) /\ p # e
  BY Ends
<1>2. PICK lo \in 0..m.movesAfter :
          /\ DOMAIN m.commands = lo+1..m.movesAfter
          /\ lo = m.movesAfter => lo <= executedTo[e]
          /\ queue[p].lost = {} => lo <= executedTo[e]
  BY <1>1 DEF MessageSound
<1>3. /\ m.movesAfter \in Nat /\ executedTo \in [End -> Nat] /\ executedTo[e] \in Nat
      /\ executed \in [End -> Seq(Command)] /\ executed[e] \in Seq(Command)
      /\ executedTo[e] <= queue[p].reliableSent /\ m.movesAfter <= queue[p].reliableSent
      /\ queue[p].reliableSent \in Nat /\ executedTo[p] \in Nat
      /\ \A i \in DOMAIN m.commands : m.commands[i] \in Command
  BY <1>1, BatchValue, QueueFields DEF IInv, Typed, AcksSound, AcksSoundAt, MessageSound
<1>4. /\ queue[p].lost = {} =>
              /\ Len(executed[e]) = executedTo[e]
              /\ \A i \in 1..Len(executed[e]) : executed[e][i] = queue[p].added[i]
              /\ \A i \in DOMAIN m.commands : m.commands[i] = queue[p].added[i]
      /\ \A i \in 1..Len(executed[e]) : executed[e][i] # Disconnect
  BY <1>1 DEF IInv, ExecutedSound, ExecutedSoundAt, MessageSound
<1>5. CASE ExecutedNow(e, m) = {} /\ m.movesAfter <= executedTo[e] /\ ~Disconnects(e, m)
  <2>1. executedTo' = executedTo /\ executed' = executed
    BY <1>5 DEF Execute
  <2>2. executedTo[e] <= executedTo[e]
    BY <1>3
  <2> QED BY <1>1, <1>3, <1>4, <1>5, <2>1, <2>2 DEF ExecuteGoal
<1>6. ASSUME NEW base \in Nat, NEW last \in Nat,
             base = IF lo > executedTo[e] THEN lo ELSE executedTo[e],
             base < last, last <= m.movesAfter,
             ExecutedNow(e, m) = base+1..last,
             \A j \in base+1..last-1 : m.commands[j] # Disconnect,
             Disconnects(e, m) <=> m.commands[last] = Disconnect,
             m.commands[last] # Disconnect => last = m.movesAfter
      PROVE  ExecuteGoal(e, m)
  <2> DEFINE s == [k \in 1..last - base |-> m.commands[base + k]]
  <2> DEFINE ex == executed[e] \o s
  <2>1. /\ \A k \in 1..last - base : base + k \in DOMAIN m.commands
        /\ last \in DOMAIN m.commands
    <3>1. /\ lo \in Nat /\ lo <= base /\ m.movesAfter \in Nat
          /\ base < last /\ last <= m.movesAfter
      BY <1>3, <1>6
    <3>2. ASSUME NEW k \in 1..last - base
          PROVE  base + k \in lo+1..m.movesAfter
      BY <3>1
    <3>3. last \in lo+1..m.movesAfter
      BY <3>1
    <3> QED BY <3>2, <3>3, <1>2
  <2>2. /\ s \in Seq(Command) /\ Len(s) = last - base
        /\ \A k \in 1..last - base : s[k] = m.commands[base + k]
    <3>1. last - base \in Nat
      BY <1>6
    <3>2. \A k \in 1..last - base : m.commands[base + k] \in Command
      BY <1>3, <2>1
    <3> QED BY <3>1, <3>2
  <2>3. executedTo' = [executedTo EXCEPT ![e] = last]
        /\ executed' = [executed EXCEPT ![e] = ex]
    <3> DEFINE now == ExecutedNow(e, m)
    <3> DEFINE first == CHOOSE i \in now : \A j \in now : i <= j
    <3> DEFINE final == CHOOSE i \in now : \A j \in now : i >= j
    <3>0. now = base+1..last /\ base+1 \in base+1..last /\ last \in base+1..last
      <4>1. base+1 \in base+1..last /\ last \in base+1..last
        BY <1>6
      <4> QED BY <4>1, <1>6
    <3>1. now # {} /\ base+1 \in now /\ last \in now
      BY <3>0
    <3>2. first = base+1
      <4>1. \A j \in now : base+1 <= j
        BY <3>0
      <4>2. first \in now /\ \A j \in now : first <= j
        BY <3>1, <4>1
      <4> HIDE DEF first
      <4> QED BY <3>0, <3>1, <4>1, <4>2
    <3>3. final = last
      <4>1. \A j \in now : last >= j
        BY <3>0
      <4>2. final \in now /\ \A j \in now : final >= j
        BY <3>1, <4>1
      <4> HIDE DEF final
      <4> QED BY <3>0, <3>1, <4>1, <4>2
    <3>4. /\ executedTo' = [executedTo EXCEPT ![e] = final]
          /\ executed' = [executed EXCEPT ![e] =
                @ \o [k \in 1..final - first + 1 |-> m.commands[first + k - 1]]]
      BY <3>1 DEF Execute
    <3> HIDE DEF first, final, now
    <3>5. [k \in 1..last - (base+1) + 1 |-> m.commands[base+1 + k - 1]] = s
      <4>1. last - (base+1) + 1 = last - base
        BY <1>6
      <4>2. \A k \in 1..last - base : base+1 + k - 1 = base + k
        BY <1>6
      <4> QED BY <4>1, <4>2
    <3> HIDE DEF s
    <3> QED BY <3>2, <3>3, <3>4, <3>5
  <2>4. /\ executedTo' \in [End -> Nat] /\ executedTo'[e] = last
        /\ executedTo'[p] = executedTo[p]
    BY <1>1, <1>3, <1>6, <2>3
  <2> HIDE DEF s
  <2>5. /\ ex \in Seq(Command) /\ Len(ex) = Len(executed[e]) + (last - base)
        /\ \A i \in 1..Len(executed[e]) : ex[i] = executed[e][i]
        /\ \A k \in 1..last - base : ex[Len(executed[e]) + k] = m.commands[base + k]
        /\ Len(executed[e]) \in Nat
    <3>1. Len(executed[e]) \in Nat
      BY <1>3
    <3>2. /\ ex \in Seq(Command) /\ Len(ex) = Len(executed[e]) + Len(s)
          /\ \A i \in 1..Len(executed[e]) : ex[i] = executed[e][i]
          /\ \A k \in 1..Len(s) : ex[Len(executed[e]) + k] = s[k]
      BY <1>3, <2>2, Concatenation
    <3> HIDE DEF ex
    <3> QED BY <3>1, <3>2, <2>2
  <2> HIDE DEF ex
  <2>6. /\ executed' \in [End -> Seq(Command)] /\ executed'[e] = ex
        /\ executed'[p] = executed[p]
    BY <1>1, <1>3, <2>3, <2>5
  <2>7. executedTo[e] <= last /\ last <= queue[p].reliableSent
    BY <1>2, <1>3, <1>6
  \* Every element of ex is one executed before, or one of the message.
  <2>8. ASSUME NEW i \in 1..Len(ex)
        PROVE  \/ i \in 1..Len(executed[e]) /\ ex[i] = executed[e][i]
               \/ \E k \in 1..last - base : i = Len(executed[e]) + k /\ ex[i] = m.commands[base + k]
    <3>1. CASE i \in 1..Len(executed[e])
      BY <3>1, <2>5
    <3>2. CASE i \notin 1..Len(executed[e])
      <4>1. PICK l \in Nat : l = Len(executed[e])
        BY <2>5
      <4>2. PICK n \in Nat : n = Len(ex) /\ n = l + (last - base)
        BY <4>1, <2>5, <1>6
      <4>3. i \in 1..n /\ i \notin 1..l
        BY <3>2, <4>1, <4>2
      <4>4. i - l \in 1..last - base /\ i = l + (i - l)
        BY <4>2, <4>3, <1>6
      <4> QED BY <4>1, <4>4, <2>5
    <3> QED BY <3>1, <3>2
  <2>9. ASSUME NEW i \in 1..Len(ex), ex[i] = Disconnect
        PROVE  i = Len(ex) /\ m.commands[last] = Disconnect
    <3>1. PICK k \in 1..last - base : i = Len(executed[e]) + k /\ ex[i] = m.commands[base + k]
      BY <1>4, <2>8, <2>9
    <3>2. base + k \notin base+1..last-1
      BY <1>6, <2>9, <3>1
    <3>3. k = last - base /\ base + k = last
      <4>1. base + k \in base+1..last
        BY <1>6
      <4>2. base + k = last
        BY <1>6, <3>2, <4>1
      <4> QED BY <1>6, <4>2
    <3> QED BY <2>5, <2>9, <3>1, <3>3
  <2>10. ASSUME queue[p].lost = {}
         PROVE  Len(ex) = last /\ \A i \in 1..Len(ex) : ex[i] = queue[p].added[i]
    <3>1. base = executedTo[e] /\ Len(executed[e]) = base
      BY <1>2, <1>3, <1>4, <1>6, <2>10
    <3>2. Len(ex) = last
      BY <3>1, <2>5, <1>6
    <3>3. ASSUME NEW i \in 1..Len(ex)
          PROVE  ex[i] = queue[p].added[i]
      <4>1. CASE i \in 1..Len(executed[e]) /\ ex[i] = executed[e][i]
        BY <4>1, <1>4, <2>10
      <4>2. ASSUME NEW k \in 1..last - base,
                   i = Len(executed[e]) + k, ex[i] = m.commands[base + k]
            PROVE  ex[i] = queue[p].added[i]
        BY <4>2, <1>4, <2>1, <2>10, <3>1
      <4> QED BY <4>1, <4>2, <2>8
    <3> QED BY <3>2, <3>3
  <2>11. ~Disconnects(e, m) => m.movesAfter <= last /\ \A i \in 1..Len(ex) : ex[i] # Disconnect
    BY <1>3, <1>6, <2>9
  <2>12. \A k \in 1..m.movesAfter - last : last + k \in DOMAIN m.commands
    BY <1>2, <1>3, <1>6
  <2>13. Disconnects(e, m) => last \in DOMAIN m.commands /\ m.commands[last] = Disconnect
    BY <1>6, <2>1
  <2> QED BY <1>1, <2>4, <2>6, <2>7, <2>9, <2>10, <2>11, <2>12, <2>13 DEF ExecuteGoal
<1> QED BY <1>5, <1>6, <1>2, <1>3, ExecutedRange

(***************************************************************************)
(* The steps in which an end reads a message.                              *)
(***************************************************************************)
\* The message at the head, whose acknowledgement is always a valid one.
LEMMA Received ==
    ASSUME IInv, NEW e \in End, state[e] = "connected", net[e] # <<>>
    PROVE  LET m == Head(net[e])
               q == queue[e]
               r == [q EXCEPT !.reliableAcknowledge = m.ack]
           IN  /\ m \in MessageType /\ MessageSound(m, queue[Peer(e)], executedTo[e])
               /\ NetFrom(Taken(e), NoMessage) /\ NetType(Taken(e))
               /\ Taken(e)[e] = Tail(net[e]) /\ m = net[e][1]
               /\ q \in QueueType /\ ValidAck(q, m.ack) /\ m.ack <= executedTo[Peer(e)]
               /\ QueueSound(r) /\ Grows(q, r) /\ Window(r) <= Window(q) /\ Window(r) \in Nat
               /\ r.reliableAcknowledge = m.ack /\ r.lost = q.lost /\ r.added = q.added
<1> DEFINE m == net[e][1]
<1> DEFINE q == queue[e]
<1>1. PICK p \in End : p = Peer(e) /\ Peer(p) = e
  BY Ends
<1>2. /\ NetFrom(Taken(e), NoMessage) /\ NetType(Taken(e))
      /\ m \in MessageType /\ Head(net[e]) = m /\ 1 \in 1..Len(net[e])
      /\ Taken(e)[e] = Tail(net[e])
  BY NetTaken DEF IInv
<1>3. MessageSound(m, queue[p], executedTo[e])
  BY <1>1, <1>2 DEF IInv, NetSound, NetSoundAt
<1>4. /\ QueueSound(q) /\ q \in QueueType /\ executedTo[p] \in Nat /\ m.ack \in Nat
      /\ q.reliableSent <= q.reliableSequence
  BY <1>2, BatchValue DEF IInv, Typed, QueuesSound, QueueSound
<1>5. /\ q.reliableAcknowledge <= m.ack /\ m.ack <= executedTo[p]
      /\ executedTo[p] <= q.reliableSent
  BY <1>1, <1>2 DEF IInv, AcksSound, AcksSoundAt
<1> HIDE DEF m, q
<1>6. m.ack <= q.reliableSequence /\ ValidAck(q, m.ack)
  BY <1>4, <1>5, QueueFields DEF ValidAck
<1> DEFINE r == [q EXCEPT !.reliableAcknowledge = m.ack]
<1>7. /\ QueueSound(r) /\ Grows(q, r) /\ Window(r) <= Window(q) /\ Window(r) \in Nat
      /\ r.reliableAcknowledge = m.ack /\ r.lost = q.lost /\ r.added = q.added
  BY <1>4, <1>5, <1>6, AckSound
<1> QED BY <1>1, <1>2, <1>3, <1>4, <1>5, <1>6, <1>7 DEF m, q

\* A step in which e executes the commands of a message keeps the invariant.
LEMMA ReceiveStep ==
    ASSUME IInv, AddedLast(queue', state', unread'), NEW e \in End, NEW m \in MessageType, ExecuteGoal(e, m),
           QueueStep(queue'), queue'[Peer(e)] = queue[Peer(e)],
           AckStep(net', queue', state'),
           NEW add, NetFrom(net', add), NetType(net'), SendStep(add, queue', executedTo'),
           \A d \in End : state'[d] = "connected" => state[d] = "connected",
           Disconnects(e, m) => state'[e] # "connected",
           \/ movesAfter' = movesAfter
           \/ e = "server" /\ ~Disconnects(e, m) /\ movesAfter' = m.movesAfter,
           Typed', QueuesSound'
    PROVE  IInv'
<1>1. PICK p \in End : p = Peer(e) /\ Peer(p) = e /\ p # e /\ \A d \in End : d = e \/ d = p
  BY Ends DEF End
<1>2. /\ executedTo' \in [End -> Nat] /\ executedTo \in [End -> Nat]
      /\ executedTo'[p] = executedTo[p] /\ executed'[p] = executed[p]
      /\ executedTo[e] <= executedTo'[e] /\ executedTo'[e] <= queue[p].reliableSent
      /\ queue'[p] = queue[p]
  BY <1>1 DEF ExecuteGoal, IInv, Typed
<1>3. \A d \in End : executedTo[d] <= executedTo'[d]
  BY <1>1, <1>2
<1>4. executedTo'[p] <= queue'[e].reliableSent
  <2>1. /\ executedTo[p] <= queue[e].reliableSent
        /\ QueueSound(queue[e]) /\ QueueSound(queue'[e]) /\ Grows(queue[e], queue'[e])
    BY <1>1 DEF IInv, QueuesSound, QueueStep, AcksSound, AcksSoundAt
  <2>2. queue[e].reliableSent <= queue'[e].reliableSent
        /\ queue[e].reliableSent \in Nat /\ queue'[e].reliableSent \in Nat
    BY <2>1, QueueFields DEF Grows, QueueSound
  <2> QED BY <1>2, <2>1, <2>2
<1>5. \A d \in End : executedTo'[d] <= queue'[Peer(d)].reliableSent
  BY <1>1, <1>2, <1>4
<1>6. NetSoundAt(net', queue', executedTo')
  BY <1>2, <1>3, NetKept
<1>7. AcksSoundAt(net', queue', executedTo', state')
  BY <1>2, <1>3, <1>5, AcksKept
<1>8. ExecutedSoundAt(executed', executedTo', queue', state')
  <2>1. ExecutedSoundAt(executed, executedTo, queue', state')
    BY ExecutedKept
  <2>2. SUFFICES ASSUME NEW d \in End
                 PROVE  /\ queue'[Peer(d)].lost = {} =>
                              /\ Len(executed'[d]) = executedTo'[d]
                              /\ \A i \in 1..Len(executed'[d]) :
                                    executed'[d][i] = queue'[Peer(d)].added[i]
                        /\ state'[d] = "connected" =>
                              \A i \in 1..Len(executed'[d]) : executed'[d][i] # Disconnect
    BY DEF ExecutedSoundAt
  <2>3. CASE d = e
    BY <2>3, <1>1, <1>2 DEF ExecuteGoal
  <2>4. CASE d = p
    BY <2>1, <2>4, <1>2 DEF ExecutedSoundAt
  <2> QED BY <2>3, <2>4, <1>1
<1>9. MovesFollowCommands'
  <2>1. "server" \in End /\ movesAfter \in Nat /\ movesAfter <= executedTo["server"]
    BY DEF End, IInv, Typed, MovesFollowCommands
  <2>2. CASE movesAfter' = movesAfter
    BY <2>1, <2>2, <1>2, <1>3 DEF MovesFollowCommands
  <2>3. CASE e = "server" /\ ~Disconnects(e, m) /\ movesAfter' = m.movesAfter
    BY <2>3 DEF MovesFollowCommands, ExecuteGoal
  <2> QED BY <2>2, <2>3
<1>10. DisconnectSound'
  <2>1. "server" = e \/ "server" = p
    BY <1>1 DEF End
  <2>2. ExecutedLast(executed)
    BY DEF IInv, DisconnectSound
  <2> QED BY <2>1, <2>2, <1>2 DEF DisconnectSound, ExecutedLast, ExecuteGoal
<1> QED BY <1>6, <1>7, <1>8, <1>9, <1>10 DEF IInv, NetSound, AcksSound, ExecutedSound

LEMMA ServerReceiveSound == ASSUME IInv, ServerReceive PROVE IInv'
<1> DEFINE m == Head(net["server"])
<1> DEFINE q == [queue["server"] EXCEPT !.reliableAcknowledge = m.ack]
<1>0. /\ "server" \in End /\ "client" \in End /\ state["server"] = "connected"
      /\ net["server"] # <<>> /\ Typed /\ QueuesSound
      /\ Peer("server") = "client"
      /\ UNCHANGED <<rounds, inError, unread>>
  BY Ends DEF End, ServerReceive, IInv
<1>1. /\ m \in MessageType /\ MessageSound(m, queue[Peer("server")], executedTo["server"])
      /\ NetFrom(Taken("server"), NoMessage) /\ NetType(Taken("server"))
      /\ Taken("server")["server"] = Tail(net["server"]) /\ m = net["server"][1]
      /\ queue["server"] \in QueueType
      /\ ValidAck(queue["server"], m.ack) /\ m.ack <= executedTo["client"]
      /\ QueueSound(q) /\ Grows(queue["server"], q)
      /\ Window(q) <= Window(queue["server"]) /\ Window(q) \in Nat
      /\ q.reliableAcknowledge = m.ack /\ q.lost = queue["server"].lost
      /\ q.added = queue["server"].added
  BY <1>0, Received
<1>2. /\ Execute("server", m)
      /\ IF Disconnects("server", m)
         THEN /\ DropClient(q, executedTo'["server"], Taken("server"))
              /\ UNCHANGED movesAfter
         ELSE /\ queue' = [queue EXCEPT !["server"] = q]
              /\ net' = Taken("server")
              /\ movesAfter' = m.movesAfter
              /\ UNCHANGED state
  BY <1>1 DEF ServerReceive
<1>w. /\ Window(queue["server"]) \in Nat /\ Window(queue["server"]) <= MaxReliable
      /\ queue["server"].lost = {}
  BY <1>0, ServerQueue
<1> HIDE DEF m, q
<1>3. ExecuteGoal("server", m)
  BY <1>0, <1>1, <1>2, ExecuteSound
<1>4. /\ executedTo' \in [End -> Nat] /\ executed' \in [End -> Seq(Command)]
      /\ executedTo'["client"] = executedTo["client"] /\ m.movesAfter \in Nat
  BY <1>0, <1>1, <1>3, BatchValue DEF ExecuteGoal
<1>5. CASE Disconnects("server", m)
  <2>1. /\ DropClient(q, executedTo'["server"], Taken("server")) /\ movesAfter' = movesAfter
    BY <1>2, <1>5
  <2>2. /\ Window(q) <= MaxReliable + 1 /\ executedTo'["server"] \in Nat
        /\ q.added = queue["server"].added
        /\ q.lost = {} => q.reliableAcknowledge <= executedTo["client"]
    BY <1>0, <1>1, <1>4, <1>w
  <2>3. /\ AddedLast(queue', state', unread)
        /\ QueueStep(queue') /\ queue' \in [End -> QueueType]
        /\ Window(queue'["server"]) <= MaxReliable + 2
        /\ queue'["client"] = queue["client"]
        /\ queue'["server"].reliableAcknowledge = q.reliableAcknowledge
        /\ NetType(net')
        /\ state' = [state EXCEPT !["server"] = "gone"]
        /\ \E add : /\ NetFrom(net', add)
                    /\ \A done : done["server"] = executedTo'["server"]
                                  /\ done["client"] = executedTo["client"]
                                  => SendStep(add, queue', done)
    BY <1>0, <1>1, <2>1, <2>2, DropStep
  <2>4. PICK add : NetFrom(net', add) /\ SendStep(add, queue', executedTo')
    BY <1>4, <2>3
  <2>5. net'["server"] = Tail(net["server"])
    BY <1>0, <1>1, <2>1 DEF DropClient, Transmit, NetType
  <2>6. /\ state'["server"] = "gone" /\ state'["client"] = state["client"]
        /\ state' \in [End -> {"connected", "leaving", "gone", "crashed"}]
    BY <1>0, <2>3 DEF Typed
  <2>7. Typed'
    BY <1>0, <1>4, <2>1, <2>3, <2>6 DEF Typed, NetType
  <2>8. QueuesSound'
    BY <1>0, <2>3, <2>6 DEF QueuesSound, QueueStep
  <2>9. AckStep(net', queue', state')
    BY <1>0, <1>1, <2>3, <2>5, <2>6 DEF AckStep, End
  <2>10. \A d \in End : state'[d] = "connected" => state[d] = "connected"
    BY <2>6 DEF End
  <2> QED BY <1>0, <1>1, <1>3, <2>1, <2>3, <2>4, <2>6, <2>7, <2>8, <2>9, <2>10, ReceiveStep
<1>6. CASE ~Disconnects("server", m)
  <2>1. /\ queue' = [queue EXCEPT !["server"] = q] /\ net' = Taken("server")
        /\ movesAfter' = m.movesAfter /\ state' = state
    BY <1>2, <1>6
  <2>2. /\ QueueStep(queue') /\ queue' \in [End -> QueueType]
        /\ queue'["server"] = q
        /\ \A d \in End \ {"server"} : queue'[d] = queue[d]
    BY <1>0, <1>1, <2>1, QueueChanged
  <2>3. queue'["client"] = queue["client"]
    BY <2>2 DEF End
  <2>4. Typed'
    BY <1>0, <1>1, <1>4, <2>1, <2>2 DEF Typed, NetType
  <2>5. Window(q) <= MaxReliable + 2
    BY <1>1, <1>w
  <2>6. QueuesSound'
    BY <1>0, <1>1, <1>w, <2>1, <2>2, <2>3, <2>5 DEF QueuesSound, QueueStep
  <2>7. AckStep(net', queue', state')
    BY <1>0, <1>1, <2>1, <2>2, <2>3 DEF AckStep, End
  <2>8. SendStep(NoMessage, queue', executedTo')
    BY DEF SendStep, NoMessage
  <2>9. NetFrom(net', NoMessage) /\ NetType(net')
    BY <1>1, <2>1
  <2>10. queue'[Peer("server")] = queue[Peer("server")]
    BY <1>0, <2>3
  <2>11. \A d \in End : state'[d] = "connected" => state[d] = "connected"
    BY <2>1
  <2>12. AddedLast(queue', state', unread')
    BY <1>0, <1>1, <2>1, <2>2, AddedKept
  <2> QED BY <2>12, <1>0, <1>1, <1>3, <1>6, <2>1, <2>2, <2>4, <2>6, <2>7, <2>8, <2>9, <2>10, <2>11,
             ReceiveStep
<1> QED BY <1>5, <1>6

LEMMA ClientReceiveSound == ASSUME IInv, ClientReceive PROVE IInv'
<1> DEFINE m == Head(net["client"])
<1> DEFINE q == [queue["client"] EXCEPT !.reliableAcknowledge = m.ack]
<1>0. /\ "server" \in End /\ "client" \in End /\ state["client"] = "connected"
      /\ net["client"] # <<>> /\ Typed /\ QueuesSound
      /\ Peer("client") = "server"
  BY Ends DEF End, ClientReceive, IInv
<1>1. /\ m \in MessageType /\ MessageSound(m, queue[Peer("client")], executedTo["client"])
      /\ NetFrom(Taken("client"), NoMessage) /\ NetType(Taken("client"))
      /\ Taken("client")["client"] = Tail(net["client"]) /\ m = net["client"][1]
      /\ queue["client"] \in QueueType
      /\ QueueSound(q) /\ Grows(queue["client"], q)
      /\ Window(q) <= Window(queue["client"]) /\ Window(q) \in Nat
      /\ q.reliableAcknowledge = m.ack
  BY <1>0, Received
<1>2. /\ queue' = [queue EXCEPT !["client"] = q]
      /\ Execute("client", m)
      /\ net' = Taken("client") /\ movesAfter' = movesAfter
      /\ IF Disconnects("client", m)
         THEN Leave(FALSE, Rest(m, executedTo'["client"]))
         ELSE UNCHANGED <<state, rounds, inError, unread>>
  BY DEF ClientReceive
<1>w. Window(queue["client"]) \in Nat /\ Window(queue["client"]) <= MaxReliable + 1
  BY <1>0, ClientQueue
<1> HIDE DEF m, q
<1>3. ExecuteGoal("client", m)
  BY <1>0, <1>1, <1>2, ExecuteSound
<1>4. executedTo' \in [End -> Nat] /\ executed' \in [End -> Seq(Command)]
  BY <1>3 DEF ExecuteGoal
<1>5. /\ QueueStep(queue') /\ queue' \in [End -> QueueType]
      /\ queue'["client"] = q
      /\ \A d \in End \ {"client"} : queue'[d] = queue[d]
  BY <1>0, <1>1, <1>2, QueueChanged
<1>6. queue'["server"] = queue["server"]
  BY <1>5 DEF End
<1>7. /\ state' \in [End -> {"connected", "leaving", "gone", "crashed"}]
      /\ state'["server"] = state["server"]
      /\ rounds' \in 0..3 /\ (state'["client"] = "leaving" => rounds' # 0)
      /\ inError' \in BOOLEAN
      /\ Disconnects("client", m) => state'["client"] # "connected"
  <2>1. /\ state \in [End -> {"connected", "leaving", "gone", "crashed"}]
        /\ rounds \in 0..3 /\ inError \in BOOLEAN
    BY <1>0 DEF Typed
  <2>2. CASE Disconnects("client", m)
    <3>1. state' = [state EXCEPT !["client"] = "leaving"] /\ rounds' = 3 /\ inError' = FALSE
      BY <1>2, <2>2 DEF Leave
    <3>2. /\ state' \in [End -> {"connected", "leaving", "gone", "crashed"}]
          /\ state'["server"] = state["server"] /\ state'["client"] = "leaving"
      BY <1>0, <2>1, <3>1
    <3>3. inError' \in BOOLEAN
      BY <3>1
    <3>4. rounds' \in 0..3 /\ rounds' # 0
      BY <3>1
    <3> QED BY <3>2, <3>3, <3>4
  <2>3. CASE ~Disconnects("client", m)
    <3>1. state' = state /\ rounds' = rounds /\ inError' = inError
      BY <1>2, <2>3
    <3> QED BY <1>0, <2>1, <2>3, <3>1
  <2> QED BY <2>2, <2>3
\* What follows a disconnect, in the message and in the queue.
<1>r. unread' \in Seq(Command) /\ (queue["server"].lost = {} => unread' = <<>>)
  <2>1. CASE ~Disconnects("client", m)
    <3>1. unread' = unread
      BY <1>2, <2>1
    <3> QED BY <3>1, <1>0 DEF Typed, IInv, DisconnectSound, AddedLast
  <2>2. CASE Disconnects("client", m)
    <3> DEFINE last == executedTo'["client"]
    <3>1. /\ unread' = [k \in 1..m.movesAfter - last |-> m.commands[last + k]]
          /\ last \in Nat /\ m.movesAfter \in Nat
          /\ \A i \in DOMAIN m.commands : m.commands[i] \in Command
          /\ \A k \in 1..m.movesAfter - last : last + k \in DOMAIN m.commands
      BY <1>0, <1>1, <1>2, <1>3, <1>4, <2>2, BatchValue DEF Leave, Rest, ExecuteGoal
    <3> HIDE DEF last
    <3>2. unread' \in Seq(Command)
      <4>1. \A k \in 1..m.movesAfter - last : m.commands[last + k] \in Command
        BY <3>1
      <4>2. CASE m.movesAfter - last \in Nat
        BY <4>1, <4>2, <3>1
      <4>3. CASE m.movesAfter - last \notin Nat
        <5>1. 1..m.movesAfter - last = 1..0
          BY <4>3, <3>1
        <5> QED BY <5>1, <3>1
      <4> QED BY <4>2, <4>3
    <3>3. ASSUME queue["server"].lost = {}
          PROVE  unread' = <<>>
      <4> DEFINE added == queue["server"].added
      <4>1. /\ last \in DOMAIN m.commands
            /\ \A j \in DOMAIN m.commands : m.commands[j] = added[j]
            /\ added[last] = Disconnect
        BY <1>0, <1>1, <1>3, <2>2, <3>3 DEF ExecuteGoal, MessageSound, last
      <4>2. /\ Len(added) = queue["server"].reliableSequence
            /\ queue["server"].reliableSequence \in Nat
            /\ m.movesAfter <= Len(added)
        <5>1. /\ queue["server"] \in QueueType /\ QueueSound(queue["server"])
              /\ m.movesAfter <= queue["server"].reliableSent
          BY <1>0, <1>1 DEF IInv, QueuesSound, QueueSound, MessageSound
        <5> QED BY <5>1, <3>1, QueueFields DEF QueueSound
      <4>3. PICK lo \in 0..m.movesAfter : DOMAIN m.commands = lo+1..m.movesAfter
        BY <1>1 DEF MessageSound
      <4>4. last \in 1..Len(added) /\ last <= m.movesAfter
        BY <4>1, <4>2, <4>3, <3>1
      <4>5. last = Len(added)
        BY <4>1, <4>4, <3>3 DEF IInv, DisconnectSound, AddedLast
      <4>6. 1..m.movesAfter - last = {}
        BY <4>2, <4>4, <4>5, <3>1
      <4> QED BY <4>6, <3>1
    <3> QED BY <3>2, <3>3
  <2> QED BY <2>1, <2>2
<1>8. Typed'
  BY <1>0, <1>1, <1>2, <1>4, <1>5, <1>7, <1>r DEF Typed, NetType
<1>9. Window(q) <= MaxReliable + 1
  BY <1>1, <1>w
<1>10. QueuesSound'
  BY <1>0, <1>5, <1>6, <1>7, <1>9 DEF QueuesSound, QueueStep
<1>11. AckStep(net', queue', state')
  BY <1>0, <1>1, <1>2, <1>5, <1>6, <1>7 DEF AckStep, End
<1>12. SendStep(NoMessage, queue', executedTo')
  BY DEF SendStep, NoMessage
<1>13. \A d \in End : state'[d] = "connected" => state[d] = "connected"
  BY <1>0, <1>7 DEF End
<1>14. NetFrom(net', NoMessage) /\ NetType(net')
  BY <1>1, <1>2
<1>15. queue'[Peer("client")] = queue[Peer("client")]
  BY <1>0, <1>6
<1>16. AddedLast(queue', state', unread')
  BY <1>6, <1>7, <1>r DEF IInv, DisconnectSound, AddedLast
<1> QED BY <1>16, <1>0, <1>1, <1>2, <1>3, <1>5, <1>7, <1>8, <1>10, <1>11, <1>12, <1>13, <1>14, <1>15,
           ReceiveStep

(***************************************************************************)
(* The invariant holds, and implies the properties.                        *)
(***************************************************************************)
LEMMA Unchanged == ASSUME IInv, UNCHANGED vars PROVE IInv'
<1>1. UNCHANGED <<queue, executedTo, state, rounds, inError, unread, net, executed, movesAfter>>
  BY DEF vars
<1>2. Typed' /\ QueuesSound'
  BY <1>1 DEF IInv, Typed, QueuesSound
<1>3. QueueStep(queue')
  BY <1>1, GrowsReflexive DEF IInv, QueuesSound, QueueStep, QueueSound
<1>4. AckStep(net', queue', state')
  BY <1>1 DEF AckStep
<1>5. NetFrom(net', NoMessage) /\ NetType(net')
  BY <1>1, NetUnchanged DEF IInv
<1>6. SendStep(NoMessage, queue', executedTo)
  BY DEF SendStep, NoMessage
<1>7. AddedLast(queue', state', unread')
  BY <1>1, AddedKept
<1> QED BY <1>1, <1>2, <1>3, <1>4, <1>5, <1>6, <1>7, QuietStep

LEMMA NextSound == IInv /\ [Next]_vars => IInv'
<1> SUFFICES ASSUME IInv, [Next]_vars PROVE IInv'
  OBVIOUS
<1>1. CASE ServerAddCommand
  BY <1>1, ServerAddCommandSound
<1>2. CASE ServerDrop
  BY <1>2, ServerDropSound
<1>3. CASE ServerReceive
  BY <1>3, ServerReceiveSound
<1>4. CASE ClientAddCommand
  BY <1>4, ClientAddCommandSound
<1>5. CASE ClientDisconnect
  BY <1>5, ClientDisconnectSound
<1>6. CASE DisconnectRound
  BY <1>6, DisconnectRoundSound
<1>7. CASE ClientReceive
  BY <1>7, ClientReceiveSound
<1>8. ASSUME NEW e \in End, Send(e) PROVE IInv'
  BY <1>8, SendActionSound
<1>9. CASE UNCHANGED vars
  BY <1>9, Unchanged
<1> QED BY <1>1, <1>2, <1>3, <1>4, <1>5, <1>6, <1>7, <1>8, <1>9 DEF Next

\* IInv holds in every state that the two ends can reach: it is inductive.
THEOREM ReliableInvariant == Spec => []IInv
<1> QED BY InitSound, NextSound, PTL DEF Spec

\* The windows of the two rings, and the types, for rings of any size: the server writes at
\* most two commands past its window (SV_AddServerCommand, SV_DropClient), the client one
\* (CL_AddReliableCommand).
THEOREM ReliableTypeOK == Spec => []TypeOK
<1>1. IInv => TypeOK
  <2> SUFFICES ASSUME IInv PROVE TypeOK
    OBVIOUS
  <2>1. Window(queue["server"]) \in Nat /\ Window(queue["server"]) <= MaxReliable + 2
    BY ServerQueue DEF IInv, QueuesSound
  <2>2. Window(queue["client"]) \in Nat /\ Window(queue["client"]) <= MaxReliable + 1
    BY ClientQueue
  <2>3. state["client"] \in {"connected", "leaving", "gone", "crashed"}
    BY DEF IInv, Typed, End
  <2>4. /\ Window(queue["server"]) \in 0..MaxReliable+2
        /\ Window(queue["client"]) \in 0..MaxReliable+1
    BY <2>1, <2>2
  <2> QED BY <2>3, <2>4 DEF IInv, Typed, TypeOK
<1> QED BY <1>1, ReliableInvariant, PTL

\* An end executes its peer's commands in the order they were added, each once and none skipped
\* (SV_ParseClientMessage, CL_ParseServerMessage), whatever the network loses.
THEOREM ReliableExecutedInOrder == Spec => []ExecutedInOrder
<1>1. IInv => ExecutedInOrder
  <2> SUFFICES ASSUME IInv, NEW e \in End, queue[e].lost = {}
               PROVE  IsPrefixOf(executed[Peer(e)], queue[e].added)
    BY DEF ExecutedInOrder
  <2>1. PICK p \in End : p = Peer(e) /\ Peer(p) = e
    BY Ends
  <2>2. /\ Len(executed[p]) = executedTo[p]
        /\ \A i \in 1..Len(executed[p]) : executed[p][i] = queue[e].added[i]
        /\ executedTo[p] \in Nat /\ executedTo[p] <= queue[e].reliableSent
    <3>1. executedTo[p] \in Nat
      BY DEF IInv, Typed
    <3> QED BY <2>1, <3>1 DEF IInv, ExecutedSound, ExecutedSoundAt, AcksSound, AcksSoundAt
  <2>3. /\ Len(queue[e].added) = queue[e].reliableSequence
        /\ queue[e].reliableSent <= queue[e].reliableSequence
        /\ queue[e].reliableSent \in Nat /\ queue[e].reliableSequence \in Nat
    BY QueueFields DEF IInv, QueuesSound, QueueSound
  <2>4. executedTo[p] <= queue[e].reliableSequence
    BY <2>2, <2>3
  <2> QED BY <2>1, <2>2, <2>3, <2>4 DEF IsPrefixOf
<1> QED BY <1>1, ReliableInvariant, PTL

\* While the client is connected, every command that the server may have to repeat is still in
\* its slot of the ring: the overflow test of SV_AddServerCommand is early enough.
THEOREM ReliableServerKeepsUnacknowledged == Spec => []ServerKeepsUnacknowledged
<1>1. IInv => ServerKeepsUnacknowledged
  <2> SUFFICES ASSUME IInv, state["server"] = "connected",
                      NEW i \in DOMAIN Pending(queue["server"])
               PROVE  Pending(queue["server"])[i] = queue["server"].added[i]
    BY DEF ServerKeepsUnacknowledged
  <2>1. QueueSound(queue["server"]) /\ queue["server"].lost = {}
    BY ServerQueue
  <2> QED BY <2>1 DEF QueueSound, Pending, InSlot
<1> QED BY <1>1, ReliableInvariant, PTL

\* What an end stops repeating, its peer has executed, and a peer executes only what was sent:
\* an acknowledgement never fails the test of SV_ParseClientMessage, and clcack needs none.
THEOREM ReliableAcksAreSound == Spec => []AcksAreSound
<1>1. IInv => AcksAreSound
  <2> SUFFICES ASSUME IInv, NEW e \in End, queue[e].lost = {}
               PROVE  /\ queue[e].reliableAcknowledge <= Len(executed[Peer(e)])
                      /\ Len(executed[Peer(e)]) <= queue[e].reliableSent
                      /\ queue[e].reliableSent <= queue[e].reliableSequence
    BY DEF AcksAreSound
  <2>1. PICK p \in End : p = Peer(e) /\ Peer(p) = e
    BY Ends
  <2>2. /\ Len(executed[p]) = executedTo[p]
        /\ queue[e].reliableAcknowledge <= executedTo[p]
        /\ executedTo[p] <= queue[e].reliableSent
    BY <2>1 DEF IInv, ExecutedSound, ExecutedSoundAt, AcksSound, AcksSoundAt
  <2>3. queue[e].reliableSent <= queue[e].reliableSequence
    BY DEF IInv, QueuesSound, QueueSound
  <2> QED BY <2>1, <2>2, <2>3
<1> QED BY <1>1, ReliableInvariant, PTL

\* When usercmds take effect, the commands added before them have been executed.
THEOREM ReliableMovesFollowCommands == Spec => []MovesFollowCommands
<1>1. IInv => MovesFollowCommands
  BY DEF IInv
<1> QED BY <1>1, ReliableInvariant, PTL

\* A disconnect is the last command the server executes (it returns from SV_ParseClientMessage);
\* and the client's, which goes on with the message, unless the server lost a command: as long
\* as none is lost the server adds nothing after it.
THEOREM ReliableNothingAfterDisconnect == Spec => []NothingAfterDisconnect
<1>1. IInv => NothingAfterDisconnect
  <2> SUFFICES ASSUME IInv, NEW e \in End, e = "server" \/ queue["server"].lost = {},
                      NEW i \in 1..Len(executed[e]), executed[e][i] = Disconnect
               PROVE  i = Len(executed[e])
    BY DEF NothingAfterDisconnect
  <2>1. CASE e = "server"
    BY <2>1 DEF IInv, DisconnectSound, ExecutedLast
  <2>2. CASE e = "client" /\ queue["server"].lost = {}
    <3> DEFINE q == queue["server"]
    <3>1. /\ q \in QueueType /\ QueueSound(q)
          /\ Len(executed[e]) = executedTo[e] /\ executed[e][i] = q.added[i]
          /\ executedTo[e] \in Nat /\ executedTo[e] <= q.reliableSent
      <4>1. q \in QueueType /\ QueueSound(q) /\ executedTo[e] \in Nat
        BY <2>2, ServerQueue
      <4>2. Peer(e) = "server"
        BY <2>2, Ends
      <4> QED BY <2>2, <4>1, <4>2 DEF IInv, ExecutedSound, ExecutedSoundAt, AcksSound, AcksSoundAt
    <3>2. i <= Len(executed[e]) /\ Len(executed[e]) <= Len(q.added) /\ i \in 1..Len(q.added)
          /\ Len(q.added) \in Nat
      BY <3>1, QueueFields DEF QueueSound
    <3>3. i = Len(q.added)
      BY <2>2, <3>1, <3>2 DEF IInv, DisconnectSound, AddedLast
    <3> QED BY <3>1, <3>2, <3>3
  <2> QED BY <2>1, <2>2 DEF End
<1> QED BY <1>1, ReliableInvariant, PTL
=============================================================================
