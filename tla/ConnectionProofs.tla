-------------------------- MODULE ConnectionProofs --------------------------
(***************************************************************************)
(* For any number of levels, of messages in flight and of other commands   *)
(* that take numbers: a client is spawned, active and fed frames only in   *)
(* the level that the server runs, however many messages are lost and      *)
(* whenever the level changes.                                             *)
(*                                                                         *)
(* First what the streams of ConnectionInv become when an end reads, takes *)
(* or sends; then, for each action, what it does in these terms            *)
(* (ServerEffects, ClientEffects); then each part of the invariant, once   *)
(* for all steps of the server and once for all steps of the client.       *)
(***************************************************************************)
EXTENDS ConnectionInv, TLAPS

(***************************************************************************)
(* Streams.                                                                *)
(***************************************************************************)
\* The pairs of a body, taken apart and made longer or shorter.
LEMMA InBodyMember ==
    ASSUME NEW b, NEW i \in 1..Len(b), NEW j \in i+1..Len(b)
    PROVE  <<b[i], b[j]>> \in InBody(b)
BY DEF InBody

LEMMA InBodyPairs ==
    ASSUME NEW b, NEW w \in InBody(b)
    PROVE  \E i \in 1..Len(b) : \E j \in i+1..Len(b) : w = <<b[i], b[j]>>
BY DEF InBody

LEMMA NoElements == Elements(<<>>) = {} /\ InBody(<<>>) = {}
BY DEF Elements, InBody

LEMMA TailElements ==
    ASSUME NEW T, NEW b \in Seq(T), b # <<>>
    PROVE  /\ Elements(b) = {Head(b)} \cup Elements(Tail(b))
           /\ InBody(b) = ({Head(b)} \X Elements(Tail(b))) \cup InBody(Tail(b))
           /\ Head(b) \in T /\ Tail(b) \in Seq(T) /\ Head(b) = b[1]
<1>1. /\ Tail(b) \in Seq(T) /\ Len(b) \in Nat /\ Len(b) > 0 /\ Len(Tail(b)) = Len(b) - 1
      /\ Head(b) = b[1] /\ b[1] \in T
      /\ \A i \in 1..Len(b)-1 : Tail(b)[i] = b[i+1]
  OBVIOUS
<1>2. Elements(b) \subseteq {Head(b)} \cup Elements(Tail(b))
  <2> SUFFICES ASSUME NEW i \in 1..Len(b), i # 1 PROVE b[i] \in Elements(Tail(b))
    BY <1>1 DEF Elements
  <2>1. i - 1 \in 1..Len(Tail(b)) /\ Tail(b)[i-1] = b[i]
    BY <1>1
  <2> QED BY <2>1 DEF Elements
<1>3. {Head(b)} \cup Elements(Tail(b)) \subseteq Elements(b)
  <2>1. \A i \in 1..Len(Tail(b)) : i + 1 \in 1..Len(b) /\ Tail(b)[i] = b[i+1]
    BY <1>1
  <2>2. 1 \in 1..Len(b)
    BY <1>1
  <2> QED BY <1>1, <2>1, <2>2 DEF Elements
<1>4. InBody(b) \subseteq ({Head(b)} \X Elements(Tail(b))) \cup InBody(Tail(b))
  <2> SUFFICES ASSUME NEW i \in 1..Len(b), NEW j \in i+1..Len(b)
               PROVE <<b[i], b[j]>> \in ({Head(b)} \X Elements(Tail(b))) \cup InBody(Tail(b))
    BY InBodyPairs
  <2>1. j - 1 \in 1..Len(Tail(b)) /\ Tail(b)[j-1] = b[j]
    BY <1>1
  <2>2. CASE i = 1
    BY <2>1, <2>2, <1>1 DEF Elements
  <2>3. CASE i # 1
    <3>1. i - 1 \in 1..Len(Tail(b)) /\ Tail(b)[i-1] = b[i] /\ j - 1 \in (i-1)+1..Len(Tail(b))
      BY <1>1, <2>3
    <3>2. <<Tail(b)[i-1], Tail(b)[j-1]>> \in InBody(Tail(b))
      BY <3>1, InBodyMember
    <3> QED BY <2>1, <3>1, <3>2
  <2> QED BY <2>2, <2>3
<1>5. {Head(b)} \X Elements(Tail(b)) \subseteq InBody(b)
  <2> SUFFICES ASSUME NEW i \in 1..Len(Tail(b)) PROVE <<b[1], Tail(b)[i]>> \in InBody(b)
    BY <1>1 DEF Elements
  <2>1. i + 1 \in 1+1..Len(b) /\ Tail(b)[i] = b[i+1] /\ 1 \in 1..Len(b)
    BY <1>1
  <2>2. <<b[1], b[i+1]>> \in InBody(b)
    BY <2>1, InBodyMember
  <2> QED BY <2>1, <2>2
<1>6. InBody(Tail(b)) \subseteq InBody(b)
  <2>1. ASSUME NEW i \in 1..Len(Tail(b)), NEW j \in i+1..Len(Tail(b))
        PROVE  <<Tail(b)[i], Tail(b)[j]>> \in InBody(b)
    <3>1. /\ i + 1 \in 1..Len(b) /\ Tail(b)[i] = b[i+1]
          /\ j + 1 \in (i+1)+1..Len(b) /\ Tail(b)[j] = b[j+1]
      BY <1>1
    <3>2. <<b[i+1], b[j+1]>> \in InBody(b)
      BY <3>1, InBodyMember
    <3> QED BY <3>1, <3>2
  <2>2. ASSUME NEW w \in InBody(Tail(b)) PROVE w \in InBody(b)
    <3>1. PICK i \in 1..Len(Tail(b)) :
             \E j \in i+1..Len(Tail(b)) : w = <<Tail(b)[i], Tail(b)[j]>>
      BY InBodyPairs
    <3>2. PICK j \in i+1..Len(Tail(b)) : w = <<Tail(b)[i], Tail(b)[j]>>
      BY <3>1
    <3> QED BY <2>1, <3>2
  <2> QED BY <2>2
<1>7. Elements(b) = {Head(b)} \cup Elements(Tail(b))
  BY <1>2, <1>3
<1>8. InBody(b) = ({Head(b)} \X Elements(Tail(b))) \cup InBody(Tail(b))
  BY <1>4, <1>5, <1>6
<1> QED BY <1>1, <1>7, <1>8

LEMMA AppendElements ==
    ASSUME NEW T, NEW b \in Seq(T), NEW x \in T
    PROVE  /\ Elements(Append(b, x)) = Elements(b) \cup {x}
           /\ InBody(Append(b, x)) = InBody(b) \cup (Elements(b) \X {x})
           /\ Append(b, x) \in Seq(T)
<1> DEFINE c == Append(b, x)
<1>1. /\ c \in Seq(T) /\ Len(b) \in Nat /\ Len(c) = Len(b) + 1
      /\ \A i \in 1..Len(b) : c[i] = b[i]
      /\ c[Len(b)+1] = x
  OBVIOUS
<1> HIDE DEF c
<1>2. \A i \in 1..Len(c) : i \in 1..Len(b) \/ i = Len(b) + 1
  BY <1>1
<1>3. \A i \in 1..Len(b) : i \in 1..Len(c) /\ c[i] = b[i]
  BY <1>1
<1>4. Len(b) + 1 \in 1..Len(c)
  BY <1>1
<1>5. Elements(c) = Elements(b) \cup {x}
  BY <1>1, <1>2, <1>3, <1>4 DEF Elements
<1>6. InBody(c) \subseteq InBody(b) \cup (Elements(b) \X {x})
  <2> SUFFICES ASSUME NEW i \in 1..Len(c), NEW j \in i+1..Len(c)
               PROVE <<c[i], c[j]>> \in InBody(b) \cup (Elements(b) \X {x})
    BY InBodyPairs
  <2>1. i \in 1..Len(b)
    BY <1>1
  <2>2. CASE j = Len(b) + 1
    BY <2>1, <2>2, <1>1 DEF Elements
  <2>3. CASE j # Len(b) + 1
    <3>1. j \in i+1..Len(b) /\ j \in 1..Len(b)
      BY <1>1, <2>3
    <3>2. <<b[i], b[j]>> \in InBody(b)
      BY <2>1, <3>1, InBodyMember
    <3> QED BY <2>1, <3>1, <3>2, <1>3
  <2> QED BY <2>2, <2>3
<1>7. InBody(b) \subseteq InBody(c)
  <2> SUFFICES ASSUME NEW i \in 1..Len(b), NEW j \in i+1..Len(b)
               PROVE <<b[i], b[j]>> \in InBody(c)
    BY InBodyPairs
  <2>1. j \in 1..Len(b) /\ j \in i+1..Len(c)
    BY <1>1
  <2>2. <<c[i], c[j]>> \in InBody(c)
    BY <1>3, <2>1, InBodyMember
  <2> QED BY <1>3, <2>1, <2>2
<1>8. Elements(b) \X {x} \subseteq InBody(c)
  <2> SUFFICES ASSUME NEW i \in 1..Len(b) PROVE <<b[i], x>> \in InBody(c)
    BY DEF Elements
  <2>1. i \in 1..Len(c) /\ Len(b) + 1 \in i+1..Len(c)
    BY <1>1
  <2>2. <<c[i], c[Len(b)+1]>> \in InBody(c)
    BY <2>1, InBodyMember
  <2> QED BY <2>2, <1>1
<1>9. InBody(c) = InBody(b) \cup (Elements(b) \X {x})
  BY <1>6, <1>7, <1>8
<1> QED BY <1>1, <1>5, <1>9 DEF c

LEMMA InBodyElements ==
    ASSUME NEW b, NEW w \in InBody(b)
    PROVE  w[1] \in Elements(b) /\ w[2] \in Elements(b)
<1>1. PICK i \in 1..Len(b) : \E j \in i+1..Len(b) : w = <<b[i], b[j]>>
  BY InBodyPairs
<1>2. PICK j \in i+1..Len(b) : w = <<b[i], b[j]>>
  BY <1>1
<1>3. j \in 1..Len(b)
  OBVIOUS
<1> QED BY <1>2, <1>3 DEF Elements

\* A stream has no more items than another one, in the same order.
NoMore(p, n, q, r) ==
    Items(p, n) \subseteq Items(q, r) /\ Order(p, n) \subseteq Order(q, r)

LEMMA OrderGrows ==
    ASSUME NEW p, NEW n, NEW q, NEW r,
           Within(p, n) \subseteq Within(q, r), Followed(p, n) \subseteq Followed(q, r)
    PROVE  Order(p, n) \subseteq Order(q, r)
BY DEF Order

\* The next item is read.
LEMMA ReadNext ==
    ASSUME NEW T, NEW p \in Seq(T), p # <<>>, NEW n
    PROVE  /\ NoMore(Tail(p), n, p, n)
           /\ Head(p) \in Items(p, n)
           /\ \A y \in Items(Tail(p), n) : <<Head(p), y>> \in Order(p, n)
<1>1. /\ Elements(p) = {Head(p)} \cup Elements(Tail(p))
      /\ InBody(p) = ({Head(p)} \X Elements(Tail(p))) \cup InBody(Tail(p))
  BY TailElements
<1>2. Within(Tail(p), n) \subseteq Within(p, n)
  BY <1>1 DEF Within
<1>3. Followed(Tail(p), n) \subseteq Followed(p, n)
  BY <1>1 DEF Followed
<1>4. Order(Tail(p), n) \subseteq Order(p, n)
  BY <1>2, <1>3, OrderGrows
<1>5. Items(Tail(p), n) \subseteq Items(p, n) /\ Head(p) \in Items(p, n)
  BY <1>1 DEF Items
<1>6. \A m \in Elements(n) : <<Head(p), m>> \in Followed(p, n)
  BY <1>1 DEF Followed
<1>7. \A y \in Elements(Tail(p)) : <<Head(p), y>> \in Within(p, n)
  BY <1>1 DEF Within
<1>8. ASSUME NEW y \in Items(Tail(p), n) PROVE <<Head(p), y>> \in Order(p, n)
  <2>1. CASE y \in Elements(Tail(p))
    BY <2>1, <1>7 DEF Order
  <2>2. CASE \E m \in Elements(n) : y \in Elements(m.items)
    <3>1. PICK m \in Elements(n) : y \in Elements(m.items)
      BY <2>2
    <3>2. <<Head(p), m>> \in Followed(p, n)
      BY <1>6
    <3>3. <<Head(p), y>> \in {<<Head(p), m>>[1]} \X Elements(<<Head(p), m>>[2].items)
      BY <3>1
    <3> QED BY <3>2, <3>3 DEF Order
  <2> QED BY <2>1, <2>2, <1>8 DEF Items
<1> QED BY <1>4, <1>5, <1>8 DEF NoMore

\* The rest of the message is dropped.
LEMMA DropRest ==
    ASSUME NEW p, NEW n
    PROVE  NoMore(<<>>, n, p, n)
<1>1. Within(<<>>, n) \subseteq Within(p, n)
  BY NoElements DEF Within
<1>2. Followed(<<>>, n) \subseteq Followed(p, n)
  BY NoElements DEF Followed
<1>3. Items(<<>>, n) \subseteq Items(p, n)
  BY NoElements DEF Items
<1> QED BY <1>1, <1>2, <1>3, OrderGrows DEF NoMore

\* The next message is taken, or ignored.
LEMMA TakeNext ==
    ASSUME NEW T, NEW n \in Seq(MessagesOf(T)), n # <<>>
    PROVE  /\ NoMore(Head(n).items, Tail(n), <<>>, n)
           /\ NoMore(<<>>, Tail(n), <<>>, n)
<1> DEFINE h == Head(n)
           t == Tail(n)
<1>1. /\ Elements(n) = {h} \cup Elements(t)
      /\ InBody(n) = ({h} \X Elements(t)) \cup InBody(t)
  BY TailElements
<1> HIDE DEF h, t
<1>2. \A x \in Elements(h.items) : \A m \in Elements(t) : <<x, m>> \in Followed(<<>>, n)
  <2> SUFFICES ASSUME NEW x \in Elements(h.items), NEW m \in Elements(t)
               PROVE <<x, m>> \in Followed(<<>>, n)
    OBVIOUS
  <2>1. <<h, m>> \in InBody(n)
    BY <1>1
  <2>2. <<x, m>> \in Elements(<<h, m>>[1].items) \X {<<h, m>>[2]}
    OBVIOUS
  <2> QED BY <2>1, <2>2 DEF Followed
<1>3. Followed(h.items, t) \subseteq Followed(<<>>, n)
  <2>1. Elements(h.items) \X Elements(t) \subseteq Followed(<<>>, n)
    BY <1>2
  <2>2. UNION {Elements(v[1].items) \X {v[2]} : v \in InBody(t)} \subseteq Followed(<<>>, n)
    BY <1>1 DEF Followed
  <2> QED BY <2>1, <2>2 DEF Followed
<1>4. Within(h.items, t) \subseteq Within(<<>>, n)
  BY <1>1 DEF Within
<1>5. Items(h.items, t) \subseteq Items(<<>>, n)
  BY <1>1 DEF Items
<1>6. Order(h.items, t) \subseteq Order(<<>>, n)
  BY <1>3, <1>4, OrderGrows
<1>7. NoMore(h.items, t, <<>>, n)
  BY <1>5, <1>6 DEF NoMore
<1>8. NoMore(<<>>, t, <<>>, n)
  BY <1>7, DropRest DEF NoMore
<1> QED BY <1>7, <1>8 DEF h, t

\* The stream (p, r) is (p, n) with the items of E after it, or without them.
OneMore(p, n, r, E) ==
    /\ Items(p, r) \subseteq Items(p, n) \cup E
    /\ \A x, y : <<x, y>> \in Order(p, r) => <<x, y>> \in Order(p, n) \/ y \in E

LEMMA AddMessage ==
    ASSUME NEW T, NEW p, NEW n \in Seq(MessagesOf(T)), NEW m \in MessagesOf(T)
    PROVE  OneMore(p, n, Append(n, m), Elements(m.items))
<1> DEFINE r == Append(n, m)
<1>1. /\ Elements(r) = Elements(n) \cup {m}
      /\ InBody(r) = InBody(n) \cup (Elements(n) \X {m})
  BY AppendElements
<1> HIDE DEF r
<1>2. Items(p, r) \subseteq Items(p, n) \cup Elements(m.items)
  BY <1>1 DEF Items
<1>3. Within(p, r) \subseteq Within(p, n) \cup InBody(m.items)
  BY <1>1 DEF Within
<1>4. Followed(p, r) \subseteq Followed(p, n) \cup (Items(p, n) \X {m})
  <2> SUFFICES ASSUME NEW w \in Followed(p, r)
               PROVE  w \in Followed(p, n) \cup (Items(p, n) \X {m})
    OBVIOUS
  <2>1. CASE w \in Elements(p) \X Elements(r)
    <3>1. w \in Elements(p) \X Elements(n) \/ w \in Elements(p) \X {m}
      BY <2>1, <1>1
    <3> QED BY <3>1 DEF Followed, Items
  <2>2. CASE \E v \in InBody(r) : w \in Elements(v[1].items) \X {v[2]}
    <3>1. PICK v \in InBody(r) : w \in Elements(v[1].items) \X {v[2]}
      BY <2>2
    <3>2. CASE v \in InBody(n)
      BY <3>1, <3>2 DEF Followed
    <3>3. CASE v \in Elements(n) \X {m}
      BY <3>1, <3>3 DEF Items
    <3> QED BY <3>2, <3>3, <1>1
  <2> QED BY <2>1, <2>2 DEF Followed
<1>5. Order(p, r) \subseteq Order(p, n) \cup InBody(m.items)
                             \cup (Items(p, n) \X Elements(m.items))
  <2> SUFFICES ASSUME NEW z \in Order(p, r), z \notin Within(p, r)
               PROVE  z \in Order(p, n) \cup (Items(p, n) \X Elements(m.items))
    BY <1>3 DEF Order
  <2>1. PICK w \in Followed(p, r) : z \in {w[1]} \X Elements(w[2].items)
    BY DEF Order
  <2>2. CASE w \in Followed(p, n)
    BY <2>1, <2>2 DEF Order
  <2>3. CASE w \in Items(p, n) \X {m}
    BY <2>1, <2>3
  <2> QED BY <2>2, <2>3, <1>4
<1>6. ASSUME NEW x, NEW y, <<x, y>> \in Order(p, r), y \notin Elements(m.items)
      PROVE  <<x, y>> \in Order(p, n)
  BY <1>5, <1>6, InBodyElements
<1> QED BY <1>2, <1>6 DEF OneMore, r

LEMMA LoseMessage == ASSUME NEW p, NEW n, NEW E PROVE OneMore(p, n, n, E)
BY DEF OneMore

LEMMA ItemsOfType ==
    ASSUME NEW T, NEW p \in Seq(T), NEW n \in Seq(MessagesOf(T))
    PROVE  Items(p, n) \subseteq T
<1>1. \A b \in Seq(T) : Elements(b) \subseteq T
  BY DEF Elements
<1>2. Elements(n) \subseteq MessagesOf(T)
  BY DEF Elements
<1>3. \A m \in MessagesOf(T) : m.items \in Seq(T)
  BY DEF MessagesOf
<1> QED BY <1>1, <1>2, <1>3 DEF Items
(***************************************************************************)
(* What each step does, in these terms.                                    *)
(***************************************************************************)
ClientKept == UNCHANGED <<QueuedC, exC, stC, servercount, cgame>>
ServerKept == UNCHANGED <<QueuedS, stS, spawncount>>
ToServerShrinks == ToServer' \subseteq ToServer /\ OrderS' \subseteq OrderS
ToClientShrinks == ToClient' \subseteq ToClient /\ OrderC' \subseteq OrderC
\* Items of E get on their way.
ToServerGrows(E) ==
    /\ ToServer' \subseteq ToServer \cup E
    /\ \A x, y : <<x, y>> \in OrderS' => <<x, y>> \in OrderS \/ y \in E
ToClientGrows(E) ==
    /\ ToClient' \subseteq ToClient \cup E
    /\ \A x, y : <<x, y>> \in OrderC' => <<x, y>> \in OrderC \/ y \in E

ServerAdds(T) ==
    \A x \in QueuedS' : x \in QueuedS \/ (x.number > Len(S) /\ x.command \in T)
ClientAdds(T) == \A x \in QueuedC' : x \in QueuedC \/ x.command \in T

\* All that a step of the server does to what is on the way: it reads or takes, adds
\* commands of T and sends commands and the data D.
ServerMakes(T, D) ==
    ClientKept /\ ToServerShrinks /\ ToClientGrows(QueuedS' \cup D) /\ ServerAdds(T)
ServerReads == NextS \in ToServer /\ \A y \in ToServer' : <<NextS, y>> \in OrderS

DataItem(type) == Item(type, 0, Cmd(type, spawncount))
Restarts == {Cmd("changing", NoLevel), Cmd("reconnect", NoLevel)}
OfThisSpawn ==
    {Cmd("cs", spawncount), Cmd(CmdBaselines, spawncount), Cmd("precache", spawncount)}

ServerIsQuiet == ServerMakes({}, {}) /\ UNCHANGED <<stS, spawncount>>
ServerUpdates == ServerMakes({Cmd("update", spawncount)}, {}) /\ UNCHANGED <<stS, spawncount>>
ServerSendsFrame ==
    stS = "spawned" /\ ServerMakes({}, {DataItem("frame")}) /\ UNCHANGED <<stS, spawncount>>
ServerRestarts ==
    /\ ServerMakes({}, {DataItem("serverdata")}) /\ QueuedS' = {}
    /\ stS' = "connecting" /\ spawncount' = spawncount
ServerServes ==
    /\ ServerReads /\ LevelOf(NextS) = spawncount
    /\ ServerMakes(OfThisSpawn, {DataItem("baselines")})
    /\ stS' = "connected" /\ spawncount' = spawncount
ServerSpawns ==
    /\ ServerReads /\ Name(NextS) = "begin" /\ LevelOf(NextS) = spawncount
    /\ ServerMakes({}, {}) /\ stS' = "spawned" /\ spawncount' = spawncount
ServerRefuses ==
    /\ ServerReads /\ LevelOf(NextS) \notin {spawncount, NoLevel}
    /\ ServerMakes(Restarts, {}) /\ stS' = "connected" /\ spawncount' = spawncount
ServerDrops ==
    /\ ServerMakes({Cmd("disconnect", NoLevel)}, {})
    /\ stS' = "zombie" /\ spawncount' = spawncount
ChangesLevel ==
    ServerMakes(Restarts, {}) /\ stS' = "connecting" /\ spawncount' = spawncount + 1

\* And a step of the client, which adds commands of T and sends those it has.
ClientMakes(T) ==
    ServerKept /\ ToClientShrinks /\ ToServerGrows(QueuedC) /\ ClientAdds(T)
ClientReads == NextC \in ToClient /\ \A y \in ToClient' : <<NextC, y>> \in OrderC
ClientExecutes == ClientReads /\ exC < NextC.number /\ exC' = NextC.number

\* (The player's own commands, and the one for the message of the day.)
ClientIsQuiet ==
    /\ ClientMakes({Cmd("request", NoLevel)}) /\ exC <= exC'
    /\ UNCHANGED <<stC, servercount, cgame>>
BecomesActive ==
    /\ ClientReads /\ Name(NextC) = "frame" /\ stC = "connected" /\ stC' = "active"
    /\ ClientMakes({Cmd("request", NoLevel)}) /\ UNCHANGED <<exC, servercount, cgame>>
AcceptsServerdata ==
    /\ ClientReads /\ Name(NextC) = "serverdata" /\ stC = "handshake"
    /\ ServerKept /\ ToClientShrinks /\ ToServerShrinks
    /\ \A x \in QueuedC' : x.command = Cmd("configstrings", LevelOf(NextC))
    /\ exC' = 0 /\ stC' = "connected" /\ servercount' = LevelOf(NextC) /\ cgame' = cgame
AsksForBaselines ==
    /\ ClientExecutes /\ Name(NextC) = CmdBaselines /\ stC # "handshake"
    /\ ClientMakes({Cmd("baselines", LevelOf(NextC))}) /\ UNCHANGED <<stC, servercount, cgame>>
LoadsLevel ==
    /\ ClientExecutes /\ Name(NextC) = "precache" /\ stC = "connected"
    /\ ClientMakes({Cmd("begin", LevelOf(NextC))}) /\ cgame' = LevelOf(NextC)
    /\ UNCHANGED <<stC, servercount>>
ReadsChanging ==
    /\ ClientExecutes /\ Name(NextC) = "changing" /\ stC' = "connected"
    /\ ClientMakes({}) /\ UNCHANGED <<servercount, cgame>>
GoesBack ==
    /\ ClientExecutes /\ Name(NextC) = "reconnect" /\ stC' = "handshake" /\ cgame' = NoLevel
    /\ ClientMakes({Cmd("new", NoLevel)}) /\ servercount' = servercount
Disconnects ==
    /\ NextC \in ToClient /\ Name(NextC) = "disconnect" /\ stC' = "disconnected"
    /\ ClientMakes({}) /\ exC <= exC' /\ UNCHANGED <<servercount, cgame>>

ServerEffects ==
    \/ ServerIsQuiet \/ ServerUpdates \/ ServerSendsFrame \/ ServerRestarts \/ ServerServes
    \/ ServerSpawns \/ ServerRefuses \/ ServerDrops \/ ChangesLevel
ClientEffects ==
    \/ ClientIsQuiet \/ BecomesActive \/ AcceptsServerdata \/ AsksForBaselines
    \/ LoadsLevel \/ ReadsChanging \/ GoesBack \/ Disconnects

(***************************************************************************)
(* What the types say.                                                     *)
(***************************************************************************)
\* That "cmd baselines" is none of the other names is all that is used of it.
LEMMA CmdBaselinesIsOther ==
    CmdBaselines \notin {"new", "request", "configstrings", "baselines", "begin", "changing",
                         "reconnect", "disconnect", "cs", "precache", "update", "serverdata",
                         "frame"}
BY Zenon DEF CmdBaselines

LEMMA Ends ==
    /\ "client" \in End /\ "server" \in End
    /\ Peer("client") = "server" /\ Peer("server") = "client"
BY DEF End, Peer

\* The records of the two ends, of which a step changes one.
LEMMA QueueFields ==
    ASSUME Typed
    PROVE  /\ queue \in [End -> QueueOf(CommandsToServer \cup CommandsToClient)]
           /\ S \in Seq(CommandsToClient) /\ C \in Seq(CommandsToServer)
           /\ ackS \in Nat /\ Len(S) \in Nat /\ Len(C) \in Nat
           /\ ackS <= reliableSent /\ reliableSent <= Len(S) /\ reliableSent \in Nat
           /\ queue["server"] = [commands |-> S, reliableAcknowledge |-> ackS]
           /\ queue["client"] = [commands |-> C,
                                 reliableAcknowledge |-> queue["client"].reliableAcknowledge]
           /\ queue["client"].reliableAcknowledge \in Nat
<1>1. queue["server"] \in QueueOf(CommandsToServer \cup CommandsToClient)
      /\ queue["client"] \in QueueOf(CommandsToServer \cup CommandsToClient)
  BY Ends DEF Typed, TypedQueues
<1>2. /\ S \in Seq(CommandsToClient) /\ C \in Seq(CommandsToServer)
      /\ ackS <= reliableSent /\ reliableSent <= Len(S) /\ reliableSent \in Nat
      /\ queue \in [End -> QueueOf(CommandsToServer \cup CommandsToClient)]
  BY DEF Typed, TypedQueues
<1>3. ackS \in Nat /\ queue["client"].reliableAcknowledge \in Nat
  BY <1>1 DEF QueueOf, ackS
<1>4. queue["server"] = [commands |-> S, reliableAcknowledge |-> ackS]
  BY <1>1 DEF QueueOf, S, ackS
<1>5. queue["client"] = [commands |-> C,
                          reliableAcknowledge |-> queue["client"].reliableAcknowledge]
  BY <1>1 DEF QueueOf, C
<1>6. Len(S) \in Nat /\ Len(C) \in Nat
  BY <1>2
<1> QED BY <1>2, <1>3, <1>4, <1>5, <1>6

LEMMA StreamFields ==
    ASSUME Typed
    PROVE  /\ parsing \in [End -> Seq(Anything)] /\ net \in [End -> Seq(MessagesOf(Anything))]
           /\ PS \in Seq(ItemsToServer) /\ PC \in Seq(ItemsToClient)
           /\ NS \in Seq(MessagesOf(ItemsToServer)) /\ NC \in Seq(MessagesOf(ItemsToClient))
BY DEF Typed, TypedParsing, TypedNet

LEMMA OtherFields ==
    ASSUME Typed
    PROVE  /\ state \in [End -> States] /\ executedTo \in [End -> Nat]
           /\ executedTo["server"] \in Nat /\ exC \in Nat
           /\ spawncount \in Level /\ spawncount \in Nat /\ spawncount # NoLevel
           /\ {servercount, configstrings, baselines, cgame} \subseteq Level \cup {NoLevel}
           /\ servercount \in Nat /\ NoLevel = 0
BY Ends, BoundsAssumption DEF Typed, TypedState, TypedCounters, exC, Level, NoLevel

LEMMA LevelIsPositive == \A l \in Level : l \in Nat /\ l > 0 /\ l # NoLevel
BY BoundsAssumption DEF Level, NoLevel

\* What an item to each end may be.
ServerNames == {"configstrings", "baselines", "begin"}
ServerWord(x) ==
    /\ x.type = "command" /\ x.number \in Nat \ {0} /\ x.command \in CommandsToServer
    /\ LevelOf(x) = x.command.level /\ LevelOf(x) \in Nat
    /\ \/ Name(x) \in {"new", "request"} /\ LevelOf(x) = NoLevel
       \/ Name(x) \in ServerNames /\ LevelOf(x) \in Level
LEMMA ServerItem == ASSUME NEW x \in ItemsToServer PROVE ServerWord(x)
<1>1. x.type = "command" /\ x.number \in Nat \ {0} /\ x.command \in CommandsToServer
  BY DEF ItemsToServer
<1>2. CASE x.command \in [name : {"new", "request"}, level : {NoLevel}]
  <2>1. x.command.name \in {"new", "request"} /\ x.command.level = NoLevel
    BY <1>2
  <2>2. NoLevel \in Nat
    BY DEF NoLevel
  <2>3. Name(x) \in {"new", "request"} /\ LevelOf(x) = NoLevel /\ LevelOf(x) = x.command.level
    BY <2>1 DEF Name, LevelOf
  <2> QED BY <1>1, <2>2, <2>3 DEF ServerWord
<1>3. CASE x.command \in [name : ServerNames, level : Level]
  <2>1. x.command.name \in ServerNames /\ x.command.level \in Level
    BY <1>3
  <2>2. Name(x) \in ServerNames /\ LevelOf(x) = x.command.level
    BY <2>1 DEF Name, LevelOf, ServerNames
  <2> QED BY <1>1, <2>1, <2>2, LevelIsPositive DEF ServerWord
<1> QED BY <1>1, <1>2, <1>3 DEF CommandsToServer, ServerNames

ClientNames == {"cs", CmdBaselines, "precache"}
ClientWord(x) ==
    /\ x.number \in Nat /\ LevelOf(x) \in Nat
    /\ Name(x) = "update" \/ LevelOf(x) = x.command.level
    /\ x.command.level \in Level \cup {NoLevel}
    /\ \/ x.type = "command" /\ Name(x) \in ClientNames /\ LevelOf(x) \in Level
       \/ x.type = "command" /\ Name(x) \in {"changing", "reconnect", "disconnect", "update"}
             /\ LevelOf(x) = NoLevel
       \/ x.type = Name(x) /\ Name(x) \in {"serverdata", "baselines", "frame"}
             /\ LevelOf(x) \in Level
LEMMA ClientItem == ASSUME NEW x \in ItemsToClient PROVE ClientWord(x)
<1>1. CASE x \in [type : {"command"}, number : Nat \ {0}, command : CommandsToClient]
  <2>1. x.type = "command" /\ x.number \in Nat /\ x.command \in CommandsToClient
    BY <1>1
  <2>2. CASE x.command \in [name : {"changing", "reconnect", "disconnect"}, level : {NoLevel}]
    <3>1. x.command.name \in {"changing", "reconnect", "disconnect"}
          /\ x.command.level = NoLevel /\ NoLevel \in Nat
      BY <2>2 DEF NoLevel
    <3>2. Name(x) \in {"changing", "reconnect", "disconnect"} /\ LevelOf(x) = NoLevel
      BY <3>1 DEF Name, LevelOf
    <3> QED BY <2>1, <3>1, <3>2, Zenon DEF ClientWord
  <2>3. CASE x.command \in [name : {"cs", CmdBaselines, "precache", "update"}, level : Level]
    <3>1. x.command.name \in ClientNames \cup {"update"} /\ x.command.level \in Level
      BY <2>3 DEF ClientNames
    <3>2. CASE x.command.name = "update"
      <4>1. Name(x) = "update" /\ LevelOf(x) = NoLevel /\ NoLevel \in Nat
        BY <3>2 DEF Name, LevelOf, NoLevel
      <4> QED BY <2>1, <3>1, <4>1, Zenon DEF ClientWord
    <3>3. CASE x.command.name \in ClientNames
      <4>1. x.command.name # "update"
        BY <3>3, CmdBaselinesIsOther DEF ClientNames
      <4>2. Name(x) \in ClientNames /\ LevelOf(x) = x.command.level
        BY <3>3, <4>1 DEF Name, LevelOf
      <4>3. LevelOf(x) \in Nat /\ LevelOf(x) \in Level
        BY <3>1, <4>2, LevelIsPositive
      <4> QED BY <2>1, <3>1, <4>2, <4>3, Zenon DEF ClientWord
    <3> QED BY <3>1, <3>2, <3>3
  <2> QED BY <2>1, <2>2, <2>3 DEF CommandsToClient
<1>2. ASSUME NEW t \in {"serverdata", "baselines", "frame"}, x \in DataToClient(t)
      PROVE  ClientWord(x)
  <2>1. /\ x.type = t /\ x.number = 0 /\ x.command \in [name : {t}, level : Level]
    BY <1>2 DEF DataToClient
  <2>2. x.command.name = t /\ x.command.level \in Level
    BY <2>1
  <2>3. Name(x) = t /\ LevelOf(x) = x.command.level
    BY <2>2 DEF Name, LevelOf
  <2> QED BY <2>1, <2>2, <2>3, LevelIsPositive DEF ClientWord
<1> QED BY <1>1, <1>2 DEF ItemsToClient
\* The commands that are sent again, and what goes out with them.
LEMMA PendingFacts ==
    ASSUME NEW T, NEW q \in QueueOf(T)
    PROVE  /\ Pending(q) \in Seq([type : {"command"}, number : Nat \ {0}, command : T])
           /\ Elements(Pending(q)) \subseteq Numbered(q.commands)
<1> DEFINE c == q.commands
           a == q.reliableAcknowledge
           p == Pending(q)
<1>1. c \in Seq(T) /\ a \in Nat /\ Len(c) \in Nat
  BY DEF QueueOf
<1>2. PICK n \in Nat : n = (IF Len(c) >= a THEN Len(c) - a ELSE 0)
  BY <1>1
<1>3. 1..Len(c)-a = 1..n
  BY <1>1, <1>2
<1>4. p = [k \in 1..n |-> Item("command", a + k, c[a + k])]
  BY <1>3 DEF Pending
<1>5. \A k \in 1..n : a + k \in 1..Len(c) /\ a + k \in Nat \ {0} /\ c[a + k] \in T
  BY <1>1, <1>2
<1> HIDE DEF p, c, a
<1>6. \A k \in 1..n : p[k] = Item("command", a + k, c[a + k])
  BY <1>4
<1>7. p \in Seq([type : {"command"}, number : Nat \ {0}, command : T]) /\ Len(p) = n
  <2>1. \A k \in 1..n : Item("command", a + k, c[a + k])
                          \in [type : {"command"}, number : Nat \ {0}, command : T]
    BY <1>5 DEF Item
  <2> QED BY <1>4, <2>1
<1>8. Elements(p) \subseteq Numbered(c)
  BY <1>5, <1>6, <1>7 DEF Elements, Numbered
<1> QED BY <1>7, <1>8 DEF c, a, p

LEMMA ConcatElements ==
    ASSUME NEW T, NEW b \in Seq(T), NEW d \in Seq(T)
    PROVE  /\ b \o d \in Seq(T)
           /\ Elements(b \o d) \subseteq Elements(b) \cup Elements(d)
<1>1. /\ b \o d \in Seq(T) /\ Len(b \o d) = Len(b) + Len(d) /\ Len(b) \in Nat /\ Len(d) \in Nat
      /\ \A i \in 1..Len(b) : (b \o d)[i] = b[i]
      /\ \A i \in 1..Len(d) : (b \o d)[Len(b) + i] = d[i]
  OBVIOUS
<1>2. ASSUME NEW i \in 1..Len(b \o d)
      PROVE  (b \o d)[i] \in Elements(b) \/ (b \o d)[i] \in Elements(d)
  <2>1. CASE i \in 1..Len(b)
    BY <2>1, <1>1 DEF Elements
  <2>2. CASE i \notin 1..Len(b)
    <3>1. i - Len(b) \in 1..Len(d) /\ i = Len(b) + (i - Len(b))
      BY <1>1, <2>2
    <3>2. (b \o d)[i] = d[i - Len(b)]
      BY <3>1, <1>1
    <3> QED BY <3>1, <3>2 DEF Elements
  <2> QED BY <2>1, <2>2
<1> QED BY <1>1, <1>2 DEF Elements

LEMMA DataFields ==
    ASSUME NEW T, NEW type, NEW level, Item(type, 0, Cmd(type, level)) \in T
    PROVE  /\ Data(type, level) \in Seq(T)
           /\ Elements(Data(type, level)) = {Item(type, 0, Cmd(type, level))}
<1>1. \A x : Elements(<<x>>) = {x}
  <2> SUFFICES ASSUME NEW x PROVE Elements(<<x>>) = {x}
    OBVIOUS
  <2>1. Len(<<x>>) = 1 /\ <<x>>[1] = x /\ 1..1 = {1}
    OBVIOUS
  <2> QED BY <2>1 DEF Elements
<1> QED BY <1>1 DEF Data

LEMMA MessageToClient ==
    ASSUME NEW a \in Nat, NEW b \in Seq(ItemsToClient)
    PROVE  Message(a, b) \in MessagesOf(ItemsToClient) /\ Message(a, b).items = b
BY DEF Message, MessagesOf

LEMMA MessageToServer ==
    ASSUME NEW a \in Nat, NEW b \in Seq(ItemsToServer)
    PROVE  Message(a, b) \in MessagesOf(ItemsToServer) /\ Message(a, b).items = b
BY DEF Message, MessagesOf

\* A message that goes out changes only the stream of its receiver.
LEMMA TransmitToClient ==
    ASSUME Typed, NEW m \in MessagesOf(ItemsToClient), NEW bound, Transmit("server", m, bound)
    PROVE  OneMore(PC, NC, NC', Elements(m.items)) /\ NS' = NS /\ net' \in [End -> Seq(MessagesOf(Anything))]
           /\ (net' = net \/ (Len(NC) < bound /\ NC' = Append(NC, m)))
<1>1. net \in [End -> Seq(MessagesOf(Anything))] /\ NC \in Seq(MessagesOf(ItemsToClient))
  BY StreamFields
<1>2. CASE net' = net
  <2>1. NC' = NC /\ NS' = NS
    BY <1>2 DEF NC, NS
  <2> QED BY <1>1, <1>2, <2>1, LoseMessage
<1>3. CASE /\ Len(net["client"]) < bound
           /\ net' = [net EXCEPT !["client"] = Append(@, m)]
  <2>1. NC' = Append(NC, m) /\ NS' = NS
    BY <1>1, <1>3, Ends DEF NC, NS
  <2>2. m \in MessagesOf(Anything)
    BY DEF MessagesOf, Anything
  <2>3. Append(net["client"], m) \in Seq(MessagesOf(Anything))
    BY <1>1, <2>2, Ends
  <2>4. net' \in [End -> Seq(MessagesOf(Anything))]
    BY <1>1, <1>3, <2>3
  <2>5. OneMore(PC, NC, Append(NC, m), Elements(m.items))
    <3>1. NC \in Seq(MessagesOf(ItemsToClient))
      BY <1>1
    <3> QED BY <3>1, AddMessage
  <2> QED BY <1>1, <1>3, <2>1, <2>4, <2>5 DEF NC
<1> QED BY <1>2, <1>3, Ends DEF Transmit

LEMMA TransmitToServer ==
    ASSUME Typed, NEW m \in MessagesOf(ItemsToServer), NEW bound, Transmit("client", m, bound)
    PROVE  OneMore(PS, NS, NS', Elements(m.items)) /\ NC' = NC /\ net' \in [End -> Seq(MessagesOf(Anything))]
           /\ (net' = net \/ (Len(NS) < bound /\ NS' = Append(NS, m)))
<1>1. net \in [End -> Seq(MessagesOf(Anything))] /\ NS \in Seq(MessagesOf(ItemsToServer))
  BY StreamFields
<1>2. CASE net' = net
  <2>1. NC' = NC /\ NS' = NS
    BY <1>2 DEF NC, NS
  <2> QED BY <1>1, <1>2, <2>1, LoseMessage
<1>3. CASE /\ Len(net["server"]) < bound
           /\ net' = [net EXCEPT !["server"] = Append(@, m)]
  <2>1. NS' = Append(NS, m) /\ NC' = NC
    BY <1>1, <1>3, Ends DEF NC, NS
  <2>2. m \in MessagesOf(Anything)
    BY DEF MessagesOf, Anything
  <2>3. Append(net["server"], m) \in Seq(MessagesOf(Anything))
    BY <1>1, <2>2, Ends
  <2>4. net' \in [End -> Seq(MessagesOf(Anything))]
    BY <1>1, <1>3, <2>3
  <2>5. OneMore(PS, NS, Append(NS, m), Elements(m.items))
    <3>1. NS \in Seq(MessagesOf(ItemsToServer))
      BY <1>1
    <3> QED BY <3>1, AddMessage
  <2> QED BY <1>1, <1>3, <2>1, <2>4, <2>5 DEF NS
<1> QED BY <1>2, <1>3, Ends DEF Transmit

\* What the types say of the sets.
Shapes ==
    /\ \A x \in ToServer \cup QueuedC : ServerWord(x)
    /\ \A x \in ToClient \cup QueuedS : ClientWord(x)
    /\ \A x \in QueuedS : x.type = "command" /\ x.number > 0 /\ x.number <= Len(S)

LEMMA NumberedItems ==
    ASSUME NEW T, NEW q \in Seq(T)
    PROVE  \A x \in Numbered(q) : /\ x.type = "command" /\ x.number \in 1..Len(q)
                                  /\ x.command = q[x.number] /\ x.command \in T
                                  /\ x = Item("command", x.number, x.command)
BY DEF Numbered, Item

LEMMA TypedShapes == ASSUME Typed PROVE Shapes
<1>1. /\ PS \in Seq(ItemsToServer) /\ PC \in Seq(ItemsToClient)
      /\ NS \in Seq(MessagesOf(ItemsToServer)) /\ NC \in Seq(MessagesOf(ItemsToClient))
      /\ S \in Seq(CommandsToClient) /\ C \in Seq(CommandsToServer)
  BY StreamFields, QueueFields
<1>2. QueuedC \subseteq ItemsToServer
  <2> SUFFICES ASSUME NEW x \in QueuedC PROVE x \in ItemsToServer
    OBVIOUS
  <2>1. /\ x.number \in 1..Len(C) /\ x.command \in CommandsToServer
        /\ x = Item("command", x.number, x.command)
    BY <1>1, NumberedItems DEF QueuedC
  <2>2. x.number \in Nat \ {0}
    BY <1>1, <2>1
  <2> QED BY <2>1, <2>2 DEF ItemsToServer, Item
<1>3. QueuedS \subseteq ItemsToClient
  <2> SUFFICES ASSUME NEW x \in QueuedS PROVE x \in ItemsToClient
    OBVIOUS
  <2>1. /\ x.number \in 1..Len(S) /\ x.command \in CommandsToClient
        /\ x = Item("command", x.number, x.command)
    BY <1>1, NumberedItems DEF QueuedS
  <2>2. x.number \in Nat \ {0}
    BY <1>1, <2>1
  <2>3. x \in [type : {"command"}, number : Nat \ {0}, command : CommandsToClient]
    BY <2>1, <2>2 DEF Item
  <2> QED BY <2>3 DEF ItemsToClient
<1>4. ToServer \subseteq ItemsToServer /\ ToClient \subseteq ItemsToClient
  BY <1>1, ItemsOfType DEF ToServer, ToClient
<1>5. \A x \in ToServer \cup QueuedC : ServerWord(x)
  BY <1>2, <1>4, ServerItem
<1>6. \A x \in ToClient \cup QueuedS : ClientWord(x)
  BY <1>3, <1>4, ClientItem
<1>7. \A x \in QueuedS : x.type = "command" /\ x.number \in 1..Len(S)
  BY <1>1, NumberedItems DEF QueuedS
<1>8. \A x \in QueuedS : x.type = "command" /\ x.number > 0 /\ x.number <= Len(S)
  BY <1>7, <1>1
<1> QED BY <1>5, <1>6, <1>8 DEF Shapes

\* The streams of the two ends when nothing happens to them, when an end reads the next
\* item, and when its queue grows.
LEMMA ServerUntouched ==
    ASSUME PS' = PS, NS' = NS PROVE ToServerShrinks /\ \A E : ToServerGrows(E)
BY DEF ToServerShrinks, ToServerGrows, ToServer, OrderS

LEMMA ClientUntouched ==
    ASSUME PC' = PC, NC' = NC PROVE ToClientShrinks /\ \A E : ToClientGrows(E)
BY DEF ToClientShrinks, ToClientGrows, ToClient, OrderC

LEMMA ReadingS ==
    ASSUME Typed, PS # <<>>, PS' = Tail(PS), NS' = NS
    PROVE  ToServerShrinks /\ ServerReads
<1>1. PS \in Seq(ItemsToServer)
  BY StreamFields
<1>2. /\ NoMore(Tail(PS), NS, PS, NS) /\ Head(PS) \in Items(PS, NS)
      /\ \A y \in Items(Tail(PS), NS) : <<Head(PS), y>> \in Order(PS, NS)
  BY <1>1, ReadNext
<1>3. /\ ToServer = Items(PS, NS) /\ OrderS = Order(PS, NS)
      /\ ToServer' = Items(Tail(PS), NS) /\ OrderS' = Order(Tail(PS), NS)
  BY DEF ToServer, OrderS
<1> QED BY <1>2, <1>3 DEF NoMore, ToServerShrinks, ServerReads, NextS

LEMMA ReadingC ==
    ASSUME Typed, PC # <<>>, PC' = Tail(PC), NC' = NC
    PROVE  ToClientShrinks /\ ClientReads
<1>1. PC \in Seq(ItemsToClient)
  BY StreamFields
<1>2. /\ NoMore(Tail(PC), NC, PC, NC) /\ Head(PC) \in Items(PC, NC)
      /\ \A y \in Items(Tail(PC), NC) : <<Head(PC), y>> \in Order(PC, NC)
  BY <1>1, ReadNext
<1>3. /\ ToClient = Items(PC, NC) /\ OrderC = Order(PC, NC)
      /\ ToClient' = Items(Tail(PC), NC) /\ OrderC' = Order(Tail(PC), NC)
  BY DEF ToClient, OrderC
<1> QED BY <1>2, <1>3 DEF NoMore, ToClientShrinks, ClientReads, NextC

LEMMA NumberedGrows ==
    ASSUME NEW T, NEW q \in Seq(T), NEW a \in T
    PROVE  /\ Numbered(Append(q, a)) = Numbered(q) \cup {Item("command", Len(q) + 1, a)}
           /\ Append(q, a) \in Seq(T) /\ Len(Append(q, a)) = Len(q) + 1 /\ Len(q) \in Nat
<1>1. /\ Append(q, a) \in Seq(T) /\ Len(q) \in Nat /\ Len(Append(q, a)) = Len(q) + 1
      /\ \A i \in 1..Len(q) : Append(q, a)[i] = q[i]
      /\ Append(q, a)[Len(q) + 1] = a
  OBVIOUS
<1>2. 1..Len(Append(q, a)) = 1..Len(q) \cup {Len(q) + 1}
  BY <1>1
<1> QED BY <1>1, <1>2 DEF Numbered

(***************************************************************************)
(* The types, part by part.                                                *)
(***************************************************************************)
\* The parts that a step leaves as they were.
LEMMA StateKept == ASSUME state' = state PROVE /\ stS' = stS /\ stC' = stC
                                               /\ TypedState => TypedState'
BY DEF stS, stC, TypedState
LEMMA QueueKept ==
    ASSUME queue' = queue
    PROVE  /\ S' = S /\ C' = C /\ ackS' = ackS /\ QueuedS' = QueuedS /\ QueuedC' = QueuedC
           /\ \A T : ServerAdds(T) /\ ClientAdds(T)
           /\ TypedQueues /\ reliableSent' = reliableSent => TypedQueues'
BY DEF S, C, ackS, QueuedS, QueuedC, TypedQueues, ServerAdds, ClientAdds
LEMMA CountersKept ==
    ASSUME UNCHANGED <<executedTo, spawncount, clientVars>>
    PROVE  /\ exC' = exC /\ UNCHANGED <<servercount, cgame>>
           /\ TypedCounters => TypedCounters'
BY DEF exC, clientVars, TypedCounters
LEMMA NetKept == ASSUME net' = net PROVE /\ NS' = NS /\ NC' = NC
                                         /\ TypedNet => TypedNet'
BY DEF NS, NC, TypedNet
LEMMA ParsingKept == ASSUME parsing' = parsing
                     PROVE  PS' = PS /\ PC' = PC /\ (TypedParsing => TypedParsing')
BY DEF PS, PC, TypedParsing

\* A change of the record of one end changes only its part.
LEMMA ServerState ==
    ASSUME Typed, NEW s \in {"connecting", "connected", "spawned", "zombie"},
           state' = [state EXCEPT !["server"] = s]
    PROVE  stS' = s /\ stC' = stC /\ TypedState'
<1>1. state \in [End -> States] /\ stC \in {"handshake", "connected", "active", "disconnected"}
  BY DEF Typed, TypedState
<1>2. stS' = s /\ stC' = stC
  BY <1>1, Ends DEF stS, stC
<1>3. state' \in [End -> States]
  <2>1. s \in States
    BY DEF States
  <2> QED BY <1>1, <2>1
<1> QED BY <1>1, <1>2, <1>3 DEF TypedState

LEMMA ClientState ==
    ASSUME Typed, NEW s \in {"handshake", "connected", "active", "disconnected"},
           state' = [state EXCEPT !["client"] = s]
    PROVE  stC' = s /\ stS' = stS /\ TypedState'
<1>1. state \in [End -> States] /\ stS \in {"connecting", "connected", "spawned", "zombie"}
  BY DEF Typed, TypedState
<1>2. stC' = s /\ stS' = stS
  BY <1>1, Ends DEF stS, stC
<1>3. state' \in [End -> States]
  <2>1. s \in States
    BY DEF States
  <2> QED BY <1>1, <2>1
<1> QED BY <1>1, <1>2, <1>3 DEF TypedState

LEMMA ServerQueue ==
    ASSUME Typed, NEW q \in QueueOf(CommandsToClient), queue' = [queue EXCEPT !["server"] = q],
           reliableSent' \in Nat, q.reliableAcknowledge <= reliableSent',
           reliableSent' <= Len(q.commands)
    PROVE  /\ S' = q.commands /\ ackS' = q.reliableAcknowledge
           /\ C' = C /\ QueuedC' = QueuedC /\ TypedQueues'
<1>1. queue \in [End -> QueueOf(CommandsToServer \cup CommandsToClient)]
      /\ C \in Seq(CommandsToServer)
  BY QueueFields
<1>2. queue'["server"] = q /\ queue'["client"] = queue["client"]
  BY <1>1, Ends
<1>3. S' = q.commands /\ ackS' = q.reliableAcknowledge /\ C' = C
  BY <1>2 DEF S, C, ackS
<1>4. QueuedC' = QueuedC
  BY <1>3 DEF QueuedC
<1>5. q \in QueueOf(CommandsToServer \cup CommandsToClient) /\ q.commands \in Seq(CommandsToClient)
  BY DEF QueueOf
<1>6. queue' \in [End -> QueueOf(CommandsToServer \cup CommandsToClient)]
  BY <1>1, <1>5
<1> QED BY <1>1, <1>3, <1>4, <1>5, <1>6 DEF TypedQueues

LEMMA ClientQueue ==
    ASSUME Typed, NEW q \in QueueOf(CommandsToServer), queue' = [queue EXCEPT !["client"] = q],
           reliableSent' = reliableSent
    PROVE  /\ C' = q.commands
           /\ S' = S /\ ackS' = ackS /\ QueuedS' = QueuedS /\ TypedQueues'
<1>1. /\ queue \in [End -> QueueOf(CommandsToServer \cup CommandsToClient)]
      /\ S \in Seq(CommandsToClient) /\ reliableSent \in Nat
      /\ ackS <= reliableSent /\ reliableSent <= Len(S)
  BY QueueFields
<1>2. queue'["client"] = q /\ queue'["server"] = queue["server"]
  BY <1>1, Ends
<1>3. C' = q.commands /\ S' = S /\ ackS' = ackS
  BY <1>2 DEF S, C, ackS
<1>4. QueuedS' = QueuedS
  BY <1>3 DEF QueuedS
<1>5. q \in QueueOf(CommandsToServer \cup CommandsToClient) /\ q.commands \in Seq(CommandsToServer)
  BY DEF QueueOf
<1>6. queue' \in [End -> QueueOf(CommandsToServer \cup CommandsToClient)]
  BY <1>1, <1>5
<1> QED BY <1>1, <1>3, <1>4, <1>5, <1>6 DEF TypedQueues

LEMMA AddFields ==
    ASSUME NEW T, NEW q \in QueueOf(T), NEW c \in T
    PROVE  /\ Add(q, c) \in QueueOf(T) /\ Add(q, c).commands = Append(q.commands, c)
           /\ Add(q, c).reliableAcknowledge = q.reliableAcknowledge
           /\ Len(Add(q, c).commands) = Len(q.commands) + 1 /\ Len(q.commands) \in Nat
<1>1. q.commands \in Seq(T) /\ q.reliableAcknowledge \in Nat
      /\ q = [commands |-> q.commands, reliableAcknowledge |-> q.reliableAcknowledge]
  BY DEF QueueOf
<1>2. Append(q.commands, c) \in Seq(T) /\ Len(Append(q.commands, c)) = Len(q.commands) + 1
      /\ Len(q.commands) \in Nat
  BY <1>1
<1>3. Add(q, c) = [commands |-> Append(q.commands, c),
                   reliableAcknowledge |-> q.reliableAcknowledge]
  <2>1. PICK a, b : /\ q = [commands |-> a, reliableAcknowledge |-> b]
                    /\ a = q.commands /\ b = q.reliableAcknowledge
    BY <1>1
  <2>2. Add([commands |-> a, reliableAcknowledge |-> b], c)
           = [commands |-> Append(a, c), reliableAcknowledge |-> b]
    BY DEF Add
  <2> QED BY <2>1, <2>2
<1> QED BY <1>1, <1>2, <1>3 DEF QueueOf

LEMMA QueuesOfEnds ==
    ASSUME Typed
    PROVE  queue["server"] \in QueueOf(CommandsToClient) /\ queue["client"] \in QueueOf(CommandsToServer)
<1>1. /\ queue["server"] = [commands |-> S, reliableAcknowledge |-> ackS]
      /\ queue["client"] = [commands |-> C, reliableAcknowledge |-> queue["client"].reliableAcknowledge]
      /\ S \in Seq(CommandsToClient) /\ C \in Seq(CommandsToServer)
      /\ ackS \in Nat /\ queue["client"].reliableAcknowledge \in Nat
  BY QueueFields
<1> QED BY <1>1 DEF QueueOf

\* What the server says.
LEMMA SpawncountLevel ==
    ASSUME Typed
    PROVE  /\ Cmd("cs", spawncount) \in CommandsToClient
           /\ Cmd("update", spawncount) \in CommandsToClient
           /\ Cmd(CmdBaselines, spawncount) \in CommandsToClient
           /\ Cmd("precache", spawncount) \in CommandsToClient
           /\ Cmd("changing", NoLevel) \in CommandsToClient
           /\ Cmd("reconnect", NoLevel) \in CommandsToClient
           /\ Cmd("disconnect", NoLevel) \in CommandsToClient
           /\ DataItem("serverdata") \in ItemsToClient
           /\ DataItem("baselines") \in ItemsToClient
           /\ DataItem("frame") \in ItemsToClient
<1>1. spawncount \in Level
  BY OtherFields
<1>2. /\ Cmd("cs", spawncount) \in CommandsToClient
      /\ Cmd("update", spawncount) \in CommandsToClient
      /\ Cmd(CmdBaselines, spawncount) \in CommandsToClient
      /\ Cmd("precache", spawncount) \in CommandsToClient
  BY <1>1 DEF CommandsToClient, Cmd
<1>3. /\ Cmd("changing", NoLevel) \in CommandsToClient
      /\ Cmd("reconnect", NoLevel) \in CommandsToClient
      /\ Cmd("disconnect", NoLevel) \in CommandsToClient
  BY DEF CommandsToClient, Cmd
<1>4. /\ DataItem("serverdata") \in DataToClient("serverdata")
      /\ DataItem("baselines") \in DataToClient("baselines")
      /\ DataItem("frame") \in DataToClient("frame")
  BY <1>1 DEF DataToClient, DataItem, Cmd, Item
<1> QED BY <1>2, <1>3, <1>4 DEF ItemsToClient
(***************************************************************************)
(* Each action is one of these steps, and keeps the types.                 *)
(***************************************************************************)
\* The next item is read.
LEMMA ServerParsed ==
    ASSUME Typed, Parsed("server"), PS # <<>>
    PROVE  /\ PS' = Tail(PS) /\ PC' = PC /\ TypedParsing'
           /\ NextS \in ItemsToServer
<1>1. /\ parsing \in [End -> Seq(Anything)] /\ PS \in Seq(ItemsToServer)
      /\ PC \in Seq(ItemsToClient)
  BY StreamFields
<1>2. PS' = Tail(PS) /\ PC' = PC
  BY <1>1, Ends DEF Parsed, PS, PC
<1>3. Tail(PS) \in Seq(ItemsToServer) /\ NextS \in ItemsToServer /\ Tail(PS) \in Seq(Anything)
  <2>1. PS \in Seq(Anything)
    BY <1>1, Ends DEF PS
  <2> QED BY <1>1, <2>1 DEF NextS
<1>4. parsing' \in [End -> Seq(Anything)]
  BY <1>1, <1>3 DEF Parsed, PS
<1> QED BY <1>1, <1>2, <1>3, <1>4 DEF TypedParsing

LEMMA ClientParsed ==
    ASSUME Typed, Parsed("client"), PC # <<>>
    PROVE  /\ PC' = Tail(PC) /\ PS' = PS /\ TypedParsing'
           /\ NextC \in ItemsToClient
<1>1. /\ parsing \in [End -> Seq(Anything)] /\ PS \in Seq(ItemsToServer)
      /\ PC \in Seq(ItemsToClient)
  BY StreamFields
<1>2. PC' = Tail(PC) /\ PS' = PS
  BY <1>1, Ends DEF Parsed, PS, PC
<1>3. Tail(PC) \in Seq(ItemsToClient) /\ NextC \in ItemsToClient /\ Tail(PC) \in Seq(Anything)
  <2>1. PC \in Seq(Anything)
    BY <1>1, Ends DEF PC
  <2> QED BY <1>1, <2>1 DEF NextC
<1>4. parsing' \in [End -> Seq(Anything)]
  BY <1>1, <1>3 DEF Parsed, PC
<1> QED BY <1>1, <1>2, <1>3, <1>4 DEF TypedParsing

LEMMA ServerExecuted ==
    ASSUME Typed, NEW n \in Nat, executedTo' = [executedTo EXCEPT !["server"] = n],
           spawncount' = spawncount, UNCHANGED clientVars
    PROVE  exC' = exC /\ TypedCounters'
<1>1. /\ executedTo \in [End -> Nat] /\ spawncount \in Level
      /\ {servercount, configstrings, baselines, cgame} \subseteq Level \cup {NoLevel}
  BY OtherFields
<1>2. exC' = exC /\ executedTo' \in [End -> Nat]
  BY <1>1, Ends DEF exC
<1> QED BY <1>1, <1>2 DEF TypedCounters, clientVars

LEMMA ClientExecuted ==
    ASSUME Typed, NEW n \in Nat, executedTo' = [executedTo EXCEPT !["client"] = n],
           spawncount' = spawncount,
           {servercount', configstrings', baselines', cgame'} \subseteq Level \cup {NoLevel}
    PROVE  exC' = n /\ TypedCounters'
<1>1. executedTo \in [End -> Nat] /\ spawncount \in Level
  BY OtherFields
<1>2. exC' = n /\ executedTo' \in [End -> Nat]
  BY <1>1, Ends DEF exC
<1> QED BY <1>1, <1>2 DEF TypedCounters

\* What a command handler of the server finds, and does in any case.
ServerHandles(name) ==
    /\ PS # <<>> /\ PS' = Tail(PS) /\ PC' = PC /\ TypedParsing'
    /\ Name(NextS) = name /\ stS # "zombie" /\ CommandLevel("server") = LevelOf(NextS)
    /\ Head(parsing["server"]).number = NextS.number /\ NextS.number \in Nat
    /\ stC = "disconnected" => PC' = <<>>
LEMMA ServerHandler ==
    ASSUME Typed, NEW name, Reads("server", name), Parsed("server")
    PROVE  ServerHandles(name)
<1>1. PS # <<>> /\ Name(NextS) = name /\ CommandLevel("server") = NextS.command.level
      /\ Head(parsing["server"]).number = NextS.number
  BY DEF Reads, PS, NextS, Name, CommandLevel
<1>2. PS' = Tail(PS) /\ PC' = PC /\ TypedParsing' /\ NextS \in ItemsToServer
  BY <1>1, ServerParsed
<1>3. stS # "zombie" /\ (stC = "disconnected" => PC = <<>>)
  BY <1>1 DEF Typed
<1>4. NextS.number \in Nat /\ LevelOf(NextS) = NextS.command.level
  BY <1>2, ServerItem DEF ServerWord
<1> QED BY <1>1, <1>2, <1>3, <1>4 DEF ServerHandles

LEMMA ServerReadsLevel ==
    ASSUME Typed, PS # <<>>, Name(NextS) \in ServerNames PROVE LevelOf(NextS) # NoLevel
<1>1. NextS \in ItemsToServer
  BY StreamFields, TailElements DEF NextS
<1>2. ServerWord(NextS)
  BY <1>1, ServerItem
<1> QED BY <1>2, LevelIsPositive DEF ServerWord, ServerNames

LEMMA ServerHandled ==
    ASSUME Typed, NEW name, ServerHandles(name), NEW n \in Nat,
           executedTo' = [executedTo EXCEPT !["server"] = n],
           UNCHANGED <<spawncount, clientVars>>, stS' # "zombie", stC' = stC,
           QueuedC' = QueuedC, NS' = NS, TypedState', TypedQueues', TypedNet',
           NEW T, ServerAdds(T), NEW D, ToClientGrows(QueuedS' \cup D)
    PROVE  ServerReads /\ ServerMakes(T, D) /\ Typed'
<1>1. /\ PS # <<>> /\ PS' = Tail(PS) /\ PC' = PC /\ TypedParsing'
      /\ stC = "disconnected" => PC' = <<>>
  BY DEF ServerHandles
<1>2. exC' = exC /\ TypedCounters'
  BY ServerExecuted
<1>3. ToServerShrinks /\ ServerReads
  BY <1>1, ReadingS
<1>4. ServerMakes(T, D)
  BY <1>2, <1>3 DEF ServerMakes, ClientKept, clientVars
<1> QED BY <1>1, <1>2, <1>3, <1>4 DEF Typed

\* What the client finds, and does in any case.
ClientHandles ==
    /\ stC # "disconnected" /\ ClientWord(NextC)
    /\ CommandLevel("client") \in Level \cup {NoLevel}
    /\ Name(NextC) # "update" => CommandLevel("client") = LevelOf(NextC)
    /\ Head(parsing["client"]).number = NextC.number
    /\ ClientReads /\ ToClientShrinks /\ ToServerShrinks /\ \A E : ToServerGrows(E)
    /\ TypedParsing' /\ TypedNet' /\ (stS = "zombie" => PS' = <<>>)
LEMMA ClientHandler ==
    ASSUME Typed, parsing["client"] # <<>>, Parsed("client"), net' = net
    PROVE  ClientHandles
<1>1. PC # <<>> /\ CommandLevel("client") = NextC.command.level
      /\ Head(parsing["client"]).number = NextC.number
  BY DEF PC, NextC, CommandLevel
<1>2. PC' = Tail(PC) /\ PS' = PS /\ TypedParsing' /\ NextC \in ItemsToClient
  BY <1>1, ClientParsed
<1>3. stC # "disconnected" /\ (stS = "zombie" => PS = <<>>)
  BY <1>1 DEF Typed
<1>4. ClientWord(NextC)
  BY <1>2, ClientItem
<1>5. NextC.command.level \in Level \cup {NoLevel}
      /\ (Name(NextC) # "update" => NextC.command.level = LevelOf(NextC))
  BY <1>4 DEF ClientWord
<1>6. NS' = NS /\ NC' = NC /\ TypedNet'
  BY NetKept DEF Typed
<1>7. ToClientShrinks /\ ClientReads
  BY <1>1, <1>2, <1>6, ReadingC
<1>8. ToServerShrinks /\ \A E : ToServerGrows(E)
  BY <1>2, <1>6, ServerUntouched
<1> QED BY <1>1, <1>2, <1>3, <1>4, <1>5, <1>6, <1>7, <1>8 DEF ClientHandles

LEMMA ClientHandled ==
    ASSUME Typed, ClientHandles, spawncount' = spawncount, stS' = stS, stC' # "disconnected",
           QueuedS' = QueuedS, TypedState', TypedQueues', TypedCounters', NEW T, ClientAdds(T)
    PROVE  ClientMakes(T) /\ ServerKept /\ Typed'
<1>1. ClientMakes(T) /\ ServerKept
  BY DEF ClientHandles, ClientMakes, ServerKept
<1> QED BY <1>1 DEF ClientHandles, Typed

\* A command of the client's: name and number.
ClientCommand(name) == ClientHandles /\ ClientExecutes /\ Name(NextC) = name /\ TypedCounters'
LEMMA ClientCommandHandler ==
    ASSUME Typed, NEW name, Reads("client", name), Parsed("client"), executedTo' = Executed("client"),
           net' = net, spawncount' = spawncount,
           {servercount', configstrings', baselines', cgame'} \subseteq Level \cup {NoLevel}
    PROVE  ClientCommand(name)
<1>1. parsing["client"] # <<>>
  BY DEF Reads
<1>2. ClientHandles
  BY <1>1, ClientHandler
<1>3. Name(NextC) = name /\ exC < NextC.number
      /\ executedTo' = [executedTo EXCEPT !["client"] = NextC.number]
  BY DEF Reads, Name, NextC, PC, exC, Executed
<1>4. NextC.number \in Nat
  BY <1>2 DEF ClientHandles, ClientWord
<1>5. exC' = NextC.number /\ TypedCounters'
  BY <1>3, <1>4, ClientExecuted
<1> QED BY <1>2, <1>3, <1>5 DEF ClientCommand, ClientExecutes, ClientHandles

LEMMA SeqSubset == ASSUME NEW A, NEW B, A \subseteq B, NEW q \in Seq(A) PROVE q \in Seq(B)
OBVIOUS

LEMMA PendingS ==
    ASSUME NEW q \in QueueOf(CommandsToClient)
    PROVE  Pending(q) \in Seq(ItemsToClient) /\ Elements(Pending(q)) \subseteq Numbered(q.commands)
<1>1. [type : {"command"}, number : Nat \ {0}, command : CommandsToClient] \subseteq ItemsToClient
  BY DEF ItemsToClient
<1>2. Pending(q) \in Seq([type : {"command"}, number : Nat \ {0}, command : CommandsToClient])
      /\ Elements(Pending(q)) \subseteq Numbered(q.commands)
  BY PendingFacts
<1> QED BY <1>1, <1>2, SeqSubset

LEMMA ServerTransmits ==
    ASSUME Typed, NEW m \in MessagesOf(ItemsToClient), NEW bound \in {MaxInFlight, MaxInFlight + 1},
           Transmit("server", m, bound), PC' = PC,
           NEW E, Elements(m.items) \subseteq E
    PROVE  ToClientGrows(E) /\ NS' = NS /\ TypedNet'
<1>1. /\ OneMore(PC, NC, NC', Elements(m.items)) /\ NS' = NS /\ net' \in [End -> Seq(MessagesOf(Anything))]
      /\ (net' = net \/ (Len(NC) < bound /\ NC' = Append(NC, m)))
  BY TransmitToClient
<1>2. ToClientGrows(E)
  BY <1>1 DEF OneMore, ToClientGrows, ToClient, OrderC
<1>3. TypedNet
  BY DEF Typed
<1>4. NS \in Seq(MessagesOf(ItemsToServer)) /\ NC \in Seq(MessagesOf(ItemsToClient))
      /\ Len(NS) <= MaxInFlight + 1 /\ MaxInFlight \in Nat
  BY <1>3, Ends, BoundsAssumption DEF TypedNet, NS
<1>5. CASE net' = net
  BY <1>1, <1>2, <1>3, <1>5, NetKept
<1>6. CASE Len(NC) < bound /\ NC' = Append(NC, m)
  <2>1. NC' \in Seq(MessagesOf(ItemsToClient)) /\ Len(NC') <= MaxInFlight + 1
    BY <1>4, <1>6
  <2>2. \A e \in End : Len(net'[e]) <= MaxInFlight + 1
    BY <1>1, <1>4, <2>1 DEF End, NC, NS
  <2> QED BY <1>1, <1>2, <1>4, <2>1, <2>2 DEF TypedNet
<1> QED BY <1>1, <1>5, <1>6

LEMMA ClientTransmits ==
    ASSUME Typed, NEW m \in MessagesOf(ItemsToServer), NEW bound \in {MaxInFlight, MaxInFlight + 1},
           Transmit("client", m, bound), PS' = PS,
           NEW E, Elements(m.items) \subseteq E
    PROVE  ToServerGrows(E) /\ NC' = NC /\ TypedNet'
<1>1. /\ OneMore(PS, NS, NS', Elements(m.items)) /\ NC' = NC /\ net' \in [End -> Seq(MessagesOf(Anything))]
      /\ (net' = net \/ (Len(NS) < bound /\ NS' = Append(NS, m)))
  BY TransmitToServer
<1>2. ToServerGrows(E)
  BY <1>1 DEF OneMore, ToServerGrows, ToServer, OrderS
<1>3. TypedNet
  BY DEF Typed
<1>4. NS \in Seq(MessagesOf(ItemsToServer)) /\ NC \in Seq(MessagesOf(ItemsToClient))
      /\ Len(NC) <= MaxInFlight + 1 /\ MaxInFlight \in Nat
  BY <1>3, Ends, BoundsAssumption DEF TypedNet, NC
<1>5. CASE net' = net
  BY <1>1, <1>2, <1>3, <1>5, NetKept
<1>6. CASE Len(NS) < bound /\ NS' = Append(NS, m)
  <2>1. NS' \in Seq(MessagesOf(ItemsToServer)) /\ Len(NS') <= MaxInFlight + 1
    BY <1>4, <1>6
  <2>2. \A e \in End : Len(net'[e]) <= MaxInFlight + 1
    BY <1>1, <1>4, <2>1 DEF End, NC, NS
  <2> QED BY <1>1, <1>2, <1>4, <2>1, <2>2 DEF TypedNet
<1> QED BY <1>1, <1>5, <1>6

\* An end takes the next message, or drops it.
LEMMA TakingS ==
    ASSUME Typed, PS = <<>>, NS # <<>>, NS' = Tail(NS)
    PROVE  /\ Head(NS) \in MessagesOf(ItemsToServer)
           /\ PS' = Head(NS).items \/ PS' = <<>> => ToServerShrinks
<1>1. NS \in Seq(MessagesOf(ItemsToServer))
  BY StreamFields
<1>2. NoMore(Head(NS).items, Tail(NS), <<>>, NS) /\ NoMore(<<>>, Tail(NS), <<>>, NS)
  BY <1>1, TakeNext
<1>3. Head(NS) \in MessagesOf(ItemsToServer)
  BY <1>1
<1> QED BY <1>2, <1>3 DEF NoMore, ToServerShrinks, ToServer, OrderS

LEMMA TakingC ==
    ASSUME Typed, PC = <<>>, NC # <<>>, NC' = Tail(NC), PC' = Head(NC).items
    PROVE  Head(NC) \in MessagesOf(ItemsToClient) /\ ToClientShrinks
<1>1. NC \in Seq(MessagesOf(ItemsToClient))
  BY StreamFields
<1>2. NoMore(Head(NC).items, Tail(NC), <<>>, NC)
  BY <1>1, TakeNext
<1>3. Head(NC) \in MessagesOf(ItemsToClient)
  BY <1>1
<1> QED BY <1>2, <1>3 DEF NoMore, ToClientShrinks, ToClient, OrderC

LEMMA TakenNet ==
    ASSUME Typed, NEW e \in End, net[e] # <<>>, net' = [net EXCEPT ![e] = Tail(@)]
    PROVE  TypedNet' /\ (e = "server" => NS' = Tail(NS) /\ NC' = NC)
                     /\ (e = "client" => NC' = Tail(NC) /\ NS' = NS)
<1>1. /\ net \in [End -> Seq(MessagesOf(Anything))]
      /\ NS \in Seq(MessagesOf(ItemsToServer)) /\ NC \in Seq(MessagesOf(ItemsToClient))
      /\ \A f \in End : Len(net[f]) <= MaxInFlight + 1
  BY DEF Typed, TypedNet
<1>2. MaxInFlight \in Nat
  BY BoundsAssumption
<1>3. Tail(net[e]) \in Seq(MessagesOf(Anything)) /\ Len(Tail(net[e])) <= MaxInFlight + 1
  <2>1. net[e] \in Seq(MessagesOf(Anything)) /\ Len(net[e]) <= MaxInFlight + 1
    BY <1>1
  <2> QED BY <2>1, <1>2
<1>4. net' \in [End -> Seq(MessagesOf(Anything))] /\ net'[e] = Tail(net[e])
      /\ \A f \in End : f # e => net'[f] = net[f]
  BY <1>1, <1>3
<1>5. \A f \in End : Len(net'[f]) <= MaxInFlight + 1
  BY <1>1, <1>3, <1>4
<1>6. (e = "server" => NS' = Tail(NS) /\ NC' = NC) /\ (e = "client" => NC' = Tail(NC) /\ NS' = NS)
  BY <1>4, Ends DEF NS, NC
<1>7. NS' \in Seq(MessagesOf(ItemsToServer)) /\ NC' \in Seq(MessagesOf(ItemsToClient))
  <2>1. CASE e = "server"
    <3>1. NS # <<>>
      BY <2>1 DEF NS
    <3>2. Tail(NS) \in Seq(MessagesOf(ItemsToServer))
      BY <1>1, <3>1
    <3> QED BY <1>1, <1>6, <2>1, <3>2
  <2>2. CASE e = "client"
    <3>1. NC # <<>>
      BY <2>2 DEF NC
    <3>2. Tail(NC) \in Seq(MessagesOf(ItemsToClient))
      BY <1>1, <3>1
    <3> QED BY <1>1, <1>6, <2>2, <3>2
  <2> QED BY <2>1, <2>2 DEF End
<1> QED BY <1>4, <1>5, <1>6, <1>7 DEF TypedNet

LEMMA ParsesMessage ==
    ASSUME Typed, NEW e \in End, NEW b \in Seq(Anything),
           e = "server" => b \in Seq(ItemsToServer), e = "client" => b \in Seq(ItemsToClient),
           parsing' = [parsing EXCEPT ![e] = b]
    PROVE  TypedParsing' /\ (e = "server" => PS' = b /\ PC' = PC)
                         /\ (e = "client" => PC' = b /\ PS' = PS)
<1>1. /\ parsing \in [End -> Seq(Anything)]
      /\ PS \in Seq(ItemsToServer) /\ PC \in Seq(ItemsToClient)
  BY StreamFields
<1>2. /\ parsing' \in [End -> Seq(Anything)] /\ parsing'[e] = b
      /\ \A f \in End : f # e => parsing'[f] = parsing[f]
  BY <1>1
<1>3. (e = "server" => PS' = b /\ PC' = PC) /\ (e = "client" => PC' = b /\ PS' = PS)
  BY <1>2, Ends DEF PS, PC
<1> QED BY <1>1, <1>2, <1>3 DEF TypedParsing, End

LEMMA InAnything ==
    /\ \A b \in Seq(ItemsToServer) : b \in Seq(Anything)
    /\ \A b \in Seq(ItemsToClient) : b \in Seq(Anything)
    /\ <<>> \in Seq(Anything) /\ <<>> \in Seq(ItemsToServer) /\ <<>> \in Seq(ItemsToClient)
<1>1. ItemsToServer \subseteq Anything /\ ItemsToClient \subseteq Anything
  BY DEF Anything
<1> QED BY <1>1, SeqSubset
\* The server's queue with one or two more commands.
LEMMA AddsOne ==
    ASSUME Typed, NEW a \in CommandsToClient,
           queue' = [queue EXCEPT !["server"] = Add(queue["server"], a)],
           reliableSent' = reliableSent \/ reliableSent' = Len(S) + 1
    PROVE  /\ QueuedS' = QueuedS \cup {Item("command", Len(S) + 1, a)}
           /\ \A T : a \in T => ServerAdds(T)
           /\ QueuedC' = QueuedC /\ TypedQueues'
<1>1. queue["server"] \in QueueOf(CommandsToClient) /\ queue["server"].commands = S
      /\ queue["server"].reliableAcknowledge = ackS /\ S \in Seq(CommandsToClient)
  BY QueuesOfEnds, QueueFields DEF S, ackS
<1>2. PICK q : q = Add(queue["server"], a)
  OBVIOUS
<1>3. /\ q \in QueueOf(CommandsToClient) /\ q.commands = Append(S, a)
      /\ q.reliableAcknowledge = ackS /\ Len(q.commands) = Len(S) + 1
  BY <1>1, <1>2, AddFields
<1>4. reliableSent' \in Nat /\ q.reliableAcknowledge <= reliableSent' /\ reliableSent' <= Len(q.commands)
  BY <1>3, QueueFields
<1>5. S' = Append(S, a) /\ QueuedC' = QueuedC /\ TypedQueues'
  BY <1>2, <1>3, <1>4, ServerQueue
<1>6. QueuedS' = QueuedS \cup {Item("command", Len(S) + 1, a)}
  BY <1>1, <1>5, NumberedGrows DEF QueuedS
<1>7. Len(S) + 1 > Len(S)
  BY QueueFields
<1> QED BY <1>5, <1>6, <1>7 DEF ServerAdds, Item

LEMMA AddsTwo ==
    ASSUME Typed, NEW a \in CommandsToClient, NEW b \in CommandsToClient,
           queue' = [queue EXCEPT !["server"] = Add(Add(queue["server"], a), b)],
           reliableSent' = reliableSent \/ reliableSent' = Len(S) + 1
    PROVE  /\ QueuedS' = QueuedS \cup {Item("command", Len(S) + 1, a),
                                       Item("command", Len(S) + 2, b)}
           /\ \A T : a \in T /\ b \in T => ServerAdds(T)
           /\ QueuedC' = QueuedC /\ TypedQueues'
<1>1. queue["server"] \in QueueOf(CommandsToClient) /\ queue["server"].commands = S
      /\ queue["server"].reliableAcknowledge = ackS /\ S \in Seq(CommandsToClient)
  BY QueuesOfEnds, QueueFields DEF S, ackS
<1>2. PICK r, q : r = Add(queue["server"], a) /\ q = Add(r, b)
  OBVIOUS
<1>3. /\ r \in QueueOf(CommandsToClient) /\ r.commands = Append(S, a)
      /\ r.reliableAcknowledge = ackS /\ Len(r.commands) = Len(S) + 1
  BY <1>1, <1>2, AddFields
<1>4. /\ q \in QueueOf(CommandsToClient) /\ q.commands = Append(r.commands, b)
      /\ q.reliableAcknowledge = r.reliableAcknowledge /\ Len(q.commands) = Len(r.commands) + 1
  BY <1>2, <1>3, AddFields
<1>5. reliableSent' \in Nat /\ q.reliableAcknowledge <= reliableSent' /\ reliableSent' <= Len(q.commands)
  BY <1>3, <1>4, QueueFields
<1>6. queue' = [queue EXCEPT !["server"] = q]
  BY <1>2
<1>7. S' = q.commands /\ QueuedC' = QueuedC /\ TypedQueues'
  BY <1>4, <1>5, <1>6, ServerQueue
<1>8. /\ Numbered(r.commands) = Numbered(S) \cup {Item("command", Len(S) + 1, a)}
      /\ r.commands \in Seq(CommandsToClient)
  BY <1>1, <1>3, NumberedGrows
<1>9. Numbered(q.commands) = Numbered(r.commands) \cup {Item("command", Len(S) + 2, b)}
  <2>1. Numbered(q.commands) = Numbered(r.commands) \cup {Item("command", Len(r.commands) + 1, b)}
    BY <1>4, <1>8, NumberedGrows
  <2>2. Len(r.commands) + 1 = Len(S) + 2
    BY <1>3, QueueFields
  <2> QED BY <2>1, <2>2
<1>10. QueuedS' = QueuedS \cup {Item("command", Len(S) + 1, a), Item("command", Len(S) + 2, b)}
  BY <1>7, <1>8, <1>9 DEF QueuedS
<1>11. Len(S) + 1 > Len(S) /\ Len(S) + 2 > Len(S)
  BY QueueFields
<1> QED BY <1>7, <1>10, <1>11 DEF ServerAdds, Item

\* SV_SendClientMessages.
LEMMA ServerSendEffect ==
    ASSUME Typed, ServerSend
    PROVE  (ServerIsQuiet \/ ServerSendsFrame) /\ Typed'
<1> DEFINE q == queue["server"]
           d == IF state["server"] = "spawned" THEN Data("frame", spawncount) ELSE <<>>
           b == Pending(q) \o d
           m == Message(executedTo["server"], b)
<1>1. PICK D : D = IF stS = "spawned" THEN {DataItem("frame")} ELSE {}
  OBVIOUS
<1>2. Pending(q) \in Seq(ItemsToClient) /\ Elements(Pending(q)) \subseteq QueuedS
  BY QueuesOfEnds, PendingS DEF QueuedS, S
<1>3. d \in Seq(ItemsToClient) /\ Elements(d) \subseteq D
  <2>1. Data("frame", spawncount) \in Seq(ItemsToClient)
        /\ Elements(Data("frame", spawncount)) = {DataItem("frame")}
    BY SpawncountLevel, DataFields DEF DataItem
  <2>2. <<>> \in Seq(ItemsToClient) /\ Elements(<<>>) = {}
    BY NoElements
  <2> QED BY <1>1, <2>1, <2>2 DEF stS
<1> HIDE DEF d, q
<1>4. b \in Seq(ItemsToClient) /\ Elements(b) \subseteq QueuedS \cup D
  BY <1>2, <1>3, ConcatElements
<1>5. m \in MessagesOf(ItemsToClient) /\ m.items = b
  BY <1>4, OtherFields, MessageToClient
<1>6. /\ reliableSent' = Len(S) /\ SendFrame("server", m)
      /\ UNCHANGED <<state, queue, executedTo, spawncount, clientVars, parsing>>
  BY DEF ServerSend, q, d, S
<1> HIDE DEF b, m
<1>7. /\ S' = S /\ ackS' = ackS /\ QueuedS' = QueuedS /\ QueuedC' = QueuedC /\ ServerAdds({})
      /\ stS' = stS /\ stC' = stC /\ exC' = exC
      /\ PS' = PS /\ PC' = PC /\ TypedState' /\ TypedParsing' /\ TypedCounters'
  BY <1>6, QueueKept, CountersKept, StateKept, ParsingKept DEF Typed
<1>8. ToClientGrows(QueuedS' \cup D) /\ NS' = NS /\ TypedNet'
  BY <1>4, <1>5, <1>6, <1>7, ServerTransmits DEF SendFrame
<1>9. ToServerShrinks
  BY <1>7, <1>8, ServerUntouched
<1>10. ServerMakes({}, D)
  BY <1>6, <1>7, <1>8, <1>9 DEF ServerMakes, ClientKept, clientVars
<1>11. ServerIsQuiet \/ ServerSendsFrame
  BY <1>1, <1>6, <1>7, <1>10 DEF ServerIsQuiet, ServerSendsFrame
<1>12. TypedQueues'
  <2>1. Len(S) \in Nat /\ ackS <= Len(S) /\ TypedQueues
    BY QueueFields DEF Typed
  <2>2. queue' = queue /\ C' = C
    BY <1>6, QueueKept
  <2>3. reliableSent' \in Nat /\ ackS' <= reliableSent' /\ reliableSent' <= Len(S')
    BY <1>6, <1>7, <2>1
  <2> QED BY <1>7, <2>1, <2>2, <2>3 DEF TypedQueues
<1>13. Typed'
  BY <1>7, <1>8, <1>12 DEF Typed
<1> QED BY <1>11, <1>13

\* SV_ReadPackets: the server takes a message or ignores it for its ack.
LEMMA ServerReceiveEffect ==
    ASSUME Typed, ServerReceive
    PROVE  ServerIsQuiet /\ Typed'
<1>1. /\ Idle("server") /\ net["server"] # <<>> /\ net' = [net EXCEPT !["server"] = Tail(@)]
      /\ UNCHANGED <<state, executedTo, reliableSent, spawncount, clientVars>>
  BY DEF ServerReceive
<1>2. /\ stS' = stS /\ stC' = stC /\ TypedState' /\ exC' = exC /\ TypedCounters'
  BY <1>1, StateKept, CountersKept DEF Typed
<1>3. PS = <<>> /\ stS # "zombie" /\ NS # <<>> /\ (stC = "disconnected" => PC = <<>>)
  BY <1>1 DEF Idle, PS, stS, NS, Typed
<1>4. TypedNet' /\ NS' = Tail(NS) /\ NC' = NC
  BY <1>1, TakenNet, Ends
<1>5. PICK m : m = Head(NS)
  OBVIOUS
<1>6. m \in MessagesOf(ItemsToServer) /\ (PS' = m.items \/ PS' = <<>> => ToServerShrinks)
  BY <1>3, <1>4, <1>5, TakingS
<1>7. m.ack \in Nat /\ m.items \in Seq(ItemsToServer) /\ m.items \in Seq(Anything)
  BY <1>6, InAnything DEF MessagesOf
<1>8. CASE /\ ValidAck(m.ack)
           /\ queue' = [queue EXCEPT !["server"].reliableAcknowledge = m.ack]
           /\ parsing' = [parsing EXCEPT !["server"] = m.items]
  <2>1. TypedParsing' /\ PS' = m.items /\ PC' = PC
    BY <1>7, <1>8, ParsesMessage, Ends
  <2>2. PICK q : q = [commands |-> S, reliableAcknowledge |-> m.ack]
    OBVIOUS
  <2>3. q \in QueueOf(CommandsToClient) /\ q.commands = S /\ q.reliableAcknowledge = m.ack
    BY <1>7, <2>2, QueueFields DEF QueueOf
  <2>4. queue' = [queue EXCEPT !["server"] = q]
    <3>1. queue["server"] = [commands |-> S, reliableAcknowledge |-> ackS]
      BY QueueFields
    <3>2. [queue["server"] EXCEPT !.reliableAcknowledge = m.ack] = q
      BY <2>2, <3>1
    <3> QED BY <1>8, <3>2
  <2>5. m.ack <= reliableSent /\ reliableSent' = reliableSent /\ reliableSent \in Nat
        /\ reliableSent <= Len(S)
    BY <1>1, <1>8, QueueFields DEF ValidAck
  <2>6. S' = S /\ QueuedC' = QueuedC /\ TypedQueues'
    BY <2>3, <2>4, <2>5, ServerQueue
  <2>7. QueuedS' = QueuedS
    BY <2>6 DEF QueuedS
  <2>8. \A E : ToClientGrows(E)
    BY <1>4, <2>1, ClientUntouched
  <2>9. ServerIsQuiet
    BY <1>1, <1>2, <1>6, <2>1, <2>6, <2>7, <2>8
       DEF ServerIsQuiet, ServerMakes, ServerAdds, ClientKept, clientVars
  <2> QED BY <1>2, <1>3, <1>4, <2>1, <2>6, <2>9 DEF Typed
<1>9. CASE UNCHANGED <<queue, parsing>>
  <2>1. /\ QueuedS' = QueuedS /\ QueuedC' = QueuedC /\ TypedQueues' /\ ServerAdds({})
        /\ PS' = PS /\ PC' = PC /\ TypedParsing'
    BY <1>1, <1>9, QueueKept, ParsingKept DEF Typed
  <2>2. \A E : ToClientGrows(E)
    BY <1>4, <2>1, ClientUntouched
  <2>3. ServerIsQuiet
    BY <1>1, <1>2, <1>3, <1>6, <2>1, <2>2 DEF ServerIsQuiet, ServerMakes, ClientKept, clientVars
  <2> QED BY <1>2, <1>3, <1>4, <2>1, <2>3 DEF Typed
<1>10. (ValidAck(m.ack) /\ queue' = [queue EXCEPT !["server"].reliableAcknowledge = m.ack]
                        /\ parsing' = [parsing EXCEPT !["server"] = m.items])
       \/ UNCHANGED <<queue, parsing>>
  BY <1>5 DEF ServerReceive, NS
<1> QED BY <1>8, <1>9, <1>10

\* A command that has no effect: executed before, or not for the state that the client is
\* in, or none of the handshake's.
LEMMA IgnoreEffect ==
    ASSUME Typed, PS # <<>>, Parsed("server"), NEW n \in Nat,
           executedTo' = [executedTo EXCEPT !["server"] = n],
           UNCHANGED <<state, queue, reliableSent, net, spawncount, clientVars>>
    PROVE  ServerIsQuiet /\ Typed'
<1>1. /\ QueuedS' = QueuedS /\ QueuedC' = QueuedC /\ ServerAdds({})
      /\ stS' = stS /\ stC' = stC /\ NS' = NS /\ NC' = NC
      /\ TypedState' /\ TypedQueues' /\ TypedNet'
  BY QueueKept, StateKept, NetKept DEF Typed
<1>2. PS' = Tail(PS) /\ PC' = PC /\ TypedParsing'
  BY ServerParsed
<1>3. stS # "zombie" /\ (stC = "disconnected" => PC = <<>>)
  BY DEF Typed
<1>4. exC' = exC /\ TypedCounters'
  BY ServerExecuted
<1>5. ToServerShrinks /\ \A E : ToClientGrows(E)
  BY <1>1, <1>2, ReadingS, ClientUntouched
<1>6. ServerIsQuiet
  BY <1>1, <1>4, <1>5 DEF ServerIsQuiet, ServerMakes, ClientKept, clientVars
<1> QED BY <1>1, <1>2, <1>3, <1>4, <1>6 DEF Typed

LEMMA ServerSkipEffect == ASSUME Typed, SkipOld("server") PROVE ServerIsQuiet /\ Typed'
<1>1. /\ PS # <<>> /\ Parsed("server")
      /\ UNCHANGED <<state, queue, executedTo, reliableSent, spawncount, clientVars, net>>
  BY DEF SkipOld, PS
<1>2. executedTo["server"] \in Nat
      /\ executedTo' = [executedTo EXCEPT !["server"] = executedTo["server"]]
  BY <1>1, OtherFields, Ends
<1> QED BY <1>1, <1>2, IgnoreEffect

LEMMA ReadsToExecute ==
    ASSUME Typed, NEW name, Reads("server", name), executedTo' = Executed("server")
    PROVE  PS # <<>> /\ NextS.number \in Nat
           /\ executedTo' = [executedTo EXCEPT !["server"] = NextS.number]
           /\ Head(parsing["server"]).number = NextS.number
<1>1. PS # <<>> /\ executedTo' = [executedTo EXCEPT !["server"] = NextS.number]
      /\ Head(parsing["server"]).number = NextS.number
  BY DEF Reads, Executed, PS, NextS
<1>2. NextS \in ItemsToServer
  BY <1>1, StreamFields, TailElements DEF NextS
<1> QED BY <1>1, <1>2, ServerItem DEF ServerWord

LEMMA RequestEffect == ASSUME Typed, Request PROVE ServerIsQuiet /\ Typed'
<1>1. /\ Reads("server", "request") /\ executedTo' = Executed("server") /\ Parsed("server")
      /\ UNCHANGED <<state, queue, reliableSent, spawncount, clientVars, net>>
  BY DEF Request
<1> QED BY <1>1, ReadsToExecute, IgnoreEffect

\* PF_ConfigString.
LEMMA UpdateEffect == ASSUME Typed, Update PROVE ServerUpdates /\ Typed'
<1>1. /\ queue' = [queue EXCEPT !["server"] = Add(queue["server"], Cmd("update", spawncount))]
      /\ UNCHANGED <<state, executedTo, reliableSent, spawncount, clientVars, parsing, net>>
  BY DEF Update
<1>2. ServerAdds({Cmd("update", spawncount)}) /\ QueuedC' = QueuedC /\ TypedQueues'
  BY <1>1, SpawncountLevel, AddsOne
<1>3. /\ stS' = stS /\ stC' = stC /\ exC' = exC /\ NS' = NS /\ NC' = NC /\ PS' = PS /\ PC' = PC
      /\ TypedState' /\ TypedCounters' /\ TypedNet' /\ TypedParsing'
  BY <1>1, StateKept, CountersKept, NetKept, ParsingKept DEF Typed
<1>4. ToServerShrinks /\ \A E : ToClientGrows(E)
  BY <1>3, ServerUntouched, ClientUntouched
<1>5. ServerUpdates
  BY <1>1, <1>2, <1>3, <1>4 DEF ServerUpdates, ServerMakes, ClientKept, clientVars
<1> QED BY <1>2, <1>3, <1>5 DEF Typed
\* Serverdata, from SV_New_f or SV_Baselines_f.
LEMMA RestartEffect ==
    ASSUME Typed, NEW name, ServerHandles(name), SendServerdata(NextS.number),
           UNCHANGED <<spawncount, clientVars>>
    PROVE  ServerRestarts /\ Typed'
<1> DEFINE m == Message(NextS.number, Data("serverdata", spawncount))
<1>1. /\ SendNow("server", m) /\ queue' = [queue EXCEPT !["server"] = NewQueue]
      /\ executedTo' = [executedTo EXCEPT !["server"] = 0] /\ reliableSent' = 0
      /\ state' = [state EXCEPT !["server"] = "connecting"]
  BY DEF SendServerdata
<1>2. NextS.number \in Nat /\ PC' = PC
  BY DEF ServerHandles
<1>3. /\ Data("serverdata", spawncount) \in Seq(ItemsToClient)
      /\ Elements(Data("serverdata", spawncount)) = {DataItem("serverdata")}
  BY SpawncountLevel, DataFields DEF DataItem
<1>4. m \in MessagesOf(ItemsToClient) /\ m.items = Data("serverdata", spawncount)
  BY <1>2, <1>3, MessageToClient
<1> HIDE DEF m
<1>5. stS' = "connecting" /\ stC' = stC /\ TypedState'
  BY <1>1, ServerState
<1>6. NewQueue \in QueueOf(CommandsToClient) /\ NewQueue.commands = <<>>
      /\ NewQueue.reliableAcknowledge = 0 /\ Len(NewQueue.commands) = 0
  BY DEF NewQueue, QueueOf
<1>7. S' = <<>> /\ QueuedC' = QueuedC /\ TypedQueues'
  <2>1. reliableSent' \in Nat /\ NewQueue.reliableAcknowledge <= reliableSent'
        /\ reliableSent' <= Len(NewQueue.commands)
    BY <1>1, <1>6
  <2> QED BY <1>1, <1>6, <2>1, ServerQueue
<1>8. QueuedS' = {} /\ ServerAdds({})
  BY <1>7 DEF QueuedS, Numbered, ServerAdds
<1>9. ToClientGrows(QueuedS' \cup {DataItem("serverdata")}) /\ NS' = NS /\ TypedNet'
  BY <1>1, <1>2, <1>3, <1>4, ServerTransmits DEF SendNow
<1>10. ServerMakes({}, {DataItem("serverdata")}) /\ Typed'
  BY <1>1, <1>5, <1>7, <1>8, <1>9, ServerHandled
<1> QED BY <1>5, <1>8, <1>10 DEF ServerRestarts

LEMMA NewEffect == ASSUME Typed, New PROVE (ServerIsQuiet \/ ServerRestarts) /\ Typed'
<1>1. Reads("server", "new") /\ Parsed("server") /\ UNCHANGED <<spawncount, clientVars>>
  BY DEF New
<1>2. ServerHandles("new")
  BY <1>1, ServerHandler
<1>3. CASE stS = "spawned"
  <2>1. executedTo' = Executed("server") /\ UNCHANGED <<state, queue, reliableSent, net>>
    BY <1>3 DEF New, stS
  <2> QED BY <1>1, <2>1, ReadsToExecute, IgnoreEffect
<1>4. CASE stS # "spawned"
  <2>1. SendServerdata(NextS.number)
    BY <1>2, <1>4 DEF New, stS, ServerHandles
  <2> QED BY <1>1, <1>2, <2>1, RestartEffect
<1> QED BY <1>3, <1>4

\* SV_Configstrings_f, SV_Baselines_f, SV_Begin_f with SV_DropClient.
LEMMA ConfigstringsEffect ==
    ASSUME Typed, Configstrings
    PROVE  (ServerIsQuiet \/ ServerServes \/ ServerRefuses) /\ Typed'
<1>1. /\ Reads("server", "configstrings") /\ Parsed("server")
      /\ executedTo' = Executed("server") /\ UNCHANGED <<reliableSent, spawncount, clientVars, net>>
  BY DEF Configstrings
<1>2. /\ ServerHandles("configstrings") /\ NextS.number \in Nat
      /\ executedTo' = [executedTo EXCEPT !["server"] = NextS.number]
  BY <1>1, ServerHandler, ReadsToExecute
<1>3. CASE stS = "spawned"
  <2>1. UNCHANGED <<state, queue>>
    BY <1>3 DEF Configstrings, stS
  <2> QED BY <1>1, <2>1, ReadsToExecute, IgnoreEffect
<1>4. CASE stS # "spawned"
  <2>1. /\ state' = [state EXCEPT !["server"] = "connected"]
        /\ LevelOf(NextS) # spawncount =>
              queue' = [queue EXCEPT !["server"] = Add(queue["server"], Cmd("reconnect", NoLevel))]
        /\ LevelOf(NextS) = spawncount =>
              queue' = [queue EXCEPT !["server"] =
                           Add(Add(queue["server"], Cmd("cs", spawncount)),
                               Cmd(CmdBaselines, spawncount))]
    <3>1. /\ state' = [state EXCEPT !["server"] = "connected"]
          /\ queue' = [queue EXCEPT !["server"] =
                IF CommandLevel("server") # spawncount
                THEN Add(@, Cmd("reconnect", NoLevel))
                ELSE Add(Add(@, Cmd("cs", spawncount)), Cmd(CmdBaselines, spawncount))]
      BY <1>4, Zenon DEF Configstrings, stS, CmdBaselines
    <3> QED BY <1>2, <3>1 DEF ServerHandles
  <2>2. stS' = "connected" /\ stC' = stC /\ TypedState'
    BY <2>1, ServerState
  <2>3. NS' = NS /\ NC' = NC /\ TypedNet'
    BY <1>1, NetKept DEF Typed
  <2>4. \A E : ToClientGrows(E)
    BY <1>2, <2>3, ClientUntouched DEF ServerHandles
  <2>5. CASE LevelOf(NextS) # spawncount
    <3>1. ServerAdds(Restarts) /\ QueuedC' = QueuedC /\ TypedQueues'
      BY <1>1, <2>1, <2>5, SpawncountLevel, AddsOne DEF Restarts
    <3>2. ServerReads /\ ServerMakes(Restarts, {}) /\ Typed'
      BY <1>1, <1>2, <2>2, <2>3, <2>4, <3>1, ServerHandled
    <3>3. LevelOf(NextS) # NoLevel
      BY <1>2, ServerReadsLevel DEF ServerHandles, ServerNames
    <3> QED BY <1>1, <2>2, <2>5, <3>2, <3>3 DEF ServerRefuses
  <2>6. CASE LevelOf(NextS) = spawncount
    <3>1. ServerAdds(OfThisSpawn) /\ QueuedC' = QueuedC /\ TypedQueues'
      BY <1>1, <2>1, <2>6, SpawncountLevel, AddsTwo DEF OfThisSpawn
    <3>2. ServerReads /\ ServerMakes(OfThisSpawn, {DataItem("baselines")}) /\ Typed'
      BY <1>1, <1>2, <2>2, <2>3, <2>4, <3>1, ServerHandled
    <3> QED BY <1>1, <2>2, <2>6, <3>2 DEF ServerServes
  <2> QED BY <2>5, <2>6
<1> QED BY <1>3, <1>4

LEMMA BaselinesEffect ==
    ASSUME Typed, Baselines
    PROVE  (ServerIsQuiet \/ ServerRestarts \/ ServerServes) /\ Typed'
<1> DEFINE q == Add(queue["server"], Cmd("precache", spawncount))
           data == Data("baselines", spawncount)
           m == Message(NextS.number, data \o Pending(q))
<1>1. /\ Reads("server", "baselines") /\ Parsed("server") /\ UNCHANGED <<spawncount, clientVars>>
  BY DEF Baselines
<1>2. ServerHandles("baselines")
  BY <1>1, ServerHandler
<1>3. /\ CommandLevel("server") = LevelOf(NextS) /\ Head(parsing["server"]).number = NextS.number
      /\ NextS.number \in Nat /\ PC' = PC /\ stS # "zombie"
  BY <1>2 DEF ServerHandles
<1>4. CASE stS # "connected"
  <2>1. executedTo' = Executed("server") /\ UNCHANGED <<state, queue, reliableSent, net>>
    BY <1>4 DEF Baselines, stS
  <2> QED BY <1>1, <2>1, ReadsToExecute, IgnoreEffect
<1>5. CASE stS = "connected" /\ LevelOf(NextS) # spawncount
  <2>1. SendServerdata(NextS.number)
    BY <1>3, <1>5 DEF Baselines, stS
  <2> QED BY <1>1, <1>2, <2>1, RestartEffect
<1>6. CASE stS = "connected" /\ LevelOf(NextS) = spawncount
  <2>1. /\ executedTo' = Executed("server") /\ queue' = [queue EXCEPT !["server"] = q]
        /\ reliableSent' = Len(q.commands) /\ SendNow("server", m) /\ UNCHANGED state
    BY <1>3, <1>6 DEF Baselines, stS
  <2>2. queue["server"] \in QueueOf(CommandsToClient) /\ queue["server"].commands = S
        /\ Cmd("precache", spawncount) \in CommandsToClient
    BY QueuesOfEnds, SpawncountLevel DEF S
  <2>3. q \in QueueOf(CommandsToClient) /\ Len(q.commands) = Len(S) + 1
        /\ q.commands = Append(S, Cmd("precache", spawncount))
    BY <2>2, AddFields
  <2>4. ServerAdds(OfThisSpawn) /\ QueuedC' = QueuedC /\ TypedQueues'
        /\ QueuedS' = QueuedS \cup {Item("command", Len(S) + 1, Cmd("precache", spawncount))}
    BY <2>1, <2>2, <2>3, AddsOne DEF OfThisSpawn
  <2>5. Numbered(q.commands) = QueuedS'
    <3>1. S \in Seq(CommandsToClient)
      BY QueueFields
    <3>2. Numbered(Append(S, Cmd("precache", spawncount))) = Numbered(S) \cup {Item("command", Len(S) + 1, Cmd("precache", spawncount))}
      BY <2>2, <3>1, NumberedGrows
    <3> QED BY <2>3, <2>4, <3>2 DEF QueuedS
  <2>6. Pending(q) \in Seq(ItemsToClient) /\ Elements(Pending(q)) \subseteq QueuedS'
    BY <2>3, <2>5, PendingS
  <2>7. data \in Seq(ItemsToClient) /\ Elements(data) = {DataItem("baselines")}
    BY SpawncountLevel, DataFields DEF DataItem
  <2> HIDE DEF q, data
  <2>8. /\ data \o Pending(q) \in Seq(ItemsToClient)
        /\ Elements(data \o Pending(q)) \subseteq QueuedS' \cup {DataItem("baselines")}
    BY <2>6, <2>7, ConcatElements
  <2>9. m \in MessagesOf(ItemsToClient) /\ m.items = data \o Pending(q)
    BY <1>3, <2>8, MessageToClient
  <2> HIDE DEF m
  <2>10. ToClientGrows(QueuedS' \cup {DataItem("baselines")}) /\ NS' = NS /\ TypedNet'
    BY <1>3, <2>1, <2>8, <2>9, ServerTransmits DEF SendNow
  <2>11. stS' = stS /\ stC' = stC /\ TypedState'
    BY <2>1, StateKept DEF Typed
  <2>12. executedTo' = [executedTo EXCEPT !["server"] = NextS.number]
    BY <1>1, <2>1, ReadsToExecute
  <2>13. ServerReads /\ ServerMakes(OfThisSpawn, {DataItem("baselines")}) /\ Typed'
    BY <1>1, <1>2, <1>3, <2>4, <2>10, <2>11, <2>12, ServerHandled
  <2> QED BY <1>1, <1>6, <2>11, <2>13 DEF ServerServes
<1> QED BY <1>4, <1>5, <1>6

LEMMA BeginEffect ==
    ASSUME Typed, Begin
    PROVE  (ServerDrops \/ ServerSpawns \/ ServerRefuses) /\ Typed'
<1> DEFINE q == Add(queue["server"], Cmd("disconnect", NoLevel))
           m == Message(NextS.number, Pending(q))
<1>1. /\ Reads("server", "begin") /\ executedTo' = Executed("server")
      /\ UNCHANGED <<spawncount, clientVars>>
  BY DEF Begin
<1>2. /\ PS # <<>> /\ NextS.number \in Nat
      /\ executedTo' = [executedTo EXCEPT !["server"] = NextS.number]
      /\ Head(parsing["server"]).number = NextS.number
  BY <1>1, ReadsToExecute
<1>3. CASE stS = "connected"
  <2>1. Parsed("server") /\ UNCHANGED <<reliableSent, net>>
    BY <1>3 DEF Begin, stS
  <2>2. ServerHandles("begin")
    BY <1>1, <2>1, ServerHandler
  <2>3. CommandLevel("server") = LevelOf(NextS) /\ PC' = PC /\ Name(NextS) = "begin"
    BY <2>2 DEF ServerHandles
  <2>4. NS' = NS /\ NC' = NC /\ TypedNet'
    BY <2>1, NetKept DEF Typed
  <2>5. \A E : ToClientGrows(E)
    BY <2>3, <2>4, ClientUntouched
  <2>6. CASE LevelOf(NextS) = spawncount
    <3>1. state' = [state EXCEPT !["server"] = "spawned"] /\ queue' = queue
      BY <1>3, <2>3, <2>6 DEF Begin, stS
    <3>2. stS' = "spawned" /\ stC' = stC /\ TypedState'
      BY <3>1, ServerState
    <3>3. ServerAdds({}) /\ QueuedC' = QueuedC /\ TypedQueues'
      BY <2>1, <3>1, QueueKept DEF Typed
    <3>4. ServerReads /\ ServerMakes({}, {}) /\ Typed'
      BY <1>1, <1>2, <2>2, <2>4, <2>5, <3>2, <3>3, ServerHandled
    <3> QED BY <1>1, <2>3, <2>6, <3>2, <3>4 DEF ServerSpawns
  <2>7. CASE LevelOf(NextS) # spawncount
    <3>1. /\ state' = state
          /\ queue' = [queue EXCEPT !["server"] =
                          Add(Add(queue["server"], Cmd("changing", NoLevel)),
                              Cmd("reconnect", NoLevel))]
      BY <1>3, <2>3, <2>7 DEF Begin, stS
    <3>2. stS' = stS /\ stC' = stC /\ TypedState'
      BY <3>1, StateKept DEF Typed
    <3>3. ServerAdds(Restarts) /\ QueuedC' = QueuedC /\ TypedQueues'
      BY <2>1, <3>1, SpawncountLevel, AddsTwo DEF Restarts
    <3>4. ServerReads /\ ServerMakes(Restarts, {}) /\ Typed'
      BY <1>1, <1>2, <1>3, <2>2, <2>4, <2>5, <3>2, <3>3, ServerHandled
    <3>5. LevelOf(NextS) # NoLevel
      BY <2>2, ServerReadsLevel DEF ServerHandles, ServerNames
    <3> QED BY <1>1, <1>3, <2>7, <3>2, <3>4, <3>5 DEF ServerRefuses
  <2> QED BY <2>6, <2>7
<1>4. CASE stS # "connected"
  <2>1. /\ queue' = [queue EXCEPT !["server"] = q] /\ reliableSent' = Len(q.commands)
        /\ state' = [state EXCEPT !["server"] = "zombie"] /\ SendNow("server", m)
        /\ parsing' = [parsing EXCEPT !["server"] = <<>>]
    BY <1>2, <1>4 DEF Begin, DropClient, stS
  <2>2. queue["server"] \in QueueOf(CommandsToClient) /\ queue["server"].commands = S
        /\ Cmd("disconnect", NoLevel) \in CommandsToClient
    BY QueuesOfEnds, SpawncountLevel DEF S
  <2>3. q \in QueueOf(CommandsToClient) /\ Len(q.commands) = Len(S) + 1
        /\ q.commands = Append(S, Cmd("disconnect", NoLevel))
    BY <2>2, AddFields
  <2>4. ServerAdds({Cmd("disconnect", NoLevel)}) /\ QueuedC' = QueuedC /\ TypedQueues'
        /\ QueuedS' = QueuedS \cup {Item("command", Len(S) + 1, Cmd("disconnect", NoLevel))}
    BY <2>1, <2>2, <2>3, AddsOne
  <2>5. Numbered(q.commands) = QueuedS'
    <3>1. S \in Seq(CommandsToClient)
      BY QueueFields
    <3>2. Numbered(Append(S, Cmd("disconnect", NoLevel))) = Numbered(S) \cup {Item("command", Len(S) + 1, Cmd("disconnect", NoLevel))}
      BY <2>2, <3>1, NumberedGrows
    <3> QED BY <2>3, <2>4, <3>2 DEF QueuedS
  <2>6. Pending(q) \in Seq(ItemsToClient) /\ Elements(Pending(q)) \subseteq QueuedS'
    BY <2>3, <2>5, PendingS
  <2> HIDE DEF q
  <2>7. m \in MessagesOf(ItemsToClient) /\ m.items = Pending(q)
    BY <1>2, <2>6, MessageToClient
  <2> HIDE DEF m
  <2>8. TypedParsing' /\ PS' = <<>> /\ PC' = PC
    BY <2>1, ParsesMessage, InAnything, Ends
  <2>9. ToClientGrows(QueuedS' \cup {}) /\ NS' = NS /\ TypedNet'
    BY <2>1, <2>6, <2>7, <2>8, ServerTransmits DEF SendNow
  <2>10. stS' = "zombie" /\ stC' = stC /\ TypedState'
    BY <2>1, ServerState
  <2>11. exC' = exC /\ TypedCounters'
    BY <1>1, <1>2, ServerExecuted
  <2>12. ToServerShrinks
    BY <2>8, <2>9, DropRest DEF NoMore, ToServerShrinks, ToServer, OrderS
  <2>13. ServerDrops
    BY <1>1, <2>4, <2>9, <2>10, <2>11, <2>12 DEF ServerDrops, ServerMakes, ClientKept, clientVars
  <2>14. stC' = "disconnected" => PC' = <<>>
    BY <2>8, <2>10 DEF Typed
  <2> QED BY <2>4, <2>8, <2>9, <2>10, <2>11, <2>13, <2>14 DEF Typed
<1> QED BY <1>3, <1>4

\* SV_Map.
LEMMA ChangeLevelEffect == ASSUME Typed, ChangeLevel PROVE ChangesLevel /\ Typed'
<1> DEFINE q == Add(queue["server"], Cmd("changing", NoLevel))
           m == Message(executedTo["server"], Pending(q))
<1>1. /\ Idle("server") /\ spawncount < MaxLevel /\ spawncount' = spawncount + 1
      /\ state' = [state EXCEPT !["server"] = "connecting"]
      /\ queue' = [queue EXCEPT !["server"] = Add(q, Cmd("reconnect", NoLevel))]
      /\ reliableSent' = Len(q.commands) /\ SendNow("server", m)
      /\ UNCHANGED <<executedTo, clientVars, parsing>>
  BY DEF ChangeLevel
<1>2. queue["server"] \in QueueOf(CommandsToClient) /\ queue["server"].commands = S
      /\ Cmd("changing", NoLevel) \in CommandsToClient
      /\ Cmd("reconnect", NoLevel) \in CommandsToClient
  BY QueuesOfEnds, SpawncountLevel DEF S
<1>3. q \in QueueOf(CommandsToClient) /\ q.commands = Append(S, Cmd("changing", NoLevel))
      /\ Len(q.commands) = Len(S) + 1
  BY <1>2, AddFields
<1>4. /\ QueuedS' = QueuedS \cup {Item("command", Len(S) + 1, Cmd("changing", NoLevel)),
                                  Item("command", Len(S) + 2, Cmd("reconnect", NoLevel))}
      /\ ServerAdds(Restarts) /\ QueuedC' = QueuedC /\ TypedQueues'
  BY <1>1, <1>2, <1>3, AddsTwo DEF Restarts
<1>5. Numbered(q.commands) \subseteq QueuedS'
  <2>1. Numbered(q.commands) = QueuedS \cup {Item("command", Len(S) + 1, Cmd("changing", NoLevel))}
    BY <1>2, <1>3, QueueFields, NumberedGrows DEF QueuedS
  <2> QED BY <1>4, <2>1
<1>6. Pending(q) \in Seq(ItemsToClient) /\ Elements(Pending(q)) \subseteq QueuedS'
  BY <1>3, <1>5, PendingS
<1> HIDE DEF q
<1>7. m \in MessagesOf(ItemsToClient) /\ m.items = Pending(q)
  BY <1>6, OtherFields, MessageToClient
<1> HIDE DEF m
<1>8. PS' = PS /\ PC' = PC /\ TypedParsing'
  BY <1>1, ParsingKept DEF Typed
<1>9. ToClientGrows(QueuedS' \cup {}) /\ NS' = NS /\ TypedNet'
  BY <1>1, <1>6, <1>7, <1>8, ServerTransmits DEF SendNow
<1>10. stS' = "connecting" /\ stC' = stC /\ TypedState'
  BY <1>1, ServerState
<1>11. exC' = exC /\ TypedCounters'
  <2>1. spawncount' \in Level
    BY <1>1, OtherFields, BoundsAssumption DEF Level
  <2> QED BY <1>1, <2>1 DEF Typed, TypedCounters, clientVars, exC
<1>12. ToServerShrinks
  BY <1>8, <1>9, ServerUntouched
<1>13. ChangesLevel
  BY <1>1, <1>4, <1>9, <1>10, <1>11, <1>12 DEF ChangesLevel, ServerMakes, ClientKept, clientVars
<1>14. stC' = "disconnected" => PC' = <<>>
  BY <1>8, <1>10 DEF Typed
<1> QED BY <1>4, <1>8, <1>9, <1>10, <1>11, <1>13, <1>14 DEF Typed
\* CL_SendMessagesToServer, CL_AddReliableCommand and CL_ReadPackets.
LEMMA ClientSendEffect == ASSUME Typed, ClientSend PROVE ClientIsQuiet /\ Typed'
<1> DEFINE b == Pending(queue["client"])
           m == Message(exC, b)
<1>1. SendFrame("client", m)
      /\ UNCHANGED <<state, queue, executedTo, reliableSent, spawncount, clientVars, parsing>>
  BY DEF ClientSend, exC
<1>2. queue["client"] \in QueueOf(CommandsToServer) /\ queue["client"].commands = C
  BY QueuesOfEnds DEF C
<1>3. /\ b \in Seq([type : {"command"}, number : Nat \ {0}, command : CommandsToServer])
      /\ Elements(b) \subseteq QueuedC
  BY <1>2, PendingFacts DEF QueuedC
<1>4. b \in Seq(ItemsToServer)
  BY <1>3 DEF ItemsToServer
<1> HIDE DEF b
<1>5. m \in MessagesOf(ItemsToServer) /\ m.items = b
  BY <1>4, OtherFields, MessageToServer
<1> HIDE DEF m
<1>6. /\ QueuedS' = QueuedS /\ \A T : ClientAdds(T)
      /\ stS' = stS /\ stC' = stC /\ exC' = exC /\ exC \in Nat /\ PS' = PS /\ PC' = PC
      /\ TypedState' /\ TypedParsing' /\ TypedQueues' /\ TypedCounters'
  BY <1>1, QueueKept, CountersKept, StateKept, ParsingKept, OtherFields DEF Typed
<1>7. ToServerGrows(QueuedC) /\ NC' = NC /\ TypedNet'
  BY <1>1, <1>3, <1>5, <1>6, ClientTransmits DEF SendFrame
<1>8. ToClientShrinks
  BY <1>6, <1>7, ClientUntouched
<1>9. ClientIsQuiet
  BY <1>1, <1>6, <1>7, <1>8 DEF ClientIsQuiet, ClientMakes, ServerKept, clientVars
<1> QED BY <1>6, <1>7, <1>9 DEF Typed

LEMMA ClientQueueGrows ==
    ASSUME Typed, NEW a \in CommandsToServer, reliableSent' = reliableSent,
           queue' = [queue EXCEPT !["client"] = Add(queue["client"], a)]
    PROVE  (\A T : a \in T => ClientAdds(T)) /\ QueuedS' = QueuedS /\ TypedQueues'
<1>1. queue["client"] \in QueueOf(CommandsToServer) /\ queue["client"].commands = C
      /\ C \in Seq(CommandsToServer)
  BY QueuesOfEnds, QueueFields DEF C
<1>2. PICK q : q = Add(queue["client"], a)
  OBVIOUS
<1>3. q \in QueueOf(CommandsToServer) /\ q.commands = Append(C, a)
  BY <1>1, <1>2, AddFields
<1>4. C' = Append(C, a) /\ QueuedS' = QueuedS /\ TypedQueues'
  BY <1>2, <1>3, ClientQueue
<1>5. QueuedC' = QueuedC \cup {Item("command", Len(C) + 1, a)}
  BY <1>1, <1>4, NumberedGrows DEF QueuedC
<1> QED BY <1>4, <1>5 DEF ClientAdds, Item

LEMMA RequestOfPlayerEffect == ASSUME Typed, RequestOfPlayer PROVE ClientIsQuiet /\ Typed'
<1>1. /\ queue' = [queue EXCEPT !["client"] = Add(queue["client"], Cmd("request", NoLevel))]
      /\ UNCHANGED <<state, executedTo, reliableSent, spawncount, clientVars, parsing, net>>
  BY DEF RequestOfPlayer
<1>2. Cmd("request", NoLevel) \in CommandsToServer
  BY DEF CommandsToServer, Cmd
<1>3. ClientAdds({Cmd("request", NoLevel)}) /\ QueuedS' = QueuedS /\ TypedQueues'
  BY <1>1, <1>2, ClientQueueGrows
<1>4. /\ stS' = stS /\ stC' = stC /\ exC' = exC /\ exC \in Nat /\ NS' = NS /\ NC' = NC
      /\ PS' = PS /\ PC' = PC /\ TypedState' /\ TypedCounters' /\ TypedNet' /\ TypedParsing'
  BY <1>1, StateKept, CountersKept, NetKept, ParsingKept, OtherFields DEF Typed
<1>5. ToClientShrinks /\ \A E : ToServerGrows(E)
  BY <1>4, ServerUntouched, ClientUntouched
<1>6. ClientIsQuiet
  BY <1>1, <1>3, <1>4, <1>5 DEF ClientIsQuiet, ClientMakes, ServerKept, clientVars
<1> QED BY <1>3, <1>4, <1>6 DEF Typed

LEMMA ClientReceiveEffect == ASSUME Typed, ClientReceive PROVE ClientIsQuiet /\ Typed'
<1> DEFINE m == Head(net["client"])
<1>1. /\ Idle("client") /\ net["client"] # <<>> /\ net' = [net EXCEPT !["client"] = Tail(@)]
      /\ queue' = [queue EXCEPT !["client"].reliableAcknowledge = m.ack]
      /\ parsing' = [parsing EXCEPT !["client"] = m.items]
      /\ UNCHANGED <<state, executedTo, reliableSent, spawncount, clientVars>>
  BY DEF ClientReceive
<1>2. m = Head(NC)
  BY DEF NC
<1> HIDE DEF m
<1>3. /\ stS' = stS /\ stC' = stC /\ TypedState' /\ exC' = exC /\ exC \in Nat /\ TypedCounters'
  BY <1>1, StateKept, CountersKept, OtherFields DEF Typed
<1>4. PC = <<>> /\ stC # "disconnected" /\ NC # <<>>
  BY <1>1 DEF Idle, PC, stC, NC
<1>5. TypedNet' /\ NC' = Tail(NC) /\ NS' = NS
  BY <1>1, TakenNet, Ends
<1>6. m \in MessagesOf(ItemsToClient)
  BY <1>2, <1>4, StreamFields
<1>7. m.ack \in Nat /\ m.items \in Seq(ItemsToClient) /\ m.items \in Seq(Anything)
  BY <1>6, InAnything DEF MessagesOf
<1>8. TypedParsing' /\ PC' = m.items /\ PS' = PS
  BY <1>1, <1>7, ParsesMessage, Ends
<1>9. ToClientShrinks
  BY <1>2, <1>4, <1>5, <1>8, TakingC
<1>10. PICK q : q = [commands |-> C, reliableAcknowledge |-> m.ack]
  OBVIOUS
<1>11. q \in QueueOf(CommandsToServer) /\ q.commands = C
  BY <1>7, <1>10, QueueFields DEF QueueOf
<1>12. queue' = [queue EXCEPT !["client"] = q]
  <2>1. PICK a : queue["client"] = [commands |-> C, reliableAcknowledge |-> a]
    BY QueueFields
  <2>2. [queue["client"] EXCEPT !.reliableAcknowledge = m.ack] = q
    BY <1>10, <2>1
  <2> QED BY <1>1, <2>2
<1>13. C' = C /\ QueuedS' = QueuedS /\ TypedQueues'
  BY <1>1, <1>11, <1>12, ClientQueue
<1>14. \A T : ClientAdds(T)
  BY <1>13 DEF ClientAdds, QueuedC
<1>15. \A E : ToServerGrows(E)
  BY <1>5, <1>8, ServerUntouched
<1>16. ClientIsQuiet
  BY <1>1, <1>3, <1>9, <1>13, <1>14, <1>15 DEF ClientIsQuiet, ClientMakes, ServerKept, clientVars
<1>17. (stS' = "zombie" => PS' = <<>>) /\ (stC' = "disconnected" => PC' = <<>>)
  BY <1>3, <1>4, <1>8 DEF Typed
<1> QED BY <1>3, <1>5, <1>8, <1>13, <1>16, <1>17 DEF Typed

\* The step leaves the commands and the states as they were.
LEMMA QuietClient ==
    ASSUME Typed, UNCHANGED <<state, queue, reliableSent>>
    PROVE  /\ QueuedS' = QueuedS /\ \A T : ClientAdds(T)
           /\ stS' = stS /\ stC' = stC /\ TypedState' /\ TypedQueues'
BY QueueKept, StateKept DEF Typed

LEMMA ClientIgnores ==
    ASSUME Typed, ClientHandles, UNCHANGED <<state, queue, reliableSent>>,
           UNCHANGED <<spawncount, servercount, cgame>>, TypedCounters', exC <= exC'
    PROVE  ClientIsQuiet /\ Typed'
<1>1. /\ QueuedS' = QueuedS /\ ClientAdds({Cmd("request", NoLevel)})
      /\ stS' = stS /\ stC' = stC /\ TypedState' /\ TypedQueues'
  BY QuietClient
<1>2. stC # "disconnected"
  BY DEF ClientHandles
<1>3. ClientMakes({Cmd("request", NoLevel)}) /\ Typed'
  BY <1>1, <1>2, ClientHandled
<1> QED BY <1>1, <1>3 DEF ClientIsQuiet

LEMMA ClientSkipEffect == ASSUME Typed, SkipOld("client") PROVE ClientIsQuiet /\ Typed'
<1>1. /\ parsing["client"] # <<>> /\ Parsed("client")
      /\ UNCHANGED <<state, queue, executedTo, reliableSent, spawncount, clientVars, net>>
  BY DEF SkipOld
<1>2. ClientHandles
  BY <1>1, ClientHandler
<1>3. exC' = exC /\ exC \in Nat /\ TypedCounters' /\ UNCHANGED <<servercount, cgame>>
  BY <1>1, CountersKept, OtherFields DEF Typed
<1> QED BY <1>1, <1>2, <1>3, ClientIgnores

LEMMA DataHandler ==
    ASSUME Typed, NEW type \in {"serverdata", "baselines", "frame"}, ReadsData(type),
           Parsed("client"), net' = net
    PROVE  /\ ClientHandles /\ Name(NextC) = type /\ LevelOf(NextC) \in Level
           /\ CommandLevel("client") = LevelOf(NextC)
<1>1. parsing["client"] # <<>> /\ NextC.type = type
  BY DEF ReadsData, NextC, PC
<1>2. ClientHandles
  BY <1>1, ClientHandler
<1>3. Name(NextC) = type /\ LevelOf(NextC) \in Level
  BY <1>1, <1>2 DEF ClientHandles, ClientWord
<1> QED BY <1>2, <1>3 DEF ClientHandles

\* What the client reads: data, then commands.
LEMMA BaselineEffect == ASSUME Typed, ParseBaseline PROVE ClientIsQuiet /\ Typed'
<1>1. /\ ReadsData("baselines") /\ Parsed("client") /\ baselines' = CommandLevel("client")
      /\ UNCHANGED <<state, queue, executedTo, reliableSent, spawncount>>
      /\ UNCHANGED <<servercount, configstrings, cgame, net>>
  BY DEF ParseBaseline
<1>2. ClientHandles
  BY <1>1, DataHandler
<1>3. baselines' \in Level \cup {NoLevel}
  BY <1>1, <1>2 DEF ClientHandles
<1>4. exC' = exC /\ exC \in Nat
  BY <1>1, OtherFields DEF exC
<1>5. TypedCounters'
  <2>1. {servercount', configstrings', baselines', cgame'} \subseteq Level \cup {NoLevel}
    BY <1>1, <1>3, OtherFields
  <2> QED BY <1>1, <2>1 DEF Typed, TypedCounters
<1> QED BY <1>1, <1>2, <1>4, <1>5, ClientIgnores

LEMMA FrameEffect == ASSUME Typed, Frame PROVE (ClientIsQuiet \/ BecomesActive) /\ Typed'
<1>1. /\ ReadsData("frame") /\ Parsed("client")
      /\ UNCHANGED <<executedTo, reliableSent, spawncount, clientVars, net>>
  BY DEF Frame
<1>2. ClientHandles /\ Name(NextC) = "frame" /\ ClientReads
  BY <1>1, DataHandler DEF ClientHandles
<1>3. exC' = exC /\ exC \in Nat /\ TypedCounters' /\ UNCHANGED <<servercount, cgame>>
  BY <1>1, CountersKept, OtherFields DEF Typed
<1>4. CASE UNCHANGED <<state, queue>>
  BY <1>1, <1>2, <1>3, <1>4, ClientIgnores
<1>5. CASE /\ stC = "connected" /\ state' = [state EXCEPT !["client"] = "active"]
           /\ queue' = [queue EXCEPT !["client"] = Add(queue["client"], Cmd("request", NoLevel))]
  <2>1. stC' = "active" /\ stS' = stS /\ TypedState'
    BY <1>5, ClientState
  <2>2. Cmd("request", NoLevel) \in CommandsToServer
    BY DEF CommandsToServer, Cmd
  <2>3. ClientAdds({Cmd("request", NoLevel)}) /\ QueuedS' = QueuedS /\ TypedQueues'
    BY <1>1, <1>5, <2>2, ClientQueueGrows
  <2>4. ClientMakes({Cmd("request", NoLevel)}) /\ Typed'
    BY <1>1, <1>2, <1>3, <2>1, <2>3, ClientHandled
  <2>5. BecomesActive
    BY <1>2, <1>3, <1>5, <2>1, <2>4 DEF BecomesActive
  <2> QED BY <2>4, <2>5
<1> QED BY <1>4, <1>5 DEF Frame, stC

LEMMA ServerdataEffect ==
    ASSUME Typed, Serverdata
    PROVE  (ClientIsQuiet \/ AcceptsServerdata) /\ Typed'
<1>1. /\ ReadsData("serverdata") /\ Parsed("client")
      /\ UNCHANGED <<reliableSent, spawncount, cgame, net>>
  BY DEF Serverdata
<1>2. /\ ClientHandles /\ Name(NextC) = "serverdata" /\ LevelOf(NextC) \in Level
      /\ CommandLevel("client") = LevelOf(NextC)
  BY <1>1, DataHandler
<1>3. CASE stC # "handshake"
  <2>1. UNCHANGED <<state, queue, executedTo, servercount, configstrings, baselines>>
    BY <1>3 DEF Serverdata, stC
  <2>2. exC' = exC /\ exC \in Nat /\ TypedCounters'
    BY <1>1, <2>1, OtherFields DEF Typed, TypedCounters, exC
  <2> QED BY <1>1, <1>2, <2>1, <2>2, ClientIgnores
<1>4. CASE stC = "handshake"
  <2> DEFINE cmd == Cmd("configstrings", LevelOf(NextC))
             q == Add(NewQueue, cmd)
  <2>1. /\ state' = [state EXCEPT !["client"] = "connected"]
        /\ queue' = [queue EXCEPT !["client"] = q]
        /\ executedTo' = [executedTo EXCEPT !["client"] = 0]
        /\ servercount' = LevelOf(NextC) /\ configstrings' = NoLevel /\ baselines' = NoLevel
    BY <1>2, <1>4 DEF Serverdata, stC
  <2>2. stC' = "connected" /\ stS' = stS /\ TypedState'
    BY <2>1, ClientState
  <2>3. cmd \in CommandsToServer
    BY <1>2 DEF CommandsToServer, Cmd
  <2>4. NewQueue \in QueueOf(CommandsToServer) /\ NewQueue.commands = <<>>
    BY DEF NewQueue, QueueOf
  <2> HIDE DEF cmd
  <2>5. q \in QueueOf(CommandsToServer) /\ q.commands = Append(<<>>, cmd)
    BY <2>3, <2>4, AddFields
  <2> HIDE DEF q
  <2>6. C' = q.commands /\ QueuedS' = QueuedS /\ TypedQueues'
    BY <1>1, <2>1, <2>5, ClientQueue
  <2>7. \A x \in QueuedC' : x.command = cmd
    <3>1. C' = <<cmd>>
      BY <2>5, <2>6
    <3> QED BY <3>1 DEF QueuedC, Numbered, Item
  <2>8. {servercount', configstrings', baselines', cgame'} \subseteq Level \cup {NoLevel}
    BY <1>1, <1>2, <2>1, OtherFields
  <2>9. exC' = 0 /\ TypedCounters'
    BY <1>1, <2>1, <2>8, ClientExecuted
  <2>10. ClientAdds({cmd})
    BY <2>7 DEF ClientAdds
  <2>11. ServerKept /\ Typed'
    BY <1>1, <1>2, <2>2, <2>6, <2>9, <2>10, ClientHandled
  <2>12. AcceptsServerdata
    BY <1>1, <1>2, <1>4, <2>1, <2>2, <2>7, <2>9, <2>11
       DEF AcceptsServerdata, ClientHandles, cmd
  <2> QED BY <2>11, <2>12
<1> QED BY <1>3, <1>4

\* The commands that the client executes.
LEMMA ExecutingRaises ==
    ASSUME Typed, NEW name, ClientCommand(name)
    PROVE  ClientHandles /\ TypedCounters' /\ exC <= exC' /\ Name(NextC) = name /\ ClientExecutes
<1>1. NextC.number \in Nat /\ exC \in Nat
  BY OtherFields DEF ClientCommand, ClientHandles, ClientWord
<1> QED BY <1>1 DEF ClientCommand, ClientExecutes

LEMMA CsEffect == ASSUME Typed, Cs \/ UpdateCs PROVE ClientIsQuiet /\ Typed'
<1>1. PICK name : Reads("client", name)
  BY DEF Cs, UpdateCs
<1>2. /\ executedTo' = Executed("client") /\ Parsed("client")
      /\ UNCHANGED <<state, queue, reliableSent, net>>
      /\ UNCHANGED <<spawncount, servercount, baselines, cgame>>
      /\ configstrings' \in {configstrings, CommandLevel("client")}
  BY DEF Cs, UpdateCs, clientVars
<1>3. parsing["client"] # <<>>
  BY <1>1 DEF Reads
<1>4. ClientHandles
  BY <1>2, <1>3, ClientHandler
<1>5. {servercount', configstrings', baselines', cgame'} \subseteq Level \cup {NoLevel}
  BY <1>2, <1>4, OtherFields DEF ClientHandles
<1>6. ClientCommand(name)
  BY <1>1, <1>2, <1>5, ClientCommandHandler
<1>7. TypedCounters' /\ exC <= exC'
  BY <1>6, ExecutingRaises
<1> QED BY <1>2, <1>4, <1>7, ClientIgnores

LEMMA ForwardBaselinesEffect ==
    ASSUME Typed, ForwardBaselines
    PROVE  (ClientIsQuiet \/ AsksForBaselines) /\ Typed'
<1>1. /\ Reads("client", CmdBaselines) /\ executedTo' = Executed("client") /\ Parsed("client")
      /\ UNCHANGED <<state, reliableSent, spawncount, clientVars, net>>
  BY Zenon DEF ForwardBaselines, CmdBaselines
<1>2. UNCHANGED <<servercount, configstrings, baselines, cgame>>
      /\ {servercount', configstrings', baselines', cgame'} \subseteq Level \cup {NoLevel}
  BY <1>1, OtherFields DEF clientVars
<1>3. /\ ClientHandles /\ TypedCounters' /\ exC <= exC' /\ Name(NextC) = CmdBaselines
      /\ ClientExecutes
  BY <1>1, <1>2, ClientCommandHandler, ExecutingRaises
<1>4. CASE stC = "handshake"
  <2>1. queue' = queue
    BY <1>4 DEF ForwardBaselines, stC
  <2> QED BY <1>1, <1>2, <1>3, <2>1, ClientIgnores
<1>5. CASE stC # "handshake"
  <2>1. LevelOf(NextC) \in Level /\ CommandLevel("client") = LevelOf(NextC)
        /\ stC # "disconnected"
    BY <1>3, CmdBaselinesIsOther, Zenon DEF ClientWord, ClientHandles
  <2>2. queue' = [queue EXCEPT !["client"] =
                     Add(queue["client"], Cmd("baselines", LevelOf(NextC)))]
    BY <1>5, <2>1 DEF ForwardBaselines, stC
  <2>3. Cmd("baselines", LevelOf(NextC)) \in CommandsToServer
    BY <2>1 DEF CommandsToServer, Cmd
  <2>4. /\ ClientAdds({Cmd("baselines", LevelOf(NextC))}) /\ QueuedS' = QueuedS /\ TypedQueues'
    BY <1>1, <2>2, <2>3, ClientQueueGrows
  <2>5. stS' = stS /\ stC' = stC /\ TypedState'
    BY <1>1, StateKept DEF Typed
  <2>6. ClientMakes({Cmd("baselines", LevelOf(NextC))}) /\ Typed'
    BY <1>1, <1>3, <2>1, <2>4, <2>5, ClientHandled
  <2>7. AsksForBaselines
    BY <1>2, <1>3, <1>5, <2>5, <2>6 DEF AsksForBaselines
  <2> QED BY <2>6, <2>7
<1> QED BY <1>4, <1>5

LEMMA PrecacheEffect == ASSUME Typed, Precache PROVE (ClientIsQuiet \/ LoadsLevel) /\ Typed'
<1>1. /\ Reads("client", "precache") /\ executedTo' = Executed("client") /\ Parsed("client")
      /\ UNCHANGED <<state, reliableSent, spawncount, servercount, configstrings, baselines, net>>
      /\ cgame' \in {cgame, CommandLevel("client")}
  BY DEF Precache
<1>2. parsing["client"] # <<>>
  BY <1>1 DEF Reads
<1>3. ClientHandles
  BY <1>1, <1>2, ClientHandler
<1>4. {servercount', configstrings', baselines', cgame'} \subseteq Level \cup {NoLevel}
  BY <1>1, <1>3, OtherFields DEF ClientHandles
<1>5. TypedCounters' /\ exC <= exC' /\ Name(NextC) = "precache" /\ ClientExecutes
  BY <1>1, <1>4, ClientCommandHandler, ExecutingRaises
<1>6. CASE stC # "connected"
  <2>1. queue' = queue /\ cgame' = cgame
    BY <1>6 DEF Precache, stC
  <2> QED BY <1>1, <1>3, <1>5, <2>1, ClientIgnores
<1>7. CASE stC = "connected"
  <2>1. LevelOf(NextC) \in Level /\ CommandLevel("client") = LevelOf(NextC)
    BY <1>3, <1>5 DEF ClientWord, ClientHandles
  <2>2. /\ queue' = [queue EXCEPT !["client"] =
                        Add(queue["client"], Cmd("begin", LevelOf(NextC)))]
        /\ cgame' = LevelOf(NextC)
    BY <1>7, <2>1 DEF Precache, stC
  <2>3. Cmd("begin", LevelOf(NextC)) \in CommandsToServer
    BY <2>1 DEF CommandsToServer, Cmd
  <2>4. ClientAdds({Cmd("begin", LevelOf(NextC))}) /\ QueuedS' = QueuedS /\ TypedQueues'
    BY <1>1, <2>2, <2>3, ClientQueueGrows
  <2>5. stS' = stS /\ stC' = stC /\ TypedState'
    BY <1>1, StateKept DEF Typed
  <2>6. ClientMakes({Cmd("begin", LevelOf(NextC))}) /\ Typed'
    BY <1>1, <1>3, <1>5, <1>7, <2>4, <2>5, ClientHandled
  <2>7. LoadsLevel
    BY <1>1, <1>5, <1>7, <2>2, <2>5, <2>6 DEF LoadsLevel
  <2> QED BY <2>6, <2>7
<1> QED BY <1>6, <1>7

LEMMA ChangingEffect == ASSUME Typed, Changing PROVE ReadsChanging /\ Typed'
<1>1. /\ Reads("client", "changing") /\ executedTo' = Executed("client") /\ Parsed("client")
      /\ state' = [state EXCEPT !["client"] = "connected"] /\ configstrings' = NoLevel
      /\ UNCHANGED <<queue, reliableSent, spawncount, servercount, baselines, cgame, net>>
  BY DEF Changing
<1>2. {servercount', configstrings', baselines', cgame'} \subseteq Level \cup {NoLevel}
  BY <1>1, OtherFields
<1>3. ClientHandles /\ TypedCounters' /\ Name(NextC) = "changing" /\ ClientExecutes
  BY <1>1, <1>2, ClientCommandHandler, ExecutingRaises
<1>4. stC' = "connected" /\ stS' = stS /\ TypedState'
  BY <1>1, ClientState
<1>5. QueuedS' = QueuedS /\ ClientAdds({}) /\ TypedQueues'
  BY <1>1, QueueKept DEF Typed
<1>6. ClientMakes({}) /\ Typed'
  BY <1>1, <1>3, <1>4, <1>5, ClientHandled
<1> QED BY <1>1, <1>3, <1>4, <1>6 DEF ReadsChanging

LEMMA ReconnectEffect ==
    ASSUME Typed, ServerReconnect
    PROVE  (ClientIsQuiet \/ GoesBack) /\ Typed'
<1>1. /\ Reads("client", "reconnect") /\ executedTo' = Executed("client") /\ Parsed("client")
      /\ UNCHANGED <<reliableSent, spawncount, servercount, baselines, net>>
      /\ configstrings' \in {configstrings, NoLevel} /\ cgame' \in {cgame, NoLevel}
  BY DEF ServerReconnect
<1>2. {servercount', configstrings', baselines', cgame'} \subseteq Level \cup {NoLevel}
  BY <1>1, OtherFields
<1>3. /\ ClientHandles /\ TypedCounters' /\ exC <= exC' /\ Name(NextC) = "reconnect"
      /\ ClientExecutes
  BY <1>1, <1>2, ClientCommandHandler, ExecutingRaises
<1>4. CASE stC = "handshake"
  <2>1. UNCHANGED <<state, queue, cgame>>
    BY <1>4 DEF ServerReconnect, stC
  <2> QED BY <1>1, <1>3, <2>1, ClientIgnores
<1>5. CASE stC # "handshake"
  <2>1. /\ state' = [state EXCEPT !["client"] = "handshake"]
        /\ queue' = [queue EXCEPT !["client"] = Add(queue["client"], Cmd("new", NoLevel))]
        /\ cgame' = NoLevel
    BY <1>5 DEF ServerReconnect, stC
  <2>2. stC' = "handshake" /\ stS' = stS /\ TypedState'
    BY <2>1, ClientState
  <2>3. Cmd("new", NoLevel) \in CommandsToServer
    BY DEF CommandsToServer, Cmd
  <2>4. ClientAdds({Cmd("new", NoLevel)}) /\ QueuedS' = QueuedS /\ TypedQueues'
    BY <1>1, <2>1, <2>3, ClientQueueGrows
  <2>5. ClientMakes({Cmd("new", NoLevel)}) /\ Typed'
    BY <1>1, <1>3, <2>2, <2>4, ClientHandled
  <2>6. GoesBack
    BY <1>1, <1>3, <2>1, <2>2, <2>5 DEF GoesBack
  <2> QED BY <2>5, <2>6
<1> QED BY <1>4, <1>5

LEMMA DisconnectEffect == ASSUME Typed, ServerDisconnect PROVE Disconnects /\ Typed'
<1>1. /\ Reads("client", "disconnect") /\ executedTo' = Executed("client")
      /\ state' = [state EXCEPT !["client"] = "disconnected"]
      /\ parsing' = [parsing EXCEPT !["client"] = <<>>]
      /\ UNCHANGED <<queue, reliableSent, spawncount, clientVars, net>>
  BY DEF ServerDisconnect
<1>2. PC # <<>> /\ Name(NextC) = "disconnect" /\ exC < NextC.number
      /\ executedTo' = [executedTo EXCEPT !["client"] = NextC.number]
  BY <1>1 DEF Reads, Name, NextC, PC, exC, Executed
<1>3. NextC \in ItemsToClient /\ NextC \in ToClient
  <2>1. PC \in Seq(ItemsToClient)
    BY StreamFields
  <2>2. Head(PC) \in Items(PC, NC) /\ Head(PC) \in ItemsToClient
    BY <1>2, <2>1, ReadNext, TailElements
  <2> QED BY <2>2 DEF NextC, ToClient
<1>4. NextC.number \in Nat /\ exC \in Nat
  BY <1>3, ClientItem, OtherFields DEF ClientWord
<1>5. TypedParsing' /\ PC' = <<>> /\ PS' = PS
  BY <1>1, ParsesMessage, InAnything, Ends
<1>6. stC' = "disconnected" /\ stS' = stS /\ TypedState'
  BY <1>1, ClientState
<1>7. QueuedS' = QueuedS /\ ClientAdds({}) /\ TypedQueues'
  BY <1>1, QueueKept DEF Typed
<1>8. /\ {servercount', configstrings', baselines', cgame'} \subseteq Level \cup {NoLevel}
      /\ UNCHANGED <<servercount, cgame>>
  BY <1>1, OtherFields DEF clientVars
<1>9. exC' = NextC.number /\ TypedCounters'
  BY <1>1, <1>2, <1>4, <1>8, ClientExecuted
<1>10. NS' = NS /\ NC' = NC /\ TypedNet'
  BY <1>1, NetKept DEF Typed
<1>11. ToClientShrinks
  BY <1>5, <1>10, DropRest DEF NoMore, ToClientShrinks, ToClient, OrderC
<1>12. \A E : ToServerGrows(E)
  BY <1>5, <1>10, ServerUntouched
<1>13. Disconnects
  BY <1>1, <1>2, <1>3, <1>4, <1>6, <1>7, <1>8, <1>9, <1>11, <1>12
     DEF Disconnects, ClientMakes, ServerKept
<1>14. (stS' = "zombie" => PS' = <<>>)
  BY <1>5, <1>6 DEF Typed
<1> QED BY <1>5, <1>6, <1>7, <1>9, <1>10, <1>13, <1>14 DEF Typed

\* The steps of Next, one by one.
LEMMA StepEffects ==
    ASSUME Typed, Next
    PROVE  (ServerEffects \/ ClientEffects) /\ Typed'
<1>1. CASE ServerSend
  BY <1>1, ServerSendEffect DEF ServerEffects
<1>2. CASE ServerReceive
  BY <1>2, ServerReceiveEffect DEF ServerEffects
<1>3. CASE SkipOld("server")
  BY <1>3, ServerSkipEffect DEF ServerEffects
<1>4. CASE New
  BY <1>4, NewEffect DEF ServerEffects
<1>5. CASE Configstrings
  BY <1>5, ConfigstringsEffect DEF ServerEffects
<1>6. CASE Baselines
  BY <1>6, BaselinesEffect DEF ServerEffects
<1>7. CASE Begin
  BY <1>7, BeginEffect DEF ServerEffects
<1>8. CASE Request
  BY <1>8, RequestEffect DEF ServerEffects
<1>9. CASE Update
  BY <1>9, UpdateEffect DEF ServerEffects
<1>10. CASE ChangeLevel
  BY <1>10, ChangeLevelEffect DEF ServerEffects
<1>11. CASE ClientSend
  BY <1>11, ClientSendEffect DEF ClientEffects
<1>12. CASE ClientReceive
  BY <1>12, ClientReceiveEffect DEF ClientEffects
<1>13. CASE SkipOld("client")
  BY <1>13, ClientSkipEffect DEF ClientEffects
<1>14. CASE Serverdata
  BY <1>14, ServerdataEffect DEF ClientEffects
<1>15. CASE ParseBaseline
  BY <1>15, BaselineEffect DEF ClientEffects
<1>16. CASE Frame
  BY <1>16, FrameEffect DEF ClientEffects
<1>17. CASE Cs \/ UpdateCs
  BY <1>17, CsEffect DEF ClientEffects
<1>18. CASE ForwardBaselines
  BY <1>18, ForwardBaselinesEffect DEF ClientEffects
<1>19. CASE Precache
  BY <1>19, PrecacheEffect DEF ClientEffects
<1>20. CASE Changing
  BY <1>20, ChangingEffect DEF ClientEffects
<1>21. CASE ServerReconnect
  BY <1>21, ReconnectEffect DEF ClientEffects
<1>22. CASE ServerDisconnect
  BY <1>22, DisconnectEffect DEF ClientEffects
<1>23. CASE RequestOfPlayer
  BY <1>23, RequestOfPlayerEffect DEF ClientEffects
<1> QED BY <1>1, <1>2, <1>3, <1>4, <1>5, <1>6, <1>7, <1>8, <1>9, <1>10, <1>11, <1>12, <1>13,
           <1>14, <1>15, <1>16, <1>17, <1>18, <1>19, <1>20, <1>21, <1>22, <1>23
        DEF Next, ServerParses, ClientParses

(***************************************************************************)
(* What a step of the server adds to what is on its way to the client.     *)
(***************************************************************************)
LEMMA OrderMembers ==
    ASSUME NEW p, NEW n, NEW x, NEW y, <<x, y>> \in Order(p, n)
    PROVE  x \in Items(p, n) /\ y \in Items(p, n)
<1>1. CASE <<x, y>> \in InBody(p)
  BY <1>1, InBodyElements DEF Items
<1>2. ASSUME NEW m \in Elements(n), <<x, y>> \in InBody(m.items)
      PROVE  x \in Items(p, n) /\ y \in Items(p, n)
  <2>1. x \in Elements(m.items) /\ y \in Elements(m.items)
    BY <1>2, InBodyElements
  <2> QED BY <2>1 DEF Items
<1>3. ASSUME NEW w \in Followed(p, n), <<x, y>> \in {w[1]} \X Elements(w[2].items)
      PROVE  x \in Items(p, n) /\ y \in Items(p, n)
  <2>1. x = w[1] /\ y \in Elements(w[2].items)
    BY <1>3
  <2>2. CASE w \in Elements(p) \X Elements(n)
    <3>1. w[1] \in Elements(p) /\ w[2] \in Elements(n)
      BY <2>2
    <3> QED BY <2>1, <3>1 DEF Items
  <2>3. ASSUME NEW v \in InBody(n), w \in Elements(v[1].items) \X {v[2]}
        PROVE  x \in Items(p, n) /\ y \in Items(p, n)
    <3>1. v[1] \in Elements(n) /\ v[2] \in Elements(n)
      BY InBodyElements
    <3>2. w[1] \in Elements(v[1].items) /\ w[2] = v[2]
      BY <2>3
    <3> QED BY <2>1, <3>1, <3>2 DEF Items
  <2> QED BY <2>2, <2>3 DEF Followed
<1> QED BY <1>1, <1>2, <1>3 DEF Order, Within

FreshItem(x) ==
    /\ LevelOf(x) \in {NoLevel, spawncount}
    /\ x \in QueuedS' => x.number > Len(S)
    /\ x.type = "command" \/ IsRestart(x) => x \in QueuedS'
    /\ IsServerdata(x) => LevelOf(x) = spawncount /\ QueuedS' = {}
    /\ OfThisLevel(x) => ServerSendsFrame \/ ServerServes
    /\ IsRestart(x) => ServerRefuses \/ ChangesLevel
    /\ Name(x) = "frame" => ServerSendsFrame
    /\ Name(x) = "disconnect" => ServerDrops

ServerAddsFresh ==
    /\ \A x \in QueuedS' : x \in QueuedS \/ FreshItem(x)
    /\ \A x \in ToClient' : x \in ToClient \cup QueuedS \/ FreshItem(x)
    /\ \A x, y : <<x, y>> \in OrderC' =>
          <<x, y>> \in OrderC \/ y \in QueuedS \cap QueuedS' \/ FreshItem(y)

LEMMA NamedCommand ==
    ASSUME NEW x, NEW n, NEW l, x.command = Cmd(n, l)
    PROVE  /\ Name(x) = n /\ (n = "update" => LevelOf(x) = NoLevel)
           /\ (n # "update" => LevelOf(x) = l)
BY DEF Cmd, Name, LevelOf

LEMMA DataNamed ==
    ASSUME NEW type, type # "update"
    PROVE  /\ DataItem(type).type = type /\ Name(DataItem(type)) = type
           /\ LevelOf(DataItem(type)) = spawncount
<1>1. DataItem(type).type = type /\ DataItem(type).command = Cmd(type, spawncount)
  BY DEF DataItem, Item
<1> QED BY <1>1, NamedCommand

\* Commands T and data D that are all fresh.
LEMMA MakesFresh ==
    ASSUME NEW T, NEW D, ServerMakes(T, D), \A x \in D : FreshItem(x),
           \A x \in QueuedS' : x.command \in T /\ x.number > Len(S) => FreshItem(x)
    PROVE  ServerAddsFresh
<1>1. \A x \in QueuedS' : x \in QueuedS \/ FreshItem(x)
  BY DEF ServerMakes, ServerAdds
<1> QED BY <1>1 DEF ServerMakes, ToClientGrows, ServerAddsFresh

\* The commands are those of a numbering, as commands.
LEMMA QueuedIsCommand == \A x \in QueuedS' : x.type = "command"
<1>1. QueuedS' = Numbered(S')
  BY DEF QueuedS
<1> QED BY <1>1 DEF Numbered, Item

LEMMA ServerFresh ==
    ASSUME Typed, ServerEffects
    PROVE  /\ ServerAddsFresh /\ ClientKept /\ ToServerShrinks
           /\ spawncount' = spawncount \/ (ChangesLevel /\ spawncount' = spawncount + 1)
<1>1. CASE ServerIsQuiet
  <2>1. ServerMakes({}, {})
    BY <1>1 DEF ServerIsQuiet
  <2>2. ServerAddsFresh
    BY <2>1, MakesFresh
  <2> QED BY <1>1, <2>1, <2>2 DEF ServerIsQuiet, ServerMakes
<1>2. CASE ServerUpdates
  <2>1. ASSUME NEW x \in QueuedS', x.command \in {Cmd("update", spawncount)}, x.number > Len(S)
        PROVE  FreshItem(x)
    <3>1. Name(x) = "update" /\ LevelOf(x) = NoLevel
      BY <2>1, NamedCommand
    <3> QED BY <2>1, <3>1, QueuedIsCommand, OtherFields DEF FreshItem, IsServerdata, IsRestart, OfThisLevel
  <2>2. ServerMakes({Cmd("update", spawncount)}, {})
    BY <1>2 DEF ServerUpdates
  <2>3. ServerAddsFresh
    BY <2>1, <2>2, MakesFresh
  <2> QED BY <1>2, <2>2, <2>3 DEF ServerUpdates, ServerMakes
<1>3. CASE ServerSendsFrame
  <2> DEFINE x == DataItem("frame")
  <2>1. x.type = "frame" /\ Name(x) = "frame" /\ LevelOf(x) = spawncount
    BY DataNamed
  <2> HIDE DEF x
  <2>2. FreshItem(x)
    BY <1>3, <2>1, QueuedIsCommand DEF FreshItem, IsServerdata, IsRestart, ServerSendsFrame
  <2>3. ServerMakes({}, {x})
    BY <1>3 DEF x, ServerSendsFrame
  <2>4. ServerAddsFresh
    BY <2>2, <2>3, MakesFresh
  <2> QED BY <1>3, <2>3, <2>4 DEF ServerSendsFrame, ServerMakes
<1>4. CASE ServerRestarts
  <2> DEFINE x == DataItem("serverdata")
  <2>1. x.type = "serverdata" /\ Name(x) = "serverdata" /\ LevelOf(x) = spawncount
    BY DataNamed
  <2> HIDE DEF x
  <2>2. FreshItem(x)
    BY <1>4, <2>1, QueuedIsCommand DEF FreshItem, IsServerdata, IsRestart, OfThisLevel, ServerRestarts
  <2>3. ServerMakes({}, {x})
    BY <1>4 DEF x, ServerRestarts
  <2>4. ServerAddsFresh
    BY <2>2, <2>3, MakesFresh
  <2> QED BY <1>4, <2>3, <2>4 DEF ServerRestarts, ServerMakes
<1>5. CASE ServerServes
  <2> DEFINE d == DataItem("baselines")
  <2>1. d.type = "baselines" /\ Name(d) = "baselines" /\ LevelOf(d) = spawncount
    BY DataNamed
  <2> HIDE DEF d
  <2>2. FreshItem(d)
    BY <1>5, <2>1, QueuedIsCommand DEF FreshItem, IsServerdata, IsRestart
  <2>3. ASSUME NEW x \in QueuedS', x.command \in OfThisSpawn, x.number > Len(S)
        PROVE  FreshItem(x)
    <3>1. Name(x) \in {"cs", CmdBaselines, "precache"} /\ LevelOf(x) = spawncount
      BY <2>3, NamedCommand, CmdBaselinesIsOther DEF OfThisSpawn
    <3> QED BY <1>5, <2>3, <3>1, CmdBaselinesIsOther DEF FreshItem, IsServerdata, IsRestart
  <2>4. ServerMakes(OfThisSpawn, {d})
    BY <1>5 DEF d, ServerServes
  <2>5. ServerAddsFresh
    BY <2>2, <2>3, <2>4, MakesFresh
  <2> QED BY <1>5, <2>4, <2>5 DEF ServerServes, ServerMakes
<1>6. CASE ServerSpawns
  <2>1. ServerMakes({}, {})
    BY <1>6 DEF ServerSpawns
  <2>2. ServerAddsFresh
    BY <2>1, MakesFresh
  <2> QED BY <1>6, <2>1, <2>2 DEF ServerSpawns, ServerMakes
<1>7. ASSUME NEW x \in QueuedS', x.command \in Restarts, x.number > Len(S),
             ServerRefuses \/ ChangesLevel
      PROVE  FreshItem(x)
  <2>1. Name(x) \in {"changing", "reconnect"} /\ LevelOf(x) = NoLevel
    BY <1>7, NamedCommand DEF Restarts
  <2> QED BY <1>7, <2>1, QueuedIsCommand, OtherFields DEF FreshItem, IsServerdata, OfThisLevel
<1>8. CASE ServerRefuses
  <2>1. ServerMakes(Restarts, {})
    BY <1>8 DEF ServerRefuses
  <2>2. ServerAddsFresh
    BY <1>7, <1>8, <2>1, MakesFresh
  <2> QED BY <1>8, <2>1, <2>2 DEF ServerRefuses, ServerMakes
<1>9. CASE ServerDrops
  <2>1. ASSUME NEW x \in QueuedS', x.command \in {Cmd("disconnect", NoLevel)}, x.number > Len(S)
        PROVE  FreshItem(x)
    <3>1. Name(x) = "disconnect" /\ LevelOf(x) = NoLevel
      BY <2>1, NamedCommand
    <3> QED BY <1>9, <2>1, <3>1, QueuedIsCommand, OtherFields DEF FreshItem, IsServerdata, IsRestart, OfThisLevel
  <2>2. ServerMakes({Cmd("disconnect", NoLevel)}, {})
    BY <1>9 DEF ServerDrops
  <2>3. ServerAddsFresh
    BY <2>1, <2>2, MakesFresh
  <2> QED BY <1>9, <2>2, <2>3 DEF ServerDrops, ServerMakes
<1>10. CASE ChangesLevel
  <2>1. ServerMakes(Restarts, {})
    BY <1>10 DEF ChangesLevel
  <2>2. ServerAddsFresh
    BY <1>7, <1>10, <2>1, MakesFresh
  <2> QED BY <1>10, <2>1, <2>2 DEF ChangesLevel, ServerMakes
<1> QED BY <1>1, <1>2, <1>3, <1>4, <1>5, <1>6, <1>8, <1>9, <1>10 DEF ServerEffects

(***************************************************************************)
(* Each part of the invariant, for all steps of the server.                *)
(***************************************************************************)
LEMMA Parts ==
    ASSUME IInv
    PROVE  /\ Typed /\ Shapes /\ LevelsToClient /\ LevelsToServer /\ Frames
           /\ stS # "zombie" => Settled /\ Evidence /\ NoDisconnect
BY TypedShapes DEF IInv, Alive

\* What the levels are compared as.
LEMMA LevelsAreNumbers ==
    ASSUME IInv
    PROVE  /\ servercount \in Nat /\ spawncount \in Nat /\ NoLevel = 0 /\ spawncount # NoLevel
           /\ \A x \in ToServer \cup QueuedC : LevelOf(x) \in Nat
           /\ \A x \in ToClient \cup QueuedS :
                 LevelOf(x) \in Nat /\ (IsServerdata(x) \/ Name(x) \in ClientNames => LevelOf(x) # NoLevel)
           /\ \A x \in ToClient : Name(x) = "frame" => LevelOf(x) # NoLevel
           /\ \A x \in QueuedS : ~IsServerdata(x) /\ Name(x) # "frame"
                                 /\ x.number <= Len(S) /\ x.number \in Nat /\ Len(S) \in Nat
           /\ \A x \in ToClient \cup QueuedS : x.number \in Nat
           /\ exC \in Nat
<1>1. /\ servercount \in Nat /\ spawncount \in Nat /\ NoLevel = 0 /\ spawncount # NoLevel
      /\ exC \in Nat /\ Len(S) \in Nat
  BY Parts, OtherFields, QueueFields
<1>2. Shapes
  BY Parts
<1>3. \A x \in ToServer \cup QueuedC : LevelOf(x) \in Nat
  BY <1>2 DEF Shapes, ServerWord
<1>4. ASSUME NEW x \in ToClient \cup QueuedS
      PROVE  /\ LevelOf(x) \in Nat /\ x.number \in Nat
             /\ IsServerdata(x) \/ Name(x) = "frame" => LevelOf(x) # NoLevel /\ x.type # "command"
             /\ Name(x) \in ClientNames => LevelOf(x) # NoLevel
  <2>1. ClientWord(x)
    BY <1>2 DEF Shapes
  <2>2. ASSUME Name(x) \in {"changing", "reconnect", "disconnect", "update", "serverdata",
                            "baselines", "frame"}
        PROVE  Name(x) \notin ClientNames
    BY <2>2, CmdBaselinesIsOther DEF ClientNames
  <2>3. Name(x) \in ClientNames => LevelOf(x) \in Level
    BY <2>1, <2>2 DEF ClientWord
  <2>4. IsServerdata(x) \/ Name(x) = "frame" => LevelOf(x) \in Level /\ x.type = Name(x)
    BY <2>1, <2>2 DEF ClientWord, IsServerdata
  <2> QED BY <2>1, <2>3, <2>4, LevelIsPositive DEF ClientWord, IsServerdata
<1>5. ASSUME NEW x \in QueuedS
      PROVE  ~IsServerdata(x) /\ Name(x) # "frame" /\ x.number <= Len(S)
  BY <1>2, <1>4 DEF Shapes
<1> QED BY <1>1, <1>3, <1>4, <1>5

\* A step of the server that does not change the level.
StaysInLevel == IInv /\ ServerEffects /\ spawncount' = spawncount

LEMMA OfTheSpawned ==
    ASSUME IInv, stS = "spawned"
    PROVE  Good /\ Clean /\ cgame = spawncount /\ servercount = spawncount
BY Parts DEF Evidence, Good, Clean

LEMMA FreshIsClean ==
    ASSUME IInv, ServerEffects, NEW x, FreshItem(x), OfThisLevel(x)
    PROVE  servercount = spawncount /\ spawncount' = spawncount /\ Clean'
<1>1. ClientKept /\ ToServerShrinks
  BY Parts, ServerFresh
<1>2. CASE ServerSendsFrame
  <2>1. spawncount' = spawncount /\ Clean /\ servercount = spawncount
    BY <1>2, OfTheSpawned DEF ServerSendsFrame
  <2> QED BY <1>1, <2>1 DEF Clean, ClientKept, ToServerShrinks
<1>3. CASE ServerServes
  <2>1. /\ spawncount' = spawncount /\ NextS \in ToServer /\ LevelOf(NextS) = spawncount
        /\ \A y \in ToServer' : <<NextS, y>> \in OrderS
    BY <1>3 DEF ServerServes, ServerReads
  <2>2. servercount = spawncount
    BY <2>1, Parts, LevelsAreNumbers DEF LevelsToServer, LevelsToClient
  <2>3. ASSUME NEW y \in ToServer' PROVE LevelOf(y) = NoLevel \/ LevelOf(y) = spawncount
    <3>1. y \in ToServer /\ LevelOf(y) \in Nat /\ <<NextS, y>> \in OrderS
      BY <1>1, <2>1, LevelsAreNumbers DEF ToServerShrinks
    <3>2. LevelOf(y) = NoLevel \/ spawncount <= LevelOf(y)
      BY <2>1, <3>1, Parts DEF LevelsToServer
    <3>3. LevelOf(y) <= spawncount
      BY <2>2, <3>1, Parts DEF LevelsToServer
    <3> QED BY <3>1, <3>2, <3>3, LevelsAreNumbers
  <2>4. servercount' = servercount
    BY <1>1 DEF ClientKept
  <2> QED BY <2>1, <2>2, <2>3, <2>4 DEF Clean
<1> QED BY <1>2, <1>3 DEF FreshItem

\* The server sends the client back only when not all is clean.
LEMMA FreshRestart ==
    ASSUME IInv, ServerEffects, NEW x, FreshItem(x), IsRestart(x), spawncount' = spawncount
    PROVE  ServerRefuses /\ ~Clean
<1>1. ~ChangesLevel
  BY LevelsAreNumbers DEF ChangesLevel
<1>2. ServerRefuses
  BY <1>1 DEF FreshItem
<1>3. NextS \in ToServer /\ LevelOf(NextS) \notin {spawncount, NoLevel}
  BY <1>2 DEF ServerRefuses, ServerReads
<1> QED BY <1>2, <1>3 DEF Clean

LEMMA LevelsToClientByServer ==
    ASSUME IInv, ServerEffects
    PROVE  LevelsToClient'
<1>1. /\ ServerAddsFresh /\ ClientKept /\ servercount' = servercount
      /\ spawncount' \in Nat /\ spawncount <= spawncount'
  BY Parts, ServerFresh, LevelsAreNumbers DEF ClientKept
<1>2. /\ servercount \in Nat /\ spawncount \in Nat /\ NoLevel = 0 /\ spawncount # NoLevel
      /\ servercount <= spawncount
  BY Parts, LevelsAreNumbers DEF LevelsToClient
<1>3. ASSUME NEW x, FreshItem(x)
      PROVE  /\ LevelOf(x) = NoLevel \/ LevelOf(x) = spawncount
             /\ IsServerdata(x) => LevelOf(x) = spawncount /\ QueuedS' = {}
             /\ IsServerdata(x) \/ LevelOf(x) = NoLevel \/ servercount = spawncount
  BY <1>3, FreshIsClean DEF FreshItem, OfThisLevel
<1>4. ASSUME NEW x \in ToClient' \cup QueuedS'
      PROVE  /\ IsServerdata(x) => servercount <= LevelOf(x) /\ LevelOf(x) <= spawncount
             /\ IsServerdata(x) \/ LevelOf(x) = NoLevel \/ LevelOf(x) = servercount
  <2>1. CASE x \in ToClient \cup QueuedS
    BY <2>1, Parts DEF LevelsToClient
  <2>2. CASE FreshItem(x)
    BY <1>2, <1>3, <2>2
  <2> QED BY <1>1, <1>4, <2>1, <2>2 DEF ServerAddsFresh
<1>5. \A x \in ToClient' \cup QueuedS' : IsServerdata(x) => LevelOf(x) \in Nat
  BY <1>1, <1>2, <1>3, LevelsAreNumbers DEF ServerAddsFresh
<1>6. ASSUME NEW x \in ToClient', NEW y \in ToClient', IsServerdata(x), <<x, y>> \in OrderC'
      PROVE  /\ IsServerdata(y) => LevelOf(x) <= LevelOf(y)
             /\ IsServerdata(y) \/ LevelOf(y) = NoLevel \/ LevelOf(x) <= servercount
  <2>1. CASE <<x, y>> \in OrderC
    <3>1. x \in ToClient /\ y \in ToClient
      BY <2>1, OrderMembers DEF OrderC, ToClient
    <3> QED BY <1>6, <2>1, <3>1, Parts DEF LevelsToClient
  <2>2. CASE FreshItem(y)
    BY <1>2, <1>3, <1>4, <1>6, <2>2
  <2>3. CASE y \in QueuedS \cap QueuedS'
    <3>1. ~IsServerdata(y)
      BY <2>3, LevelsAreNumbers
    <3>2. CASE x \in ToClient
      BY <1>6, <2>3, <3>1, <3>2, Parts DEF LevelsToClient
    <3>3. CASE x \in QueuedS
      BY <1>6, <3>3, LevelsAreNumbers
    <3>4. CASE FreshItem(x)
      BY <1>3, <1>6, <2>3, <3>4
    <3> QED BY <1>1, <1>6, <3>2, <3>3, <3>4 DEF ServerAddsFresh
  <2> QED BY <1>1, <1>6, <2>1, <2>2, <2>3 DEF ServerAddsFresh
<1>7. ASSUME NEW x \in QueuedS', NEW y \in ToClient', IsServerdata(y)
      PROVE  LevelOf(x) = NoLevel \/ LevelOf(y) <= servercount
  <2>1. CASE FreshItem(y)
    BY <1>3, <1>7, <2>1
  <2>2. CASE FreshItem(x)
    <3>1. ~IsServerdata(x)
      BY <1>3, <1>7, <2>2
    <3> QED BY <1>2, <1>3, <1>4, <1>7, <2>2, <3>1
  <2>3. CASE x \in QueuedS /\ y \in ToClient
    BY <1>7, <2>3, Parts DEF LevelsToClient
  <2>4. y \notin QueuedS
    BY <1>7, LevelsAreNumbers
  <2> QED BY <1>1, <1>7, <2>1, <2>2, <2>3, <2>4 DEF ServerAddsFresh
<1>8. \A x \in ToClient' \cup QueuedS' :
          /\ IsServerdata(x) => servercount' <= LevelOf(x) /\ LevelOf(x) <= spawncount'
          /\ IsServerdata(x) \/ LevelOf(x) = NoLevel \/ LevelOf(x) = servercount'
  BY <1>1, <1>2, <1>4, <1>5
<1>9. servercount' <= spawncount'
  BY <1>1, <1>2
<1> QED BY <1>1, <1>6, <1>7, <1>8, <1>9 DEF LevelsToClient

LEMMA LevelsToServerByServer ==
    ASSUME IInv, ServerEffects
    PROVE  LevelsToServer'
<1>1. ClientKept /\ ToServerShrinks /\ LevelsToServer
  BY Parts, ServerFresh
<1> QED BY <1>1 DEF LevelsToServer, ClientKept, ToServerShrinks

LEMMA FramesByServer ==
    ASSUME IInv, ServerEffects
    PROVE  Frames'
<1>1. ServerAddsFresh /\ UNCHANGED <<exC, stC, servercount, cgame>>
  BY Parts, ServerFresh DEF ClientKept
<1>2. ASSUME NEW x, FreshItem(x), Name(x) = "frame"
      PROVE  /\ ServerSendsFrame /\ spawncount' = spawncount
             /\ Good /\ Clean /\ cgame = servercount /\ stC # "handshake"
  <2>1. ServerSendsFrame /\ stS = "spawned" /\ spawncount' = spawncount
    BY <1>2 DEF FreshItem, ServerSendsFrame
  <2> QED BY <2>1, OfTheSpawned DEF Good
<1>3. ASSUME NEW x \in ToClient', Name(x) = "frame"
      PROVE  cgame = servercount /\ stC # "handshake"
  <2>1. CASE x \in ToClient
    BY <1>3, <2>1, Parts DEF Frames
  <2>2. CASE FreshItem(x)
    BY <1>2, <1>3, <2>2
  <2>3. x \notin QueuedS
    BY <1>3, LevelsAreNumbers
  <2> QED BY <1>1, <1>3, <2>1, <2>2, <2>3 DEF ServerAddsFresh
<1>4. ASSUME NEW x \in ToClient', NEW y \in ToClient', Name(y) = "frame", Due(x), <<x, y>> \in OrderC'
      PROVE  FALSE
  <2>1. CASE <<x, y>> \in OrderC
    <3>1. x \in ToClient /\ y \in ToClient
      BY <2>1, OrderMembers DEF OrderC, ToClient
    <3> QED BY <1>4, <2>1, <3>1, Parts DEF Frames
  <2>2. CASE FreshItem(y)
    <3>1. Good /\ Clean /\ spawncount' = spawncount
      BY <1>2, <1>4, <2>2
    <3>2. CASE x \in ToClient \cup QueuedS
      BY <1>4, <3>1, <3>2 DEF Good
    <3>3. CASE FreshItem(x)
      BY <1>4, <3>1, <3>3, FreshRestart DEF Due
    <3> QED BY <1>1, <1>4, <3>2, <3>3 DEF ServerAddsFresh
  <2>3. y \notin QueuedS
    BY <1>4, LevelsAreNumbers
  <2> QED BY <1>1, <1>4, <2>1, <2>2, <2>3 DEF ServerAddsFresh
<1>5. stC = "active" => cgame = servercount
  BY Parts DEF Frames
<1>6. \A x : Due(x)' <=> Due(x)
  BY <1>1 DEF Due
<1> QED BY <1>1, <1>3, <1>4, <1>5, <1>6 DEF Frames

\* And for the client that was not dropped, and is not now.
ServerKeepsClient == StaysInLevel /\ stS # "zombie" /\ stS' # "zombie"

LEMMA GoodByServer ==
    ASSUME ServerKeepsClient
    PROVE  (Clean => Clean') /\ (Good => Good')
<1>1. /\ IInv /\ ServerEffects /\ spawncount' = spawncount /\ ServerAddsFresh
      /\ ToServerShrinks /\ UNCHANGED <<exC, stC, servercount>>
  BY Parts, ServerFresh DEF ServerKeepsClient, StaysInLevel, ClientKept
<1>2. Clean => Clean'
  BY <1>1 DEF Clean, ToServerShrinks
<1>3. ASSUME Good, NEW x \in ToClient' \cup QueuedS' PROVE ~Due(x)
  <2>1. CASE x \in ToClient \cup QueuedS
    BY <1>3, <2>1 DEF Good
  <2>2. CASE FreshItem(x)
    BY <1>1, <1>3, <2>2, FreshRestart DEF Good, Due
  <2> QED BY <1>1, <1>3, <2>1, <2>2 DEF ServerAddsFresh
<1>4. \A x : Due(x)' <=> Due(x)
  BY <1>1 DEF Due
<1> QED BY <1>1, <1>2, <1>3, <1>4 DEF Good

LEMMA NumberedNumber == \A q : \A x \in Numbered(q) : x.number \in 1..Len(q)
BY DEF Numbered, Item

LEMMA SettledByServer ==
    ASSUME ServerKeepsClient
    PROVE  Settled'
<1>1. /\ IInv /\ ServerEffects /\ spawncount' = spawncount /\ ServerAddsFresh /\ Settled
  BY Parts, ServerFresh DEF ServerKeepsClient, StaysInLevel
<1>2. ASSUME NEW x \in ToClient' \cup QueuedS', OfThisLevel(x) PROVE Clean'
  <2>1. CASE x \in ToClient \cup QueuedS
    BY <1>1, <1>2, <2>1, GoodByServer DEF Settled
  <2>2. CASE FreshItem(x)
    BY <1>1, <1>2, <2>2, FreshIsClean
  <2> QED BY <1>1, <1>2, <2>1, <2>2 DEF ServerAddsFresh
<1>3. ASSUME NEW x \in ToClient' \cup QueuedS', NEW y, FreshItem(y) PROVE Outlives(x, y)
  <2> SUFFICES ASSUME x.type = "command", OfThisLevel(x), IsRestart(y) PROVE FALSE
    BY DEF Outlives
  <2>1. ServerRefuses /\ ~Clean
    BY <1>1, <1>3, FreshRestart
  <2>2. CASE x \in ToClient \cup QueuedS
    BY <1>1, <2>1, <2>2 DEF Settled
  <2>3. CASE FreshItem(x)
    <3>1. ServerSendsFrame \/ ServerServes
      BY <2>3 DEF FreshItem
    <3>2. CASE ServerSendsFrame
      BY <1>1, <2>1, <3>2, OfTheSpawned DEF ServerSendsFrame
    <3>3. CASE ServerServes
      BY <2>1, <3>3 DEF ServerServes, ServerRefuses
    <3> QED BY <3>1, <3>2, <3>3
  <2> QED BY <1>1, <1>3, <2>2, <2>3 DEF ServerAddsFresh
<1>4. ASSUME NEW x \in ToClient' \cup QueuedS', NEW y \in QueuedS PROVE Outlives(x, y)
  <2> SUFFICES ASSUME x.type = "command", OfThisLevel(x), IsRestart(y) PROVE y.number < x.number
    BY DEF Outlives
  <2>1. y.number <= Len(S) /\ y.number \in Nat /\ Len(S) \in Nat
    BY <1>1, LevelsAreNumbers
  <2>2. CASE x \in ToClient \cup QueuedS
    BY <1>1, <2>2 DEF Settled, Outlives
  <2>3. CASE FreshItem(x)
    <3>1. x.number > Len(S) /\ x \in QueuedS'
      BY <2>3 DEF FreshItem
    <3>2. x.number \in Nat
      BY <1>1, <3>1, NumberedNumber DEF QueuedS
    <3> QED BY <2>1, <3>1, <3>2
  <2> QED BY <1>1, <1>4, <2>2, <2>3 DEF ServerAddsFresh
<1>5. ASSUME NEW x \in ToClient' \cup QueuedS', NEW y \in QueuedS' PROVE Outlives(x, y)
  BY <1>1, <1>3, <1>4, <1>5 DEF ServerAddsFresh
<1>6. ASSUME NEW x \in ToClient', NEW y \in ToClient', <<x, y>> \in OrderC' PROVE Outlives(x, y)
  <2>1. CASE <<x, y>> \in OrderC
    <3>1. x \in ToClient /\ y \in ToClient
      BY <2>1, OrderMembers DEF OrderC, ToClient
    <3> QED BY <1>1, <2>1, <3>1 DEF Settled
  <2> QED BY <1>1, <1>3, <1>4, <1>6, <2>1 DEF ServerAddsFresh
<1>7. \A x, y : (OfThisLevel(x)' <=> OfThisLevel(x)) /\ (Outlives(x, y)' <=> Outlives(x, y))
  BY <1>1 DEF OfThisLevel, Outlives
<1> QED BY <1>2, <1>5, <1>6, <1>7 DEF Settled

LEMMA EvidenceByServer ==
    ASSUME ServerKeepsClient
    PROVE  Evidence' /\ NoDisconnect'
<1>1. /\ IInv /\ ServerEffects /\ spawncount' = spawncount /\ ServerAddsFresh /\ Evidence
      /\ NoDisconnect /\ ToServerShrinks /\ UNCHANGED <<QueuedC, stC, cgame>>
  BY Parts, ServerFresh DEF ServerKeepsClient, StaysInLevel, ClientKept
<1>2. Good => Good'
  BY GoodByServer
<1>3. ASSUME NEW x \in ToServer' \cup QueuedC' PROVE Asks(x)'
  <2>1. x \in ToServer \cup QueuedC
    BY <1>1, <1>3 DEF ToServerShrinks
  <2>2. Asks(x)
    BY <1>1, <2>1 DEF Evidence
  <2> QED BY <1>1, <1>2, <2>2 DEF Asks
<1>4. ASSUME stS' = "spawned" PROVE Good' /\ cgame' = spawncount'
  <2>1. CASE stS = "spawned"
    BY <1>1, <1>2, <2>1 DEF Evidence
  <2>2. CASE ServerSpawns
    <3>1. NextS \in ToServer /\ Name(NextS) = "begin" /\ LevelOf(NextS) = spawncount
      BY <2>2 DEF ServerSpawns, ServerReads
    <3>2. Asks(NextS)
      BY <1>1, <3>1 DEF Evidence
    <3> QED BY <1>1, <1>2, <3>1, <3>2 DEF Asks
  <2> QED BY <1>1, <1>4, <2>1, <2>2
          DEF ServerEffects, ServerIsQuiet, ServerUpdates, ServerSendsFrame, ServerRestarts,
              ServerServes, ServerRefuses, ServerDrops, ChangesLevel
<1>5. ~ServerDrops
  BY DEF ServerKeepsClient, ServerDrops
<1>6. NoDisconnect'
  BY <1>1, <1>5 DEF NoDisconnect, ServerAddsFresh, FreshItem
<1> QED BY <1>3, <1>4, <1>6 DEF Evidence

\* When the level changes, nothing on its way is of the new one.
LEMMA AliveInNewLevel ==
    ASSUME IInv, ChangesLevel
    PROVE  stS # "zombie" => Alive'
<1>1. /\ ServerAddsFresh /\ ToServerShrinks /\ UNCHANGED <<QueuedC, stC, servercount>>
      /\ spawncount' = spawncount + 1 /\ stS' = "connecting" /\ ServerEffects
  BY Parts, ServerFresh DEF ClientKept, ChangesLevel, ServerEffects
<1>2. /\ servercount \in Nat /\ spawncount \in Nat /\ NoLevel = 0 /\ servercount <= spawncount
  BY Parts, LevelsAreNumbers DEF LevelsToClient
<1>3. ASSUME NEW x \in ToClient' \cup QueuedS', OfThisLevel(x)' PROVE FALSE
  <2>1. ~IsServerdata(x) /\ LevelOf(x) = spawncount + 1
    BY <1>1, <1>3 DEF OfThisLevel
  <2>2. CASE x \in ToClient \cup QueuedS
    BY <1>2, <2>1, <2>2, Parts DEF LevelsToClient
  <2>3. CASE FreshItem(x)
    BY <1>2, <2>1, <2>3 DEF FreshItem
  <2> QED BY <1>1, <1>3, <2>2, <2>3 DEF ServerAddsFresh
<1>4. Settled'
  BY <1>3 DEF Settled, Outlives
<1>5. ASSUME NEW x \in ToServer' \cup QueuedC' PROVE Asks(x)'
  <2>1. x \in ToServer \cup QueuedC
    BY <1>1, <1>5 DEF ToServerShrinks
  <2>2. LevelOf(x) # spawncount + 1
    BY <1>2, <2>1, Parts, LevelsAreNumbers DEF LevelsToServer
  <2> QED BY <1>1, <2>2 DEF Asks
<1>6. Evidence'
  BY <1>1, <1>5 DEF Evidence
<1>7. ~ServerDrops
  BY <1>1 DEF ServerDrops
<1>8. stS # "zombie" => NoDisconnect'
  BY <1>1, <1>7, Parts DEF NoDisconnect, ServerAddsFresh, FreshItem
<1> QED BY <1>4, <1>6, <1>8 DEF Alive

(***************************************************************************)
(* Each part of the invariant, for all steps of the client.                *)
(***************************************************************************)
LEMMA ClientStep ==
    ASSUME IInv, ClientEffects
    PROVE  /\ UNCHANGED <<QueuedS, stS, spawncount>> /\ ToClientShrinks
           /\ ToServer' \subseteq ToServer \cup QueuedC
           /\ \A x, y : <<x, y>> \in OrderS' => <<x, y>> \in OrderS \/ y \in QueuedC
           /\ ~AcceptsServerdata => servercount' = servercount /\ exC <= exC'
<1>1. ~AcceptsServerdata => servercount' = servercount /\ exC <= exC'
  <2>1. exC \in Nat /\ (ClientExecutes => exC <= exC')
    <3>1. ClientExecutes => NextC.number \in Nat /\ exC \in Nat
      BY LevelsAreNumbers DEF ClientExecutes, ClientReads
    <3> QED BY <3>1, LevelsAreNumbers DEF ClientExecutes
  <2> QED BY <2>1 DEF ClientEffects, ClientIsQuiet, BecomesActive, AsksForBaselines, LoadsLevel,
                      ReadsChanging, GoesBack, Disconnects
<1>2. (\E T : ClientMakes(T)) \/ (ServerKept /\ ToClientShrinks /\ ToServerShrinks)
  BY DEF ClientEffects, ClientIsQuiet, BecomesActive, AsksForBaselines, LoadsLevel,
         ReadsChanging, GoesBack, Disconnects, AcceptsServerdata
<1>3. CASE \E T : ClientMakes(T)
  BY <1>1, <1>3 DEF ClientMakes, ServerKept, ToServerGrows
<1>4. CASE ServerKept /\ ToClientShrinks /\ ToServerShrinks
  BY <1>1, <1>4 DEF ServerKept, ToServerShrinks
<1> QED BY <1>2, <1>3, <1>4

\* What the client adds: words without a level, or answers to what it reads.
Answer(x) ==
    /\ Name(x) \in ServerNames
    /\ LevelOf(x) = LevelOf(NextC) /\ NextC \in ToClient
    /\ \/ AcceptsServerdata /\ Name(x) = "configstrings"
       \/ AsksForBaselines /\ Name(x) = "baselines"
       \/ LoadsLevel /\ Name(x) = "begin"

LEMMA ClientAnswers ==
    ASSUME IInv, ClientEffects, NEW x \in QueuedC', x \notin QueuedC
    PROVE  (LevelOf(x) = NoLevel /\ Name(x) \in {"new", "request"}) \/ Answer(x)
<1>1. CASE ClientIsQuiet \/ BecomesActive
  <2>1. x.command = Cmd("request", NoLevel)
    BY <1>1 DEF ClientIsQuiet, BecomesActive, ClientMakes, ClientAdds
  <2> QED BY <2>1, NamedCommand
<1>2. CASE AcceptsServerdata
  <2>1. x.command = Cmd("configstrings", LevelOf(NextC)) /\ NextC \in ToClient
    BY <1>2 DEF AcceptsServerdata, ClientReads
  <2> QED BY <1>2, <2>1, NamedCommand DEF Answer, ServerNames
<1>3. CASE AsksForBaselines
  <2>1. x.command = Cmd("baselines", LevelOf(NextC)) /\ NextC \in ToClient
    BY <1>3 DEF AsksForBaselines, ClientMakes, ClientAdds, ClientExecutes, ClientReads
  <2> QED BY <1>3, <2>1, NamedCommand DEF Answer, ServerNames
<1>4. CASE LoadsLevel
  <2>1. x.command = Cmd("begin", LevelOf(NextC)) /\ NextC \in ToClient
    BY <1>4 DEF LoadsLevel, ClientMakes, ClientAdds, ClientExecutes, ClientReads
  <2> QED BY <1>4, <2>1, NamedCommand DEF Answer, ServerNames
<1>5. CASE GoesBack
  <2>1. x.command = Cmd("new", NoLevel)
    BY <1>5 DEF GoesBack, ClientMakes, ClientAdds
  <2> QED BY <2>1, NamedCommand
<1>6. CASE ReadsChanging \/ Disconnects
  BY <1>6 DEF ReadsChanging, Disconnects, ClientMakes, ClientAdds
<1> QED BY <1>1, <1>2, <1>3, <1>4, <1>5, <1>6 DEF ClientEffects

\* What is asked for with the level of a command is asked for in the client's level.
LEMMA AnswersOfLevel ==
    ASSUME IInv, AsksForBaselines \/ LoadsLevel
    PROVE  /\ NextC \in ToClient /\ ~IsServerdata(NextC) /\ LevelOf(NextC) = servercount
           /\ NextC.type = "command" /\ LevelOf(NextC) # NoLevel
<1>1. NextC \in ToClient /\ Name(NextC) \in {CmdBaselines, "precache"}
  BY DEF AsksForBaselines, LoadsLevel, ClientExecutes, ClientReads
<1>2. ~IsServerdata(NextC) /\ Name(NextC) \in ClientNames
  BY <1>1, CmdBaselinesIsOther DEF IsServerdata, ClientNames
<1>3. LevelOf(NextC) # NoLevel
  BY <1>1, <1>2, LevelsAreNumbers
<1>4. NextC.type = "command"
  <2>1. ClientWord(NextC)
    BY <1>1, Parts DEF Shapes
  <2> QED BY <1>1, <2>1, CmdBaselinesIsOther DEF ClientWord
<1> QED BY <1>1, <1>2, <1>3, <1>4, Parts DEF LevelsToClient

\* Serverdata that is accepted is of a later level than the last one, or of the same.
LEMMA AcceptedLevel ==
    ASSUME IInv, AcceptsServerdata
    PROVE  /\ NextC \in ToClient /\ IsServerdata(NextC) /\ servercount' = LevelOf(NextC)
           /\ servercount <= servercount' /\ servercount' <= spawncount /\ servercount' \in Nat
           /\ \A x \in ToClient' : <<NextC, x>> \in OrderC
<1>1. NextC \in ToClient /\ IsServerdata(NextC) /\ servercount' = LevelOf(NextC)
      /\ \A x \in ToClient' : <<NextC, x>> \in OrderC
  BY DEF AcceptsServerdata, ClientReads, IsServerdata
<1> QED BY <1>1, Parts, LevelsAreNumbers DEF LevelsToClient

LEMMA LevelsToClientByClient ==
    ASSUME IInv, ClientEffects
    PROVE  LevelsToClient'
<1>1. UNCHANGED <<QueuedS, spawncount>> /\ ToClientShrinks
  BY ClientStep
<1>2. CASE ~AcceptsServerdata
  <2>1. servercount' = servercount
    BY <1>2, ClientStep
  <2> QED BY <1>1, <2>1, Parts DEF LevelsToClient, ToClientShrinks
<1>3. CASE AcceptsServerdata
  <2> DEFINE l == LevelOf(NextC)
  <2>1. /\ NextC \in ToClient /\ IsServerdata(NextC) /\ servercount' = l /\ l \in Nat
        /\ servercount <= l /\ l <= spawncount /\ servercount \in Nat /\ spawncount \in Nat
        /\ \A x \in ToClient' : <<NextC, x>> \in OrderC
    BY <1>3, AcceptedLevel, LevelsAreNumbers
  <2> HIDE DEF l
  <2>2. ASSUME NEW x \in ToClient'
        PROVE  /\ IsServerdata(x) => l <= LevelOf(x) /\ LevelOf(x) <= spawncount
               /\ IsServerdata(x) \/ LevelOf(x) = NoLevel \/ LevelOf(x) = l
    <3>1. x \in ToClient /\ <<NextC, x>> \in OrderC
      BY <1>1, <2>1 DEF ToClientShrinks
    <3> QED BY <2>1, <3>1, Parts DEF LevelsToClient, l
  <2>3. ASSUME NEW x \in QueuedS
        PROVE  ~IsServerdata(x) /\ (LevelOf(x) = NoLevel \/ LevelOf(x) = l)
    <3>1. ~IsServerdata(x)
      BY LevelsAreNumbers
    <3> QED BY <2>1, <3>1, Parts DEF LevelsToClient, l
  <2>4. ASSUME NEW x \in ToClient', NEW y \in ToClient', IsServerdata(x), <<x, y>> \in OrderC'
        PROVE  /\ IsServerdata(y) => LevelOf(x) <= LevelOf(y)
               /\ IsServerdata(y) \/ LevelOf(y) = NoLevel \/ LevelOf(x) <= l
    <3>1. x \in ToClient /\ y \in ToClient /\ <<x, y>> \in OrderC
      BY <1>1, <2>4 DEF ToClientShrinks
    <3>2. /\ IsServerdata(y) => LevelOf(x) <= LevelOf(y)
          /\ IsServerdata(y) \/ LevelOf(y) = NoLevel \/ LevelOf(x) <= servercount
      BY <2>4, <3>1, Parts DEF LevelsToClient
    <3>3. LevelOf(x) \in Nat
      BY <3>1, LevelsAreNumbers
    <3> QED BY <2>1, <3>2, <3>3
  <2>5. ASSUME NEW x \in QueuedS, NEW y \in ToClient', IsServerdata(y)
        PROVE  LevelOf(x) = NoLevel \/ LevelOf(y) <= l
    <3>1. y \in ToClient
      BY <1>1 DEF ToClientShrinks
    <3>2. LevelOf(y) \in Nat
      BY <3>1, LevelsAreNumbers
    <3> QED BY <2>1, <2>5, <3>1, <3>2, Parts DEF LevelsToClient
  <2> QED BY <1>1, <2>1, <2>2, <2>3, <2>4, <2>5 DEF LevelsToClient
<1> QED BY <1>2, <1>3

LEMMA LevelsToServerByClient ==
    ASSUME IInv, ClientEffects
    PROVE  LevelsToServer'
<1>1. /\ servercount \in Nat /\ servercount' \in Nat /\ servercount <= servercount' /\ NoLevel = 0
      /\ ~AcceptsServerdata => servercount' = servercount
  BY ClientStep, AcceptedLevel, LevelsAreNumbers
<1>2. ASSUME NEW x \in QueuedC' PROVE LevelOf(x) = NoLevel \/ LevelOf(x) = servercount'
  <2>1. CASE AcceptsServerdata
    <3>1. x.command = Cmd("configstrings", LevelOf(NextC)) /\ servercount' = LevelOf(NextC)
      BY <1>2, <2>1 DEF AcceptsServerdata
    <3> QED BY <3>1, NamedCommand
  <2>2. CASE ~AcceptsServerdata /\ x \in QueuedC
    BY <1>1, <2>2, Parts DEF LevelsToServer
  <2>3. CASE ~AcceptsServerdata /\ x \notin QueuedC
    BY <1>1, <1>2, <2>3, ClientAnswers, AnswersOfLevel DEF Answer
  <2> QED BY <2>1, <2>2, <2>3
<1>3. ASSUME NEW x \in ToServer' PROVE LevelOf(x) <= servercount'
  <2>1. x \in ToServer \cup QueuedC
    BY <1>3, ClientStep
  <2>2. LevelOf(x) <= servercount /\ LevelOf(x) \in Nat
    BY <1>1, <2>1, Parts, LevelsAreNumbers DEF LevelsToServer
  <2> QED BY <1>1, <2>2
<1>4. ASSUME NEW x \in ToServer', NEW y \in ToServer', <<x, y>> \in OrderS'
      PROVE  LevelOf(y) = NoLevel \/ LevelOf(x) <= LevelOf(y)
  <2>1. CASE <<x, y>> \in OrderS
    <3>1. x \in ToServer /\ y \in ToServer
      BY <2>1, OrderMembers DEF OrderS, ToServer
    <3> QED BY <2>1, <3>1, Parts DEF LevelsToServer
  <2>2. CASE y \in QueuedC
    <3>1. x \in ToServer \cup QueuedC
      BY <1>4, ClientStep
    <3>2. LevelOf(x) <= servercount
      BY <1>1, <3>1, Parts, LevelsAreNumbers DEF LevelsToServer
    <3> QED BY <2>2, <3>2, Parts DEF LevelsToServer
  <2> QED BY <1>4, <2>1, <2>2, ClientStep
<1> QED BY <1>2, <1>3, <1>4 DEF LevelsToServer

LEMMA ExecutedIsNumber == ASSUME Typed' PROVE exC' \in Nat
BY Ends DEF Typed, TypedCounters, exC

LEMMA FramesByClient ==
    ASSUME IInv, ClientEffects, Typed'
    PROVE  Frames'
<1>1. ToClientShrinks
  BY ClientStep
<1>2. ASSUME AcceptsServerdata \/ ReadsChanging \/ GoesBack, NEW x \in ToClient'
      PROVE  Name(x) # "frame"
  <2>1. x \in ToClient
    BY <1>1, <1>2 DEF ToClientShrinks
  <2>2. CASE AcceptsServerdata
    BY <2>1, <2>2, Parts DEF AcceptsServerdata, Frames
  <2>3. CASE ReadsChanging \/ GoesBack
    <3>1. NextC \in ToClient /\ Due(NextC) /\ <<NextC, x>> \in OrderC
      <4>1. NextC \in ToClient /\ IsRestart(NextC) /\ <<NextC, x>> \in OrderC /\ exC < NextC.number
        BY <1>2, <2>3 DEF ReadsChanging, GoesBack, ClientExecutes, ClientReads, IsRestart
      <4> QED BY <4>1, LevelsAreNumbers DEF Due
    <3> QED BY <2>1, <3>1, Parts DEF Frames
  <2> QED BY <1>2, <2>2, <2>3
<1>3. CASE AcceptsServerdata
  <2>1. stC' # "active"
    BY <1>3 DEF AcceptsServerdata
  <2> QED BY <1>2, <1>3, <2>1 DEF Frames
<1>4. CASE ReadsChanging \/ GoesBack
  <2>1. stC' # "active"
    BY <1>4 DEF ReadsChanging, GoesBack
  <2> QED BY <1>2, <1>4, <2>1 DEF Frames
<1>5. CASE ~AcceptsServerdata /\ ~ReadsChanging /\ ~GoesBack
  <2>1. servercount' = servercount /\ exC <= exC' /\ (stC # "handshake" => stC' # "handshake")
        /\ (cgame' = cgame \/ cgame' = servercount)
        /\ (stC' = "active" => stC = "active" \/ BecomesActive)
    <3>1. LoadsLevel => cgame' = servercount
      BY AnswersOfLevel DEF LoadsLevel
    <3> QED BY <1>5, <3>1, ClientStep
            DEF ClientEffects, ClientIsQuiet, BecomesActive, AsksForBaselines, LoadsLevel, Disconnects
  <2>2. ASSUME NEW x \in ToClient', Name(x) = "frame" PROVE cgame' = servercount' /\ stC' # "handshake"
    BY <1>1, <2>1, <2>2, Parts DEF Frames, ToClientShrinks
  <2>3. ASSUME NEW x \in ToClient', NEW y \in ToClient', Name(y) = "frame", Due(x)'
        PROVE  <<x, y>> \notin OrderC'
    <3>1. x \in ToClient /\ y \in ToClient
      BY <1>1 DEF ToClientShrinks
    <3>2. Due(x)
      <4>1. exC \in Nat /\ x.number \in Nat /\ exC' \in Nat
        BY <3>1, LevelsAreNumbers, ExecutedIsNumber
      <4> QED BY <2>1, <2>3, <4>1 DEF Due
    <3> QED BY <1>1, <2>3, <3>1, <3>2, Parts DEF Frames, ToClientShrinks
  <2>4. ASSUME stC' = "active" PROVE cgame' = servercount'
    <3>1. BecomesActive => cgame = servercount
      BY Parts DEF BecomesActive, ClientReads, Frames
    <3> QED BY <2>1, <2>4, <3>1, Parts DEF Frames
  <2> QED BY <2>2, <2>3, <2>4 DEF Frames
<1> QED BY <1>3, <1>4, <1>5

\* And for the client that the server has not dropped.
ServedClient == IInv /\ ClientEffects /\ stS # "zombie" /\ Typed'

LEMMA ServedParts ==
    ASSUME ServedClient
    PROVE  /\ IInv /\ ClientEffects /\ Settled /\ Evidence /\ NoDisconnect /\ ~Disconnects
           /\ UNCHANGED <<QueuedS, stS, spawncount>> /\ ToClientShrinks
           /\ ToClient' \cup QueuedS' \subseteq ToClient \cup QueuedS
           /\ stC \in {"handshake", "connected", "active"}
<1>1. IInv /\ ClientEffects /\ Settled /\ Evidence /\ NoDisconnect /\ Typed
  BY Parts DEF ServedClient
<1>2. UNCHANGED <<QueuedS, stS, spawncount>> /\ ToClientShrinks
  BY <1>1, ClientStep
<1>3. ~Disconnects
  BY <1>1 DEF NoDisconnect, Disconnects
<1>4. stC \in {"handshake", "connected", "active"}
  BY <1>1 DEF Typed, TypedState, NoDisconnect
<1> QED BY <1>1, <1>2, <1>3, <1>4 DEF ToClientShrinks

LEMMA CleanByClient ==
    ASSUME ServedClient, Clean
    PROVE  Clean'
<1>1. servercount' = spawncount'
  <2>1. CASE AcceptsServerdata
    BY <2>1, ServedParts, AcceptedLevel, LevelsAreNumbers DEF Clean
  <2>2. CASE ~AcceptsServerdata
    BY <2>2, ServedParts, ClientStep DEF Clean
  <2> QED BY <2>1, <2>2
<1>2. ASSUME NEW x \in ToServer' PROVE LevelOf(x) = NoLevel \/ LevelOf(x) = spawncount'
  <2>1. x \in ToServer \cup QueuedC /\ spawncount' = spawncount
    BY ServedParts, ClientStep
  <2> QED BY <2>1, ServedParts, Parts DEF Clean, LevelsToServer
<1> QED BY <1>1, <1>2 DEF Clean

\* A client that has nothing more to execute that sends it back stays in the level.
LEMMA GoodByClient ==
    ASSUME ServedClient, Good
    PROVE  Good' /\ (cgame = spawncount => cgame' = spawncount')
<1>1. /\ ~AcceptsServerdata /\ ~ReadsChanging /\ ~GoesBack /\ ~Disconnects
  <2>1. ~AcceptsServerdata
    BY DEF Good, AcceptsServerdata
  <2>2. ASSUME ReadsChanging \/ GoesBack PROVE FALSE
    <3>1. NextC \in ToClient /\ IsRestart(NextC) /\ exC < NextC.number
      BY <2>2 DEF ReadsChanging, GoesBack, ClientExecutes, ClientReads, IsRestart
    <3>2. Due(NextC)
      BY <3>1, ServedParts, LevelsAreNumbers DEF Due
    <3> QED BY <3>1, <3>2 DEF Good
  <2> QED BY <2>1, <2>2, ServedParts
<1>2. exC <= exC' /\ exC \in Nat /\ exC' \in Nat
  BY <1>1, ServedParts, ClientStep, LevelsAreNumbers, ExecutedIsNumber DEF ServedClient
<1>3. stC' \in {"connected", "active"}
  BY <1>1, ServedParts
     DEF Good, ClientEffects, ClientIsQuiet, BecomesActive, AsksForBaselines, LoadsLevel
<1>4. ASSUME NEW x \in ToClient' \cup QueuedS' PROVE ~Due(x)'
  <2>1. x \in ToClient \cup QueuedS /\ x.number \in Nat
    BY <1>4, ServedParts, LevelsAreNumbers
  <2>2. ~Due(x)
    BY <2>1 DEF Good
  <2> QED BY <1>2, <2>1, <2>2 DEF Due
<1>5. Clean'
  BY CleanByClient DEF Good
<1>6. ASSUME cgame = spawncount PROVE cgame' = spawncount'
  <2>1. LoadsLevel => cgame' = spawncount
    BY ServedParts, AnswersOfLevel DEF LoadsLevel, Good, Clean
  <2> QED BY <1>1, <1>6, <2>1, ServedParts
          DEF ClientEffects, ClientIsQuiet, BecomesActive, AsksForBaselines
<1> QED BY <1>3, <1>4, <1>5, <1>6 DEF Good

LEMMA SettledByClient ==
    ASSUME ServedClient
    PROVE  Settled'
<1>1. /\ Settled /\ UNCHANGED <<QueuedS, spawncount>> /\ ToClientShrinks
      /\ ToClient' \cup QueuedS' \subseteq ToClient \cup QueuedS
  BY ServedParts
<1>2. \A x, y : (OfThisLevel(x)' <=> OfThisLevel(x)) /\ (Outlives(x, y)' <=> Outlives(x, y))
  BY <1>1 DEF OfThisLevel, Outlives
<1> QED BY <1>1, <1>2, CleanByClient DEF Settled, ToClientShrinks

\* The client that executes what is of this level has executed more than every restart
\* that is still on its way.
LEMMA AnswerIsGood ==
    ASSUME ServedClient, AsksForBaselines \/ LoadsLevel, LevelOf(NextC) = spawncount
    PROVE  Good' /\ (LoadsLevel => cgame' = spawncount')
<1>1. /\ NextC \in ToClient /\ OfThisLevel(NextC) /\ NextC.type = "command"
  BY ServedParts, AnswersOfLevel DEF OfThisLevel
<1>2. Clean'
  BY <1>1, ServedParts, CleanByClient DEF Settled
<1>3. stC' \in {"connected", "active"}
  BY ServedParts DEF AsksForBaselines, LoadsLevel
<1>4. exC' = NextC.number /\ \A x \in ToClient' : <<NextC, x>> \in OrderC
  BY DEF AsksForBaselines, LoadsLevel, ClientExecutes, ClientReads
<1>5. ASSUME NEW x \in ToClient' \cup QueuedS' PROVE ~Due(x)'
  <2>1. x \in ToClient \cup QueuedS
    BY <1>5, ServedParts
  <2>2. Outlives(NextC, x)
    BY <1>1, <1>4, <1>5, ServedParts DEF Settled, ToClientShrinks
  <2>3. x.number \in Nat /\ NextC.number \in Nat
    BY <1>1, <2>1, ServedParts, LevelsAreNumbers
  <2> QED BY <1>1, <1>4, <2>2, <2>3 DEF Outlives, Due
<1>6. LoadsLevel => cgame' = spawncount'
  BY ServedParts DEF LoadsLevel
<1> QED BY <1>2, <1>3, <1>5, <1>6 DEF Good

LEMMA EvidenceByClient ==
    ASSUME ServedClient
    PROVE  Evidence' /\ NoDisconnect'
<1>1. spawncount' = spawncount /\ stS' = stS
  BY ServedParts
<1>2. ASSUME NEW x \in ToServer \cup QueuedC PROVE Asks(x)'
  <2>1. Asks(x)
    BY <1>2, ServedParts DEF Evidence
  <2> QED BY <1>1, <2>1, GoodByClient DEF Asks
<1>3. ASSUME NEW x \in QueuedC', x \notin QueuedC PROVE Asks(x)'
  <2> SUFFICES ASSUME LevelOf(x) = spawncount, Name(x) \in {"baselines", "begin"}
               PROVE  Good' /\ (Name(x) = "begin" => cgame' = spawncount')
    BY <1>1 DEF Asks
  <2>1. Answer(x)
    BY <1>3, ServedParts, ClientAnswers
  <2>2. AsksForBaselines \/ LoadsLevel
    BY <2>1 DEF Answer
  <2>3. LevelOf(NextC) = spawncount /\ (Name(x) = "begin" => LoadsLevel)
    BY <2>1 DEF Answer
  <2> QED BY <2>2, <2>3, AnswerIsGood
<1>4. ASSUME NEW x \in ToServer' \cup QueuedC' PROVE Asks(x)'
  BY <1>2, <1>3, <1>4, ServedParts, ClientStep
<1>5. ASSUME stS' = "spawned" PROVE Good' /\ cgame' = spawncount'
  BY <1>1, <1>5, ServedParts, GoodByClient DEF Evidence
<1>6. stC' # "disconnected"
  BY ServedParts DEF ClientEffects, ClientIsQuiet, BecomesActive, AcceptsServerdata,
     AsksForBaselines, LoadsLevel, ReadsChanging, GoesBack
<1>7. NoDisconnect'
  BY <1>6, ServedParts DEF NoDisconnect
<1> QED BY <1>4, <1>5, <1>7 DEF Evidence

(***************************************************************************)
(* The invariant, and what follows from it.                                *)
(***************************************************************************)
LEMMA InvariantInit == Init => IInv
<1> SUFFICES ASSUME Init PROVE IInv
  OBVIOUS
<1>1. /\ S = <<>> /\ C = Append(<<>>, Cmd("new", NoLevel)) /\ ackS = 0
      /\ stS = "connecting" /\ stC = "handshake" /\ reliableSent = 0
  BY DEF Init, S, C, ackS, stS, stC, Add, NewQueue
<1>2. /\ exC = 0 /\ PS = <<>> /\ PC = <<>> /\ NS = <<>> /\ NC = <<>>
  BY Ends DEF Init, exC, PS, PC, NS, NC
<1>3. /\ spawncount = 1 /\ servercount = NoLevel /\ configstrings = NoLevel
      /\ baselines = NoLevel /\ cgame = NoLevel
  BY DEF Init
<1>4. NoLevel = 0 /\ 1 \in Level
  BY BoundsAssumption DEF NoLevel, Level
<1>5. Cmd("new", NoLevel) \in CommandsToServer
  BY DEF CommandsToServer, Cmd
<1>6. Len(C) = 1 /\ C[1] = Cmd("new", NoLevel) /\ C \in Seq(CommandsToServer) /\ Len(S) = 0
  BY <1>1, <1>5
<1>7. \A x \in QueuedC : Name(x) = "new" /\ LevelOf(x) = NoLevel
  <2>1. \A x \in QueuedC : x.command = Cmd("new", NoLevel)
    BY <1>6 DEF QueuedC, Numbered, Item
  <2> QED BY <2>1, NamedCommand
<1>8. QueuedS = {}
  <2>1. 1..Len(S) = {}
    BY <1>6
  <2> QED BY <2>1 DEF QueuedS, Numbered
<1>9. ToServer = {} /\ ToClient = {}
  BY <1>2, NoElements DEF ToServer, ToClient, Items
<1>10. TypedState
  BY DEF Init, TypedState, stS, stC, End, States
<1>11. TypedQueues
  <2>1. queue["client"] \in QueueOf(CommandsToServer \cup CommandsToClient)
    <3>1. queue["client"] = [commands |-> C, reliableAcknowledge |-> 0]
      BY DEF Init, C, Add, NewQueue
    <3> QED BY <1>6, <3>1 DEF QueueOf
  <2>2. queue["server"] \in QueueOf(CommandsToServer \cup CommandsToClient)
    <3>1. queue["server"] = [commands |-> <<>>, reliableAcknowledge |-> 0]
      BY DEF Init, NewQueue
    <3> QED BY <3>1 DEF QueueOf
  <2>3. queue \in [End -> QueueOf(CommandsToServer \cup CommandsToClient)]
    <3>1. queue = [client |-> queue["client"], server |-> queue["server"]]
      BY DEF Init
    <3> QED BY <2>1, <2>2, <3>1 DEF End
  <2>4. C \in Seq(CommandsToServer) /\ S \in Seq(CommandsToClient)
    BY <1>1, <1>6
  <2>5. reliableSent \in Nat /\ ackS <= reliableSent /\ reliableSent <= Len(S)
    BY <1>1, <1>6
  <2> QED BY <2>3, <2>4, <2>5, Zenon DEF TypedQueues
<1>12. TypedCounters /\ TypedParsing /\ TypedNet
  <2>1. TypedCounters
    BY <1>3, <1>4 DEF Init, TypedCounters
  <2>2. TypedParsing
    BY <1>2 DEF Init, TypedParsing
  <2>3. \A e \in End : Len(net[e]) <= MaxInFlight + 1
    BY BoundsAssumption DEF Init
  <2>4. TypedNet
    BY <1>2, <2>3 DEF Init, TypedNet
  <2> QED BY <2>1, <2>2, <2>4
<1>13. Typed
  BY <1>2, <1>10, <1>11, <1>12 DEF Typed
<1>14. LevelsToClient
  BY <1>3, <1>4, <1>8, <1>9 DEF LevelsToClient
<1>15. LevelsToServer
  BY <1>7, <1>9 DEF LevelsToServer
<1>16. Frames
  BY <1>1, <1>9 DEF Frames
<1>17. Settled /\ NoDisconnect
  BY <1>1, <1>8, <1>9 DEF Settled, NoDisconnect
<1>18. Evidence
  BY <1>1, <1>7, <1>9 DEF Evidence, Asks
<1> QED BY <1>13, <1>14, <1>15, <1>16, <1>17, <1>18 DEF IInv, Alive

LEMMA InvariantKept ==
    ASSUME IInv, Typed', ServerEffects \/ ClientEffects, stS = "zombie" => stS' = "zombie"
    PROVE  IInv'
<1>1. CASE ServerEffects
  <2>1. LevelsToClient' /\ LevelsToServer' /\ Frames'
    BY <1>1, LevelsToClientByServer, LevelsToServerByServer, FramesByServer
  <2>2. ASSUME stS' # "zombie" PROVE Alive'
    <3>1. CASE ChangesLevel
      BY <2>2, <3>1, AliveInNewLevel
    <3>2. CASE spawncount' = spawncount
      <4>1. ServerKeepsClient
        BY <1>1, <2>2, <3>2 DEF ServerKeepsClient, StaysInLevel
      <4> QED BY <4>1, SettledByServer, EvidenceByServer DEF Alive
    <3> QED BY <1>1, <3>1, <3>2, ServerFresh, Parts
  <2> QED BY <2>1, <2>2 DEF IInv
<1>2. CASE ClientEffects
  <2>1. LevelsToClient' /\ LevelsToServer' /\ Frames'
    BY <1>2, LevelsToClientByClient, LevelsToServerByClient, FramesByClient
  <2>2. ASSUME stS' # "zombie" PROVE Alive'
    <3>1. ServedClient
      BY <1>2, <2>2, ClientStep DEF ServedClient
    <3> QED BY <3>1, SettledByClient, EvidenceByClient DEF Alive
  <2> QED BY <2>1, <2>2 DEF IInv
<1> QED BY <1>1, <1>2

\* Nothing is read from a client that was dropped.
LEMMA DroppedStaysDropped ==
    ASSUME Typed, Next, stS = "zombie"
    PROVE  stS' = "zombie"
<1>1. ~Idle("server") /\ parsing["server"] = <<>> /\ state \in [End -> States]
  BY OtherFields DEF Typed, Idle, stS, PS
<1>2. \A name : ~Reads("server", name)
  BY <1>1 DEF Reads
<1>3. state' = state \/ \E s : state' = [state EXCEPT !["client"] = s]
  BY <1>1, <1>2
     DEF Next, ServerSend, ServerParses, ServerReceive, SkipOld, New, Configstrings, Baselines,
         Begin, Request, Update, ChangeLevel, ClientSend, ClientParses, ClientReceive, Serverdata,
         ParseBaseline, Frame, Cs, UpdateCs, ForwardBaselines, Precache, Changing,
         ServerReconnect, ServerDisconnect, RequestOfPlayer
<1> QED BY <1>1, <1>3, Ends DEF stS

\* A step in which nothing happens is a quiet one.
LEMMA StutterIsQuiet ==
    ASSUME Typed, UNCHANGED vars
    PROVE  ServerIsQuiet /\ Typed' /\ stS' = stS
<1>1. /\ UNCHANGED <<state, queue, executedTo, reliableSent, spawncount, parsing, net>>
      /\ UNCHANGED clientVars /\ UNCHANGED <<servercount, cgame>>
  BY DEF vars, clientVars
<1>2. stS' = stS /\ stC' = stC /\ TypedState'
  BY <1>1, StateKept DEF Typed
<1>3. QueuedS' = QueuedS /\ QueuedC' = QueuedC /\ ServerAdds({}) /\ TypedQueues'
  BY <1>1, QueueKept DEF Typed
<1>4. exC' = exC /\ TypedCounters'
  BY <1>1, CountersKept DEF Typed
<1>5. PS' = PS /\ PC' = PC /\ TypedParsing'
  BY <1>1, ParsingKept DEF Typed
<1>6. NS' = NS /\ NC' = NC /\ TypedNet'
  BY <1>1, NetKept DEF Typed
<1>7. ToServerShrinks /\ ToClientGrows(QueuedS' \cup {})
  BY <1>5, <1>6, ServerUntouched, ClientUntouched
<1>8. Typed'
  BY <1>2, <1>3, <1>4, <1>5, <1>6 DEF Typed
<1> QED BY <1>1, <1>2, <1>3, <1>4, <1>7, <1>8 DEF ServerIsQuiet, ServerMakes, ClientKept

\* The invariant holds in every state that Connection reaches.
THEOREM ConnectionInvariant == Spec => []IInv
<1>1. ASSUME IInv, Next PROVE IInv'
  <2>1. Typed
    BY <1>1, Parts
  <2> QED BY <1>1, <2>1, StepEffects, DroppedStaysDropped, InvariantKept
<1>2. ASSUME IInv, UNCHANGED vars PROVE IInv'
  <2>1. Typed
    BY <1>2, Parts
  <2> QED BY <1>2, <2>1, StutterIsQuiet, InvariantKept DEF ServerEffects
<1>3. IInv /\ [Next]_vars => IInv'
  BY <1>1, <1>2
<1> QED BY InvariantInit, <1>3, PTL DEF Spec

\* The counters are those of the numbering in use, and the messages bounded.
THEOREM ConnectionTypeOK == Spec => []TypeOK
<1>1. IInv => TypeOK
  <2> SUFFICES ASSUME IInv PROVE TypeOK
    OBVIOUS
  <2>1. Typed
    BY Parts
  <2> QED BY <2>1 DEF Typed, TypedState, TypedQueues, TypedCounters, TypedNet, TypeOK,
                      stC, stS, ackS, S
<1> QED BY <1>1, ConnectionInvariant, PTL

\* A client that the server takes for spawned is in the level that the server runs
\* (SV_Begin_f): it has the serverdata of the level and has loaded it.
THEOREM ConnectionSpawnedIsReady == Spec => []SpawnedIsReady
<1>1. IInv => SpawnedIsReady
  <2> SUFFICES ASSUME IInv, stS = "spawned" PROVE SpawnedIsReady
    BY DEF SpawnedIsReady, stS
  <2>1. Good /\ cgame = spawncount
    BY Parts DEF Evidence
  <2> QED BY <2>1 DEF SpawnedIsReady, Good, Clean, stC
<1> QED BY <1>1, ConnectionInvariant, PTL

\* A frame is only decoded by a client in the level it was made for (CL_ParseFrame).
THEOREM ConnectionFrameOfItsLevel == Spec => []FrameOfItsLevel
<1>1. IInv => FrameOfItsLevel
  <2> SUFFICES ASSUME IInv, ReadsData("frame") PROVE FrameOfItsLevel
    BY DEF FrameOfItsLevel
  <2>1. Typed /\ PC # <<>> /\ NextC.type = "frame" /\ CommandLevel("client") = NextC.command.level
    BY Parts DEF ReadsData, NextC, PC, CommandLevel
  <2>2. NextC \in ToClient
    <3>1. PC \in Seq(ItemsToClient)
      BY <2>1, StreamFields
    <3> QED BY <2>1, <3>1, ReadNext DEF NextC, ToClient
  <2>3. ClientWord(NextC)
    BY <2>2, Parts DEF Shapes
  <2>4. Name(NextC) = "frame" /\ LevelOf(NextC) = CommandLevel("client")
    BY <2>1, <2>3 DEF ClientWord
  <2>5. LevelOf(NextC) = servercount /\ cgame = servercount
    BY <2>2, <2>4, Parts, LevelsAreNumbers DEF LevelsToClient, Frames, IsServerdata
  <2> QED BY <2>4, <2>5 DEF FrameOfItsLevel
<1> QED BY <1>1, ConnectionInvariant, PTL
=============================================================================
