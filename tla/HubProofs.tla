----------------------------- MODULE HubProofs -----------------------------
(***************************************************************************)
(* Safety of the hub for every number of clients, rooms and messages and   *)
(* every capacity of the channels: Run never sends on, nor closes, a       *)
(* closed channel, and nothing accepted for a client is lost, doubled or   *)
(* reordered inside the server.  And how a connection ends: a closed       *)
(* channel only drains, and a WritePump that ends without a write error    *)
(* has written everything.                                                 *)
(* Last, what the clients of one room see: they agree on the order, and    *)
(* none misses what its neighbours see.                                    *)
(***************************************************************************)
EXTENDS HubRefinement, SequenceTheorems, TLAPS

\* Run has a message at hand exactly while its loop runs, and the clients the
\* loop has still to visit are members of the message's room.
LoopInv ==
    /\ hubTodo = {} <=> hubMsg = <<>>
    /\ \A c \in hubTodo : c \in clients[Head(hubMsg).room]

\* Who may be in a room, and where its goroutines are.
MemberInv ==
    /\ \A r \in RoomNames : \A c \in clients[r] :
          /\ RoomOf[c] = r
          /\ r \in rooms
          /\ sendState[c] = "open"
          /\ readPump[c] \in {"reading", "handling", "unregistering"}
    /\ \A c \in Clients :
          readPump[c] \in {"absent", "registering"} =>
              sendState[c] = "open" /\ writePump[c] = "absent"

\* WritePump holds a message only while it writes, or when the write failed.
WriterInv ==
    \A c \in Clients : writePump[c] \in {"absent", "ranging"} => inHand[c] = <<>>

Control == TypeOK /\ LoopInv /\ MemberInv /\ WriterInv

\* The inductive invariant.
HubInv == Control /\ NothingLostInside

-----------------------------------------------------------------------------
(* Sequences.                                                              *)

\* A one-element sequence is made of its head.
LEMMA Singleton ==
    ASSUME NEW S, NEW s \in Seq(S), Len(s) <= 1, s # <<>>
    PROVE  /\ Len(s) = 1
           /\ Head(s) \in S
           /\ s = <<Head(s)>>
  <1>0. Len(s) \in Nat \ {0}
    BY EmptySeq
  <1>1. Len(s) = 1
    BY <1>0
  <1>2. s = <<s[1]>>
    BY <1>1
  <1> QED  BY <1>1, <1>2, HeadTailProperties

\* Taking the head of a channel into an empty hand.
LEMMA TakeHead ==
    ASSUME NEW S, NEW s \in Seq(S), NEW u \in Seq(S), u # <<>>
    PROVE  (s \o <<Head(u)>>) \o Tail(u) = (s \o <<>>) \o u
  <1>1. /\ Head(u) \in S
        /\ Tail(u) \in Seq(S)
        /\ u = <<Head(u)>> \o Tail(u)
    BY HeadTailProperties, SMT
  <1>2. (s \o <<Head(u)>>) \o Tail(u) = s \o (<<Head(u)>> \o Tail(u))
    BY <1>1, ConcatAssociative
  <1>3. s \o <<>> = s
    BY ConcatEmptySeq
  <1> QED  BY <1>1, <1>2, <1>3

\* Sending on a channel extends all that is on its way.
LEMMA ConcatAppend ==
    ASSUME NEW S, NEW s \in Seq(S), NEW u \in Seq(S), NEW e \in S
    PROVE  s \o Append(u, e) = Append(s \o u, e)
  <1>1. s \o u \in Seq(S) /\ Append(u, e) \in Seq(S)
    BY ConcatProperties, AppendProperties
  <1>2. Append(u, e) = u \o <<e>> /\ Append(s \o u, e) = (s \o u) \o <<e>>
    BY <1>1, AppendIsConcat
  <1>3. <<e>> \in Seq(S)
    OBVIOUS
  <1> QED  BY <1>2, <1>3, ConcatAssociative

-----------------------------------------------------------------------------
LEMMA InitControl == Init => Control
  BY HubAssumption DEF Init, Control, TypeOK, LoopInv, MemberInv, WriterInv,
     ReaderStates, WriterStates

LEMMA InitFlow == Init => NothingLostInside
  <1> SUFFICES ASSUME Init, NEW c \in Clients PROVE FlowOf(c)
    BY DEF NothingLostInside
  <1>1. hubTodo = {} /\ sendState[c] = "open" /\ feed[c] = <<>>
    BY DEF Init
  <1>2. Got(c) = <<>>
    <2>1. wire[c] = <<>> /\ inHand[c] = <<>> /\ sendBuf[c] = <<>>
      BY DEF Init
    <2>2. <<>> \o <<>> = <<>>
      BY EmptySeq, ConcatEmptySeq
    <2> QED  BY <2>1, <2>2 DEF Got
  <1> QED  BY <1>1, <1>2 DEF FlowOf

-----------------------------------------------------------------------------
(* Every step preserves Control.                                           *)

LEMMA ReaderControl ==
    ASSUME Control, NEW c \in Clients, ReaderStep(c)
    PROVE  Control'
  <1> USE DEF Control, hubVars, writerVars
  <1>1. CASE Connect(c)
    <2> USE <1>1 DEF Connect
    <2>1. TypeOK'
      BY DEF TypeOK, ReaderStates
    <2>2. LoopInv' /\ WriterInv'
      BY DEF LoopInv, WriterInv
    <2>3. MemberInv'
      BY DEF MemberInv, TypeOK
    <2> QED  BY <2>1, <2>2, <2>3
  <1>2. CASE ReadCommand(c)
    <2> USE <1>2 DEF ReadCommand
    <2>1. PICK a \in Addresses :
             outgoing' = [outgoing EXCEPT ![c] = <<[no |-> issued + 1, room |-> a.room, id |-> a.id]>>]
      OBVIOUS
    <2> DEFINE m == [no |-> issued + 1, room |-> a.room, id |-> a.id]
    <2>2. issued + 1 \in 1..MaxMsgs
      BY HubAssumption DEF TypeOK
    <2>3. a.room \in RoomNames /\ a.id \in Ids
      BY HubAssumption
    <2>4. m \in Message
      BY <2>2, <2>3 DEF Message
    <2>5. <<m>> \in Seq(Message) /\ Len(<<m>>) = 1
      BY <2>4
    <2> HIDE DEF m
    <2>6. outgoing' = [outgoing EXCEPT ![c] = <<m>>]
      BY <2>1 DEF m
    <2>7. TypeOK'
      <3>1. /\ readPump' \in [Clients -> ReaderStates]
            /\ \A d \in Clients : readPump'[d] = IF d = c THEN "handling" ELSE readPump[d]
        BY DEF TypeOK, ReaderStates
      <3>2. /\ outgoing' \in [Clients -> Seq(Message)]
            /\ \A d \in Clients : outgoing'[d] = IF d = c THEN <<m>> ELSE outgoing[d]
        BY <2>5, <2>6 DEF TypeOK
      <3>3. \A d \in Clients : /\ (readPump'[d] = "handling") <=> (Len(outgoing'[d]) = 1)
                               /\ Len(outgoing'[d]) <= 1
        BY <2>5, <3>1, <3>2 DEF TypeOK
      <3>4. issued' \in 0..MaxMsgs
        BY <2>2
      <3> QED  BY <3>1, <3>2, <3>3, <3>4 DEF TypeOK
    <2>8. LoopInv' /\ WriterInv'
      BY DEF LoopInv, WriterInv
    <2>9. MemberInv'
      BY DEF MemberInv, TypeOK
    <2> QED  BY <2>7, <2>8, <2>9
  <1>3. CASE ReadFail(c)
    <2> USE <1>3 DEF ReadFail
    <2>1. TypeOK'
      BY DEF TypeOK, ReaderStates
    <2>2. LoopInv' /\ WriterInv'
      BY DEF LoopInv, WriterInv
    <2>3. MemberInv'
      BY DEF MemberInv, TypeOK
    <2> QED  BY <2>1, <2>2, <2>3
  <1>4. CASE ReaderClose(c)
    <2> USE <1>4 DEF ReaderClose
    <2>1. TypeOK'
      BY DEF TypeOK, ReaderStates
    <2>2. LoopInv' /\ WriterInv'
      BY DEF LoopInv, WriterInv
    <2>3. MemberInv'
      BY DEF MemberInv, TypeOK
    <2> QED  BY <2>1, <2>2, <2>3
  <1> QED  BY <1>1, <1>2, <1>3, <1>4 DEF ReaderStep

LEMMA WriterControl ==
    ASSUME Control, NEW c \in Clients, WriterStep(c)
    PROVE  Control'
  <1> USE DEF Control, hubVars, readerVars
  <1>1. CASE WriterTake(c)
    <2> USE <1>1 DEF WriterTake
    <2> DEFINE u == sendBuf[c]
    <2>1. /\ u \in Seq(Message) /\ u # <<>> /\ Len(u) <= SendCap
      BY DEF TypeOK
    <2>2. /\ Head(u) \in Message
          /\ Tail(u) \in Seq(Message)
          /\ Len(Tail(u)) <= SendCap
      <3> HIDE DEF u
      <3>1. Head(u) \in Message /\ Tail(u) \in Seq(Message) /\ Len(Tail(u)) = Len(u) - 1
        BY <2>1, HeadTailProperties
      <3>2. Len(u) \in Nat
        BY <2>1, LenProperties
      <3> QED  BY <2>1, <3>1, <3>2, HubAssumption
    <2>3. <<Head(u)>> \in Seq(Message) /\ Len(<<Head(u)>>) = 1
      BY <2>2
    <2>4. TypeOK'
      BY <2>2, <2>3 DEF TypeOK, WriterStates
    <2>5. LoopInv' /\ MemberInv'
      BY DEF LoopInv, MemberInv
    <2>6. WriterInv'
      BY DEF WriterInv, TypeOK
    <2> QED  BY <2>4, <2>5, <2>6
  <1>2. CASE WriteOk(c)
    <2> USE <1>2 DEF WriteOk
    <2>1. wire[c] \o inHand[c] \in Seq(Message)
      BY ConcatProperties DEF TypeOK
    <2>2. <<>> \in Seq(Message) /\ Len(<<>>) = 0
      BY EmptySeq
    <2>3. TypeOK'
      BY <2>1, <2>2 DEF TypeOK, WriterStates
    <2>4. LoopInv' /\ MemberInv'
      BY DEF LoopInv, MemberInv
    <2>5. WriterInv'
      BY DEF WriterInv, TypeOK
    <2> QED  BY <2>3, <2>4, <2>5
  <1>3. CASE WriteErr(c)
    <2> USE <1>3 DEF WriteErr
    <2>1. TypeOK'
      BY DEF TypeOK, WriterStates
    <2>2. LoopInv' /\ MemberInv'
      BY DEF LoopInv, MemberInv, TypeOK
    <2>3. WriterInv'
      BY DEF WriterInv, TypeOK
    <2> QED  BY <2>1, <2>2, <2>3
  <1>4. CASE WriterEnd(c)
    <2> USE <1>4 DEF WriterEnd
    <2>1. TypeOK'
      BY DEF TypeOK, WriterStates
    <2>2. LoopInv' /\ MemberInv'
      BY DEF LoopInv, MemberInv, TypeOK
    <2>3. WriterInv'
      BY DEF WriterInv, TypeOK
    <2> QED  BY <2>1, <2>2, <2>3
  <1> QED  BY <1>1, <1>2, <1>3, <1>4 DEF WriterStep

\* The loop's bookkeeping after it has visited a client.
LEMMA VisitedLoop ==
    ASSUME Control, NEW c \in Clients, c \in hubTodo, Visited(c),
           \A d \in hubTodo \ {c} : d \in clients'[Head(hubMsg).room]
    PROVE  /\ LoopInv'
           /\ hubTodo' \in SUBSET Clients
           /\ hubMsg' \in Seq(Message) /\ Len(hubMsg') <= 1
  <1>1. CASE hubTodo = {c}
    <2>1. hubTodo' = {} /\ hubMsg' = <<>>
      BY <1>1 DEF Visited
    <2> QED  BY <2>1, EmptySeq DEF LoopInv
  <1>2. CASE hubTodo # {c}
    <2>1. hubTodo' = hubTodo \ {c} /\ hubMsg' = hubMsg
      BY <1>2 DEF Visited
    <2> QED  BY <1>2, <2>1 DEF LoopInv, Control, TypeOK
  <1> QED  BY <1>1, <1>2

\* An unregistration closes the channel of a member, or changes nothing.
LEMMA UnregisterTypes ==
    ASSUME TypeOK, NEW c \in Clients, HubUnregister(c)
    PROVE  TypeOK'
  <1> DEFINE r == RoomOf[c]
  <1>1. \/ /\ clients' = [clients EXCEPT ![r] = clients[r] \ {c}]
           /\ sendState' = [sendState EXCEPT ![c] = "closed"]
           /\ rooms' = IF clients[r] = {c} THEN rooms \ {r} ELSE rooms
        \/ UNCHANGED <<rooms, clients, sendState>>
    BY DEF HubUnregister
  <1> HIDE DEF r
  <1>2. /\ rooms' \in SUBSET RoomNames
        /\ clients' \in [RoomNames -> SUBSET Clients]
        /\ sendState' \in [Clients -> {"open", "evicted", "closed"}]
    <2>1. rooms' \in SUBSET RoomNames
      BY <1>1 DEF TypeOK
    <2>2. clients' \in [RoomNames -> SUBSET Clients]
      <3>1. clients \in [RoomNames -> SUBSET Clients]
        BY DEF TypeOK
      <3>2. CASE clients' = [clients EXCEPT ![r] = clients[r] \ {c}]
        <4>1. \A q \in RoomNames : clients'[q] \subseteq clients[q]
          BY <3>1, <3>2
        <4>2. clients' = [q \in RoomNames |-> clients'[q]]
          BY <3>1, <3>2
        <4> QED  BY <3>1, <4>1, <4>2
      <3> QED  BY <1>1, <3>1, <3>2
    <2>3. sendState' \in [Clients -> {"open", "evicted", "closed"}]
      BY <1>1 DEF TypeOK
    <2> QED  BY <2>1, <2>2, <2>3
  <1>3. /\ readPump' = [readPump EXCEPT ![c] = "closing"] /\ readPump[c] = "unregistering"
        /\ UNCHANGED <<hubMsg, hubTodo, sendBuf, outgoing, issued, writerVars, conn, feed>>
    BY DEF HubUnregister
  <1> QED  BY <1>2, <1>3 DEF TypeOK, ReaderStates, writerVars

LEMMA HubControl ==
    ASSUME Control, NEW c \in Clients, HubStep(c)
    PROVE  Control'
  <1> USE DEF Control, AtSelect, readerVars, writerVars
  <1>1. CASE HubRegister(c)
    <2> USE <1>1 DEF HubRegister
    <2>1. TypeOK'
      BY HubAssumption DEF TypeOK, ReaderStates, WriterStates
    <2>2. LoopInv'
      BY DEF LoopInv
    <2>3. MemberInv'
      BY HubAssumption DEF MemberInv, TypeOK
    <2>4. WriterInv'
      BY DEF WriterInv, MemberInv, TypeOK
    <2> QED  BY <2>1, <2>2, <2>3, <2>4
  <1>2. CASE HubUnregister(c)
    <2> USE <1>2 DEF HubUnregister
    <2>1. TypeOK'
      BY UnregisterTypes
    <2>2. LoopInv' /\ WriterInv'
      BY DEF LoopInv, WriterInv
    <2>3. MemberInv'
      <3>1. ASSUME NEW r \in RoomNames, NEW d \in clients'[r]
            PROVE  /\ d \in clients[r]
                   /\ RoomOf[d] = r
                   /\ r \in rooms'
                   /\ d # c
        <4>1. RoomOf[c] \in RoomNames
          BY HubAssumption
        <4>2. d \in clients[r] /\ d # c
          <5>1. CASE RoomOf[c] \in rooms /\ c \in clients[RoomOf[c]]
            <6>1. d \in IF r = RoomOf[c] THEN clients[r] \ {c} ELSE clients[r]
              BY <3>1, <4>1, <5>1 DEF TypeOK
            <6> QED  BY <6>1 DEF MemberInv
          <5>2. CASE ~(RoomOf[c] \in rooms /\ c \in clients[RoomOf[c]])
            <6>1. clients' = clients
              BY <5>2
            <6> QED  BY <3>1, <5>2, <6>1 DEF MemberInv
          <5> QED  BY <5>1, <5>2
        <4>3. RoomOf[d] = r /\ r \in rooms
          BY <4>2 DEF MemberInv
        <4>4. clients[RoomOf[c]] = {c} => r # RoomOf[c]
          BY <4>2
        <4> QED  BY <4>2, <4>3, <4>4
      <3>2. \A d \in Clients : d # c => readPump'[d] = readPump[d] /\ sendState'[d] = sendState[d]
        BY DEF TypeOK
      <3>3. readPump'[c] = "closing"
        BY DEF TypeOK
      <3>4. \A r \in RoomNames : clients'[r] \subseteq Clients
        BY <2>1 DEF TypeOK
      <3> QED  BY <3>1, <3>2, <3>3, <3>4 DEF MemberInv
    <2> QED  BY <2>1, <2>2, <2>3
  <1>3. CASE HubBroadcast(c)
    <2> USE <1>3 DEF HubBroadcast
    <2> DEFINE m == Head(outgoing[c])
    <2>1. /\ outgoing[c] \in Seq(Message) /\ Len(outgoing[c]) = 1
      BY DEF TypeOK
    <2>2. m \in Message
      BY <2>1
    <2> HIDE DEF m
    <2>3. PICK todo \in SUBSET Matching(m) :
             /\ hubTodo' = todo
             /\ hubMsg' = IF todo = {} THEN <<>> ELSE <<m>>
             /\ feed' = [d \in Clients |-> IF d \in todo THEN Append(feed[d], m) ELSE feed[d]]
      BY DEF m
    <2>4. m.room \in RoomNames
      BY <2>2 DEF Message
    <2>5. Matching(m) \subseteq clients[m.room] /\ clients[m.room] \subseteq Clients
      BY <2>4 DEF Matching, TypeOK
    <2>6. LoopInv'
      <3>1. todo # {} => Head(hubMsg') = m
        BY <2>3
      <3> QED  BY <2>3, <2>5, <3>1 DEF LoopInv
    <2>7. TypeOK'
      <3>1. hubMsg' \in Seq(Message) /\ Len(hubMsg') <= 1
        BY <2>2, <2>3
      <3>2. hubTodo' \in SUBSET Clients
        BY <2>3, <2>5
      <3>3. feed' \in [Clients -> Seq(Message)]
        BY <2>2, <2>3, AppendProperties DEF TypeOK
      <3>4. <<>> \in Seq(Message) /\ Len(<<>>) = 0
        BY EmptySeq
      <3>5. /\ readPump' \in [Clients -> ReaderStates]
            /\ outgoing' \in [Clients -> Seq(Message)]
            /\ \A d \in Clients : /\ (readPump'[d] = "handling") <=> (Len(outgoing'[d]) = 1)
                                  /\ Len(outgoing'[d]) <= 1
        BY <3>4 DEF TypeOK, ReaderStates
      <3> QED  BY <3>1, <3>2, <3>3, <3>5 DEF TypeOK
    <2>8. MemberInv'
      BY DEF MemberInv, TypeOK
    <2>9. WriterInv'
      BY DEF WriterInv
    <2> QED  BY <2>6, <2>7, <2>8, <2>9
  <1>4. CASE HubSend(c)
    <2> USE <1>4 DEF HubSend
    <2>1. /\ LoopInv'
          /\ hubTodo' \in SUBSET Clients
          /\ hubMsg' \in Seq(Message) /\ Len(hubMsg') <= 1
      BY VisitedLoop DEF LoopInv
    <2>2. Head(hubMsg) \in Message
      BY HeadTailProperties DEF LoopInv, TypeOK
    <2>3. /\ Append(sendBuf[c], Head(hubMsg)) \in Seq(Message)
          /\ Len(Append(sendBuf[c], Head(hubMsg))) <= SendCap
      <3>1. sendBuf[c] \in Seq(Message)
        BY DEF TypeOK
      <3>2. Len(sendBuf[c]) \in Nat
        BY <3>1, LenProperties
      <3> QED  BY <2>2, <3>1, <3>2, HubAssumption, AppendProperties
    <2>4. TypeOK'
      BY <2>1, <2>3 DEF TypeOK
    <2>5. MemberInv' /\ WriterInv'
      BY DEF MemberInv, WriterInv
    <2> QED  BY <2>1, <2>4, <2>5
  <1>5. CASE HubEvict(c)
    <2> USE <1>5 DEF HubEvict
    <2>1. /\ LoopInv'
          /\ hubTodo' \in SUBSET Clients
          /\ hubMsg' \in Seq(Message) /\ Len(hubMsg') <= 1
      <3>1. \A d \in hubTodo \ {c} : d \in clients'[Head(hubMsg).room]
        BY DEF LoopInv, TypeOK
      <3> QED  BY <3>1, VisitedLoop
    <2>2. Head(hubMsg) \in Message
      BY HeadTailProperties DEF LoopInv, TypeOK
    <2>3. Head(hubMsg).room \in RoomNames /\ RoomOf[c] = Head(hubMsg).room
      BY <2>2 DEF Message, LoopInv, MemberInv
    <2>4. TypeOK'
      BY <2>1, <2>3 DEF TypeOK
    <2>5. MemberInv'
      <3>1. c \in clients[RoomOf[c]]
        BY <2>3 DEF LoopInv
      <3>2. readPump[c] \in {"reading", "handling", "unregistering"}
        BY <2>3, <3>1 DEF MemberInv
      <3>3. ASSUME NEW r \in RoomNames, NEW d \in clients'[r]
            PROVE  d \in clients[r] /\ d # c /\ d \in Clients
        BY <2>3, <3>3 DEF MemberInv, TypeOK
      <3>4. \A d \in Clients : d # c => sendState'[d] = sendState[d]
        BY DEF TypeOK
      <3> QED  BY <3>2, <3>3, <3>4 DEF MemberInv
    <2>6. WriterInv'
      BY DEF WriterInv
    <2> QED  BY <2>1, <2>4, <2>5, <2>6
  <1> QED  BY <1>1, <1>2, <1>3, <1>4, <1>5 DEF HubStep

LEMMA ControlStep ==
    ASSUME Control, [Next]_vars
    PROVE  Control'
  <1>1. CASE \E c \in Clients : ReaderStep(c) \/ WriterStep(c) \/ HubStep(c)
    BY <1>1, ReaderControl, WriterControl, HubControl
  <1>2. CASE UNCHANGED vars
    BY <1>2 DEF vars, hubVars, readerVars, writerVars, Control, TypeOK, LoopInv,
       MemberInv, WriterInv
  <1> QED  BY <1>1, <1>2 DEF Next, Quiet

-----------------------------------------------------------------------------
(* Every step preserves the flow of each client.                           *)

\* A client nothing happens to keeps its flow, even when Run's loop goes on.
LEMMA FlowKept ==
    ASSUME NEW d \in Clients, FlowOf(d),
           feed'[d] = feed[d], Got(d)' = Got(d), sendState'[d] = sendState[d],
           d \in hubTodo' <=> d \in hubTodo,
           d \in hubTodo => hubMsg' = hubMsg
    PROVE  FlowOf(d)'
  BY DEF FlowOf

LEMMA ReaderFlow ==
    ASSUME Control, NothingLostInside, NEW c \in Clients, ReaderStep(c)
    PROVE  NothingLostInside'
  <1>1. UNCHANGED <<hubMsg, hubTodo, sendBuf, sendState, wire, inHand, feed>>
    BY DEF ReaderStep, Connect, ReadCommand, ReadFail, ReaderClose, hubVars, writerVars
  <1> QED  BY <1>1, FlowKept DEF NothingLostInside, Got

LEMMA WriterFlow ==
    ASSUME Control, NothingLostInside, NEW c \in Clients, WriterStep(c)
    PROVE  NothingLostInside'
  <1>1. UNCHANGED <<hubMsg, hubTodo, sendState, feed>>
    BY DEF WriterStep, WriterTake, WriteOk, WriteErr, WriterEnd, hubVars
  <1>2. /\ wire[c] \in Seq(Message)
        /\ inHand[c] \in Seq(Message)
        /\ sendBuf[c] \in Seq(Message)
    BY DEF Control, TypeOK
  <1>3. \A d \in Clients : d # c =>
            wire'[d] = wire[d] /\ inHand'[d] = inHand[d] /\ sendBuf'[d] = sendBuf[d]
    BY DEF WriterStep, WriterTake, WriteOk, WriteErr, WriterEnd, Control, TypeOK
  <1>4. Got(c)' = Got(c)
    <2>1. CASE WriterTake(c)
      <3>1. /\ inHand[c] = <<>> /\ sendBuf[c] # <<>> /\ wire'[c] = wire[c]
            /\ inHand'[c] = <<Head(sendBuf[c])>>
            /\ sendBuf'[c] = Tail(sendBuf[c])
        BY <2>1 DEF WriterTake, Control, WriterInv, TypeOK
      <3> QED  BY <1>2, <3>1, TakeHead DEF Got
    <2>2. CASE WriteOk(c)
      <3>1. /\ wire'[c] = wire[c] \o inHand[c]
            /\ inHand'[c] = <<>>
            /\ sendBuf'[c] = sendBuf[c]
        BY <2>2 DEF WriteOk, Control, TypeOK
      <3>2. wire[c] \o inHand[c] \in Seq(Message)
        BY <1>2, ConcatProperties
      <3>3. (wire[c] \o inHand[c]) \o <<>> = wire[c] \o inHand[c]
        BY <3>2, ConcatEmptySeq
      <3> QED  BY <3>1, <3>3 DEF Got
    <2>3. CASE WriteErr(c) \/ WriterEnd(c)
      BY <2>3 DEF WriteErr, WriterEnd, Got
    <2> QED  BY <2>1, <2>2, <2>3 DEF WriterStep
  <1>5. \A d \in Clients : Got(d)' = Got(d)
    BY <1>3, <1>4 DEF Got
  <1> QED  BY <1>1, <1>5, FlowKept DEF NothingLostInside

LEMMA HubFlow ==
    ASSUME Control, NothingLostInside, NEW c \in Clients, HubStep(c)
    PROVE  NothingLostInside'
  <1>1. CASE HubRegister(c)
    <2>1. UNCHANGED <<hubMsg, hubTodo, sendBuf, sendState, wire, inHand, feed>>
      BY <1>1 DEF HubRegister
    <2> QED  BY <2>1, FlowKept DEF NothingLostInside, Got
  <1>2. CASE HubUnregister(c)
    <2>1. UNCHANGED <<hubMsg, hubTodo, sendBuf, wire, inHand, feed>> /\ hubTodo = {}
      BY <1>2 DEF HubUnregister, AtSelect, writerVars
    <2>2. \A d \in Clients : d # c => sendState'[d] = sendState[d]
      BY <1>2 DEF HubUnregister, Control, TypeOK
    <2>3. \/ sendState'[c] = sendState[c]
          \/ sendState[c] = "open" /\ sendState'[c] = "closed"
      BY <1>2, HubAssumption DEF HubUnregister, Control, TypeOK, MemberInv
    <2>4. FlowOf(c)'
      BY <2>1, <2>3 DEF NothingLostInside, FlowOf, Got
    <2>5. ASSUME NEW d \in Clients, d # c PROVE FlowOf(d)'
      BY <2>1, <2>2, <2>5, FlowKept DEF NothingLostInside, Got
    <2> QED  BY <2>4, <2>5 DEF NothingLostInside
  <1>3. CASE HubBroadcast(c)
    <2> USE <1>3 DEF HubBroadcast
    <2> DEFINE m == Head(outgoing[c])
    <2>1. m \in Message
      BY DEF Control, TypeOK
    <2>2. UNCHANGED <<sendBuf, sendState, wire, inHand>> /\ hubTodo = {}
      BY DEF AtSelect, writerVars
    <2> HIDE DEF m
    <2>3. PICK todo \in SUBSET Matching(m) :
             /\ hubTodo' = todo
             /\ hubMsg' = IF todo = {} THEN <<>> ELSE <<m>>
             /\ feed' = [d \in Clients |-> IF d \in todo THEN Append(feed[d], m) ELSE feed[d]]
      BY DEF m
    <2>4. ASSUME NEW d \in Clients PROVE FlowOf(d)'
      <3>1. CASE d \in todo
        <4>1. Head(hubMsg') = m /\ d \in hubTodo'
          BY <2>3, <3>1
        <4>2. sendState[d] = "open"
          BY <2>1, <3>1 DEF Matching, Message, Control, MemberInv
        <4>3. feed[d] = Got(d)
          BY <2>2, <4>2 DEF NothingLostInside, FlowOf
        <4>4. feed'[d] = Append(Got(d), m)
          BY <2>3, <3>1, <4>3
        <4> QED  BY <2>2, <4>1, <4>4 DEF FlowOf, Got
      <3>2. CASE d \notin todo
        <4>1. feed'[d] = feed[d] /\ d \notin hubTodo'
          BY <2>3, <3>2
        <4> QED  BY <2>2, <4>1, FlowKept DEF NothingLostInside, Got
      <3> QED  BY <3>1, <3>2
    <2> QED  BY <2>4 DEF NothingLostInside
  <1>4. CASE HubSend(c)
    <2> USE <1>4 DEF HubSend
    <2>1. UNCHANGED <<sendState, wire, inHand, feed>> /\ c \in hubTodo
      BY DEF writerVars
    <2>2. Head(hubMsg) \in Message
      BY HeadTailProperties DEF Control, LoopInv, TypeOK
    <2>3. c \notin hubTodo' /\ \A d \in hubTodo' : d \in hubTodo /\ hubMsg' = hubMsg
      BY DEF Visited
    <2>4. FlowOf(c)'
      <3>1. Got(c)' = Append(Got(c), Head(hubMsg))
        <4>1. /\ wire[c] \in Seq(Message) /\ inHand[c] \in Seq(Message)
              /\ sendBuf[c] \in Seq(Message)
              /\ sendBuf'[c] = Append(sendBuf[c], Head(hubMsg))
          BY DEF Control, TypeOK
        <4>2. wire[c] \o inHand[c] \in Seq(Message)
          BY <4>1, ConcatProperties
        <4>3. Got(c)' = (wire[c] \o inHand[c]) \o Append(sendBuf[c], Head(hubMsg))
          BY <2>1, <4>1 DEF Got
        <4>4. (wire[c] \o inHand[c]) \o Append(sendBuf[c], Head(hubMsg))
                = Append((wire[c] \o inHand[c]) \o sendBuf[c], Head(hubMsg))
          <5>1. \A t, u \in Seq(Message), e \in Message : t \o Append(u, e) = Append(t \o u, e)
            BY ConcatAppend
          <5> QED  BY <2>2, <4>1, <4>2, <5>1
        <4> QED  BY <4>3, <4>4 DEF Got
      <3>2. feed[c] = Append(Got(c), Head(hubMsg))
        BY <2>1 DEF NothingLostInside, FlowOf
      <3>3. sendState[c] = "open"
        BY <2>1, <2>2 DEF Control, LoopInv, MemberInv, Message
      <3> QED  BY <2>1, <2>3, <3>1, <3>2, <3>3 DEF FlowOf
    <2>5. ASSUME NEW d \in Clients, d # c PROVE FlowOf(d)'
      <3>1. sendBuf'[d] = sendBuf[d] /\ (d \in hubTodo' <=> d \in hubTodo)
        BY <2>5 DEF Control, TypeOK, Visited
      <3> QED  BY <2>1, <2>3, <3>1, FlowKept DEF NothingLostInside, Got
    <2> QED  BY <2>4, <2>5 DEF NothingLostInside
  <1>5. CASE HubEvict(c)
    <2> USE <1>5 DEF HubEvict
    <2>1. UNCHANGED <<sendBuf, wire, inHand, feed>> /\ c \in hubTodo
      BY DEF writerVars
    <2>2. Head(hubMsg) \in Message
      BY HeadTailProperties DEF Control, LoopInv, TypeOK
    <2>3. c \notin hubTodo' /\ \A d \in hubTodo' : d \in hubTodo /\ hubMsg' = hubMsg
      BY DEF Visited
    <2>4. FlowOf(c)'
      <3>1. feed[c] = Append(Got(c), Head(hubMsg))
        BY <2>1 DEF NothingLostInside, FlowOf
      <3>2. sendState'[c] = "evicted"
        BY DEF Control, TypeOK
      <3> QED  BY <2>1, <2>2, <2>3, <3>1, <3>2 DEF FlowOf, Got
    <2>5. ASSUME NEW d \in Clients, d # c PROVE FlowOf(d)'
      <3>1. sendState'[d] = sendState[d] /\ (d \in hubTodo' <=> d \in hubTodo)
        BY <2>5 DEF Control, TypeOK, Visited
      <3> QED  BY <2>1, <2>3, <3>1, FlowKept DEF NothingLostInside, Got
    <2> QED  BY <2>4, <2>5 DEF NothingLostInside
  <1> QED  BY <1>1, <1>2, <1>3, <1>4, <1>5 DEF HubStep

-----------------------------------------------------------------------------
(* The theorems.                                                           *)

\* HubInv is inductive.
THEOREM HubInvariant == Spec => []HubInv
  <1>1. Init => HubInv
    BY InitControl, InitFlow DEF HubInv
  <1>2. HubInv /\ [Next]_vars => HubInv'
    <2> SUFFICES ASSUME HubInv, [Next]_vars PROVE HubInv'
      OBVIOUS
    <2>1. Control'
      BY ControlStep DEF HubInv
    <2>2. NothingLostInside'
      <3>1. CASE \E c \in Clients : ReaderStep(c) \/ WriterStep(c) \/ HubStep(c)
        BY <3>1, ReaderFlow, WriterFlow, HubFlow DEF HubInv
      <3>2. CASE UNCHANGED vars
        BY <3>2, FlowKept DEF vars, hubVars, readerVars, writerVars, HubInv,
           NothingLostInside, Got
      <3> QED  BY <3>1, <3>2 DEF Next, Quiet
    <2> QED  BY <2>1, <2>2 DEF HubInv
  <1> QED  BY <1>1, <1>2, PTL DEF Spec

\* Every variable keeps its type: in particular no channel holds more than its
\* capacity, and no goroutine of websocket/websocket.go is in two places.
THEOREM TypeCorrect == Spec => []TypeOK
  <1>1. HubInv => TypeOK
    BY DEF HubInv, Control
  <1> QED  BY <1>1, HubInvariant, PTL

\* Hub.Run never sends on a channel it has closed and never closes one twice:
\* the panic that would end the server does not happen.
THEOREM NeverSendsOnClosed == Spec => []NoSendOnClosed
  <1>1. HubInv => NoSendOnClosed
    <2> SUFFICES ASSUME HubInv PROVE NoSendOnClosed
      OBVIOUS
    <2>1. \A r \in RoomNames : \A c \in clients[r] : RoomOf[c] = r /\ sendState[c] = "open"
      BY DEF HubInv, Control, MemberInv
    <2>2. ASSUME NEW c \in hubTodo PROVE sendState[c] = "open"
      <3>1. hubMsg \in Seq(Message)
        BY DEF HubInv, Control, TypeOK
      <3>2. hubMsg # <<>>
        BY <2>2 DEF HubInv, Control, LoopInv
      <3>3. Head(hubMsg) \in Message
        BY <3>1, <3>2, HeadTailProperties
      <3>4. Head(hubMsg).room \in RoomNames
        BY <3>3 DEF Message
      <3> QED  BY <2>1, <2>2, <3>4 DEF HubInv, Control, LoopInv
    <2> QED  BY <2>1, <2>2 DEF NoSendOnClosed
  <1> QED  BY <1>1, HubInvariant, PTL

\* What the channel, the WritePump and the connection hold is exactly what Run
\* accepted for the client, in order: nothing is lost, doubled or reordered.
THEOREM NothingIsLost == Spec => []NothingLostInside
  <1>1. HubInv => NothingLostInside
    BY DEF HubInv
  <1> QED  BY <1>1, HubInvariant, PTL

-----------------------------------------------------------------------------
(* The end of a connection.                                                *)

\* A WritePump that writes has a message to write; one that ended with an empty
\* hand found its channel closed and drained.
EndOf(c) ==
    /\ writePump[c] = "writing" => inHand[c] # <<>>
    /\ writePump[c] = "done" /\ inHand[c] = <<>> => sendBuf[c] = <<>> /\ sendState[c] # "open"

EndInv == \A c \in Clients : EndOf(c)

\* Run hands messages to clients with an open channel only.
LEMMA VisitsOpen ==
    ASSUME Control, NEW c \in hubTodo
    PROVE  c \in Clients /\ sendState[c] = "open"
  <1>1. hubMsg \in Seq(Message) /\ hubMsg # <<>> /\ c \in clients[Head(hubMsg).room]
    BY DEF Control, LoopInv, TypeOK
  <1>2. Head(hubMsg).room \in RoomNames
    <2>1. Head(hubMsg) \in Message
      BY <1>1, HeadTailProperties
    <2> QED  BY <2>1 DEF Message
  <1> QED  BY <1>1, <1>2 DEF Control, MemberInv, TypeOK

\* What a step does to the channels and the hands of the other clients: nothing.
LEMMA EndKept ==
    ASSUME NEW c \in Clients, EndOf(c),
           writePump'[c] = writePump[c], inHand'[c] = inHand[c],
           sendBuf'[c] = sendBuf[c],
           sendState[c] # "open" => sendState'[c] # "open"
    PROVE  EndOf(c)'
  BY DEF EndOf

-----------------------------------------------------------------------------
(* EndInv is inductive, given Control.                                     *)

LEMMA WriterEnds ==
    ASSUME Control, EndInv, NEW c \in Clients, WriterStep(c)
    PROVE  EndInv'
  <1> SUFFICES ASSUME NEW d \in Clients PROVE EndOf(d)'
    BY DEF EndInv
  <1>0. EndOf(d)
    BY DEF EndInv
  <1> USE DEF Control, TypeOK
  <1>1. CASE d # c
    <2>1. /\ writePump'[d] = writePump[d] /\ inHand'[d] = inHand[d]
          /\ sendBuf'[d] = sendBuf[d] /\ sendState'[d] = sendState[d]
      BY <1>1 DEF WriterStep, WriterTake, WriteOk, WriteErr, WriterEnd
    <2> QED  BY <1>0, <2>1, EndKept
  <1>2. CASE d = c
    <2>1. CASE WriterTake(c)
      <3>1. <<Head(sendBuf[c])>> # <<>>
        OBVIOUS
      <3>2. inHand'[c] = <<Head(sendBuf[c])>> /\ writePump'[c] = "writing"
        BY <2>1 DEF WriterTake
      <3> QED  BY <1>2, <3>1, <3>2 DEF EndOf
    <2>2. CASE WriteOk(c)
      <3>1. writePump'[c] = "ranging"
        BY <2>2 DEF WriteOk
      <3> QED  BY <1>2, <3>1 DEF EndOf
    <2>3. CASE WriteErr(c)
      <3>1. writePump'[c] = "done" /\ inHand'[c] # <<>>
        BY <1>0, <1>2, <2>3 DEF WriteErr, EndOf
      <3> QED  BY <1>2, <3>1 DEF EndOf
    <2>4. CASE WriterEnd(c)
      <3>1. writePump'[c] = "done" /\ sendBuf'[c] = <<>> /\ sendState'[c] # "open"
        BY <2>4 DEF WriterEnd
      <3> QED  BY <1>2, <3>1 DEF EndOf
    <2> QED  BY <2>1, <2>2, <2>3, <2>4 DEF WriterStep
  <1> QED  BY <1>1, <1>2

LEMMA HubEnds ==
    ASSUME Control, EndInv, NEW c \in Clients, HubStep(c)
    PROVE  EndInv'
  <1> SUFFICES ASSUME NEW d \in Clients PROVE EndOf(d)'
    BY DEF EndInv
  <1>0. EndOf(d)
    BY DEF EndInv
  <1> USE DEF Control, TypeOK
  <1>1. CASE HubRegister(c)
    <2>1. UNCHANGED <<sendBuf, sendState, inHand>>
      BY <1>1 DEF HubRegister
    <2>2. writePump' = [writePump EXCEPT ![c] = "ranging"]
      BY <1>1 DEF HubRegister
    <2>3. CASE d = c
      BY <2>2, <2>3 DEF EndOf
    <2>4. CASE d # c
      BY <1>0, <2>1, <2>2, <2>4, EndKept
    <2> QED  BY <2>3, <2>4
  <1>2. CASE HubUnregister(c) \/ HubBroadcast(c) \/ HubEvict(c)
    <2>1. UNCHANGED <<sendBuf, inHand, writePump>>
      BY <1>2 DEF HubUnregister, HubBroadcast, HubEvict, writerVars
    <2>2. sendState[d] # "open" => sendState'[d] # "open"
      BY <1>2 DEF HubUnregister, HubBroadcast, HubEvict
    <2> QED  BY <1>0, <2>1, <2>2, EndKept
  <1>3. CASE HubSend(c)
    <2>1. UNCHANGED <<sendState, inHand, writePump>>
      BY <1>3 DEF HubSend, writerVars
    <2>2. CASE d # c
      <3>1. sendBuf'[d] = sendBuf[d]
        BY <1>3, <2>2 DEF HubSend
      <3> QED  BY <1>0, <2>1, <3>1, EndKept
    <2>3. CASE d = c
      <3>1. sendState[c] = "open"
        BY <1>3, VisitsOpen DEF HubSend
      <3> QED  BY <1>0, <2>1, <2>3, <3>1 DEF EndOf
    <2> QED  BY <2>2, <2>3
  <1> QED  BY <1>1, <1>2, <1>3 DEF HubStep

LEMMA EndInvariant == Spec => []EndInv
  <1>1. Init => EndInv
    BY DEF Init, EndInv, EndOf
  <1>2. HubInv /\ EndInv /\ [Next]_vars => EndInv'
    <2> SUFFICES ASSUME HubInv, EndInv, [Next]_vars PROVE EndInv'
      OBVIOUS
    <2>1. CASE UNCHANGED vars
      BY <2>1 DEF vars, writerVars, EndInv, EndOf
    <2>2. ASSUME NEW c \in Clients, ReaderStep(c) PROVE EndInv'
      <3>1. UNCHANGED <<writePump, inHand, sendBuf, sendState>>
        BY <2>2 DEF ReaderStep, Connect, ReadCommand, ReadFail, ReaderClose, writerVars
      <3> QED  BY <3>1 DEF EndInv, EndOf
    <2> QED  BY <2>1, <2>2, WriterEnds, HubEnds DEF Next, Quiet, HubInv
  <1> QED  BY <1>1, <1>2, HubInvariant, PTL DEF Spec

-----------------------------------------------------------------------------
(* The theorems.                                                           *)

\* A WritePump that ended because Run closed its channel wrote everything that
\* was accepted for its client, but for the message that got it evicted.
THEOREM CleanEnds == Spec => []CleanEndDeliversAll
  <1>1. HubInv /\ EndInv => CleanEndDeliversAll
    <2> SUFFICES ASSUME HubInv, EndInv, NEW c \in Clients,
                        writePump[c] = "done", inHand[c] = <<>>
                 PROVE  \/ wire[c] = feed[c]
                        \/ sendState[c] = "evicted" /\ Len(feed[c]) = Len(wire[c]) + 1
      BY DEF CleanEndDeliversAll
    <2>1. sendBuf[c] = <<>> /\ sendState[c] # "open"
      BY DEF EndInv, EndOf
    <2>2. wire[c] \in Seq(Message)
      BY DEF HubInv, Control, TypeOK
    <2>3. Got(c) = wire[c]
      <3>1. wire[c] \o <<>> = wire[c]
        BY <2>2, ConcatEmptySeq
      <3> QED  BY <2>1, <3>1 DEF Got
    <2>4. c \notin hubTodo
      BY <2>1, VisitsOpen DEF HubInv
    <2>5. CASE sendState[c] = "evicted"
      <3>1. PICK m \in Message : feed[c] = Append(wire[c], m)
        BY <2>3, <2>4, <2>5 DEF HubInv, NothingLostInside, FlowOf
      <3>2. Len(feed[c]) = Len(wire[c]) + 1
        BY <2>2, <3>1, AppendProperties
      <3> QED  BY <2>5, <3>2
    <2>6. CASE sendState[c] # "evicted"
      BY <2>3, <2>4, <2>6 DEF HubInv, NothingLostInside, FlowOf
    <2> QED  BY <2>5, <2>6
  <1> QED  BY <1>1, HubInvariant, EndInvariant, PTL

\* Once Run has closed a channel, by an eviction or an unregistration, it never
\* touches it again: the channel only drains and is closed no second time.
THEOREM ClosedStaysClosed == Spec => AfterCloseOnlyDrain
  <1>1. HubInv /\ [Next]_vars => [ClosedKept]_vars
    <2> SUFFICES ASSUME HubInv, Next, NEW d \in Clients, sendState[d] # "open"
                 PROVE  CloseKept(d) \/ UNCHANGED vars
      BY DEF CloseKept, ClosedKept
    <2> USE DEF HubInv, Control, TypeOK
    <2>1. ASSUME NEW c \in Clients, ReaderStep(c) PROVE CloseKept(d)
      BY <2>1 DEF ReaderStep, Connect, ReadCommand, ReadFail, ReaderClose, CloseKept
    <2>2. ASSUME NEW c \in Clients, WriterStep(c) PROVE CloseKept(d)
      BY <2>2 DEF WriterStep, WriterTake, WriteOk, WriteErr, WriterEnd, CloseKept
    <2>3. ASSUME NEW c \in Clients, HubStep(c) PROVE CloseKept(d)
      <3>1. CASE HubRegister(c)
        BY <3>1 DEF HubRegister, CloseKept
      <3>2. CASE HubUnregister(c)
        <4>1. UNCHANGED <<sendBuf, feed>>
          BY <3>2 DEF HubUnregister
        <4>2. c \in clients[RoomOf[c]] => sendState[c] = "open"
          BY HubAssumption DEF MemberInv
        <4>3. sendState'[d] = sendState[d]
          BY <3>2, <4>2 DEF HubUnregister
        <4> QED  BY <4>1, <4>3 DEF CloseKept
      <3>3. CASE HubBroadcast(c)
        <4> DEFINE m == Head(outgoing[c])
        <4>1. UNCHANGED <<sendBuf, sendState>>
          BY <3>3 DEF HubBroadcast
        <4>2. m \in Message
          <5>1. outgoing[c] \in Seq(Message) /\ outgoing[c] # <<>>
            BY <3>3, EmptySeq DEF HubBroadcast
          <5> QED  BY <5>1, HeadTailProperties
        <4>3. PICK to \in IF m.id = NoId \/ Matching(m) = {}
                          THEN {Matching(m)} ELSE {{x} : x \in Matching(m)} :
                 feed' = [x \in Clients |-> IF x \in to THEN Append(feed[x], m) ELSE feed[x]]
          BY <3>3 DEF HubBroadcast
        <4> HIDE DEF m
        <4>4. to \subseteq Matching(m)
          BY <4>3
        <4>5. d \notin Matching(m)
          BY <4>2 DEF Matching, Message, MemberInv
        <4>6. feed'[d] = feed[d]
          BY <4>3, <4>4, <4>5
        <4> QED  BY <4>1, <4>6 DEF CloseKept
      <3>4. CASE HubSend(c)
        <4>1. d # c
          BY <3>4, VisitsOpen DEF HubSend
        <4> QED  BY <3>4, <4>1 DEF HubSend, CloseKept
      <3>5. CASE HubEvict(c)
        <4>1. d # c
          BY <3>5, VisitsOpen DEF HubEvict
        <4> QED  BY <3>5, <4>1 DEF HubEvict, CloseKept
      <3> QED  BY <2>3, <3>1, <3>2, <3>3, <3>4, <3>5 DEF HubStep
    <2> QED  BY <2>1, <2>2, <2>3 DEF Next, Quiet
  <1> QED  BY <1>1, HubInvariant, PTL DEF Spec, AfterCloseOnlyDrain

\* A room comes to be kept without clients only by the eviction of its last client:
\* the last client that unregisters takes its room with it.
THEOREM RoomsGo == Spec => EmptyRoomOnlyByEviction
  <1>1. HubInv /\ [Next]_vars => [RoomsLeftEmpty]_vars
    <2> SUFFICES ASSUME HubInv, Next, NEW r \in RoomNames, LeftEmpty(r)
                 PROVE  LastEvicted(r) \/ UNCHANGED vars
      BY DEF RoomsLeftEmpty
    <2> USE DEF HubInv, Control, TypeOK
    <2>1. CASE UNCHANGED <<rooms, clients>>
      BY <2>1 DEF LeftEmpty
    <2>2. ASSUME NEW c \in Clients, ReaderStep(c) \/ WriterStep(c) \/ HubBroadcast(c) \/ HubSend(c)
          PROVE  UNCHANGED <<rooms, clients>>
      BY <2>2 DEF ReaderStep, Connect, ReadCommand, ReadFail, ReaderClose, WriterStep,
         WriterTake, WriteOk, WriteErr, WriterEnd, HubBroadcast, HubSend, hubVars
    <2>3. ASSUME NEW c \in Clients, HubRegister(c)
          PROVE  FALSE
      <3>1. /\ rooms' = rooms \cup {RoomOf[c]}
            /\ clients' = [clients EXCEPT ![RoomOf[c]] = clients[RoomOf[c]] \cup {c}]
        BY <2>3 DEF HubRegister
      <3>2. RoomOf[c] \in RoomNames /\ c \in clients'[RoomOf[c]]
        BY <3>1, HubAssumption
      <3>3. r # RoomOf[c]
        BY <3>2 DEF LeftEmpty
      <3> QED  BY <3>1, <3>2, <3>3 DEF LeftEmpty
    <2>4. ASSUME NEW c \in Clients, HubUnregister(c)
          PROVE  UNCHANGED <<rooms, clients>>
      <3> DEFINE q == RoomOf[c]
      <3>1. CASE /\ q \in rooms /\ c \in clients[q]
                 /\ clients' = [clients EXCEPT ![q] = clients[q] \ {c}]
                 /\ rooms' = IF clients[q] = {c} THEN rooms \ {q} ELSE rooms
        <4>1. r # q
          BY <3>1, HubAssumption DEF LeftEmpty
        <4> QED  BY <3>1, <4>1, HubAssumption DEF LeftEmpty
      <3> QED  BY <2>4, <3>1 DEF HubUnregister
    <2>5. ASSUME NEW c \in Clients, HubEvict(c)
          PROVE  LastEvicted(r)
      <3> DEFINE q == Head(hubMsg).room
      <3>1. /\ UNCHANGED rooms
            /\ clients' = [clients EXCEPT ![q] = clients[q] \ {c}]
            /\ sendState' = [sendState EXCEPT ![c] = "evicted"]
        BY <2>5 DEF HubEvict
      <3>2. q \in RoomNames /\ c \in clients[q]
        <4>1. hubMsg \in Seq(Message) /\ hubMsg # <<>> /\ c \in clients[q]
          BY <2>5 DEF LoopInv, HubEvict
        <4>2. Head(hubMsg) \in Message
          BY <4>1, HeadTailProperties
        <4> QED  BY <4>1, <4>2 DEF Message
      <3> HIDE DEF q
      <3>3. r = q
        BY <3>1, <3>2 DEF LeftEmpty
      <3>4. clients[q] = {c}
        BY <3>1, <3>2, <3>3 DEF LeftEmpty
      <3>5. sendState[c] = "open" /\ sendState'[c] = "evicted"
        BY <3>1, <3>2 DEF MemberInv
      <3> QED  BY <3>3, <3>4, <3>5 DEF LastEvicted
    <2> QED  BY <2>1, <2>2, <2>3, <2>4, <2>5 DEF Next, Quiet, HubStep
  <1> QED  BY <1>1, HubInvariant, PTL DEF Spec, EmptyRoomOnlyByEviction
-----------------------------------------------------------------------------
(* What the clients of one room see.                                       *)

\* The messages for the whole room at the positions i to j of a sequence.
Wide(s, i, j) == {s[x] : x \in {y \in i..j : s[y].id = NoId}}

\* What s and t have in common comes in the same order in both, with the same
\* messages for the whole room in between.
SameOrder(s, t) ==
    \A i, j \in DOMAIN s : \A k, l \in DOMAIN t :
        i < j /\ s[i] = t[k] /\ s[j] = t[l] => k < l /\ Wide(s, i, j) = Wide(t, k, l)

\* After a message they have in common, s and t go on with the same messages
\* for the whole room.
SameSince(s, t) ==
    \A i \in DOMAIN s : \A k \in DOMAIN t :
        s[i] = t[k] => Wide(s, i, Len(s)) = Wide(t, k, Len(t))

\* A message that waits to be broadcast is not the one another client waits
\* with, and was accepted for nobody yet.
Waits(b, m) == outgoing[b] # <<>> /\ Head(outgoing[b]) = m

FreshInv ==
    /\ \A c \in Clients : \A i \in DOMAIN feed[c] : feed[c][i].no <= issued
    /\ \A b \in Clients : \A m \in Message : Waits(b, m) =>
          /\ m.no <= issued
          /\ \A c \in Clients : \A i \in DOMAIN feed[c] : feed[c][i].no # m.no
          /\ \A d \in Clients : \A n \in Message : d # b /\ Waits(d, n) => n.no # m.no

\* A client that has yet to join its room was accepted nothing.
NewcomerInv == \A c \in Clients : readPump[c] \in {"absent", "registering"} => feed[c] = <<>>

OrderInv == \A c, d \in Clients : SameOrder(feed[c], feed[d])

\* The clients that are in a room now are level.
LevelInv == \A r \in RoomNames : \A c, d \in clients[r] : SameSince(feed[c], feed[d])

FeedInv == FreshInv /\ NewcomerInv /\ OrderInv /\ LevelInv

\* The part of a message in what the whole room sees.
Shown(m) == IF m.id = NoId THEN {m} ELSE {}

\* a is s with one broadcast more, m.
Grown(s, a, m) ==
    /\ Len(s) \in Nat /\ DOMAIN s = 1..Len(s)
    /\ Len(a) = Len(s) + 1 /\ DOMAIN a = 1..(Len(s) + 1)
    /\ a[Len(s) + 1] = m
    /\ \A x \in 1..Len(s) : a[x] = s[x]
    /\ \A i, j \in 1..Len(s) : Wide(a, i, j) = Wide(s, i, j)
    /\ \A i \in 1..Len(s) : Wide(a, i, Len(s) + 1) = Wide(s, i, Len(s)) \cup Shown(m)
    /\ Wide(a, Len(s) + 1, Len(s) + 1) = Shown(m)

\* What appending a message does to the positions there are and to the new one.
LEMMA AppendGrows ==
    ASSUME NEW s \in Seq(Message), NEW m \in Message
    PROVE  Grown(s, Append(s, m), m)
  <1> DEFINE t == Append(s, m)
             L == Len(s)
  <1>1. /\ L \in Nat /\ DOMAIN s = 1..L
        /\ Len(t) = L + 1 /\ DOMAIN t = 1..(L + 1)
        /\ t[L + 1] = m /\ \A x \in 1..L : t[x] = s[x]
    BY AppendProperties, LenProperties
  <1> HIDE DEF t, L
  <1>2. ASSUME NEW i \in 1..L, NEW j \in 1..L PROVE Wide(t, i, j) = Wide(s, i, j)
    <2>1. \A y \in i..j : y \in 1..L /\ t[y] = s[y]
      BY <1>1, <1>2
    <2> QED  BY <2>1 DEF Wide
  <1>3. ASSUME NEW i \in 1..L PROVE Wide(t, i, L + 1) = Wide(s, i, L) \cup Shown(m)
    <2>1. i..(L + 1) = (i..L) \cup {L + 1}
      BY <1>1
    <2>2. \A y \in i..L : t[y] = s[y]
      BY <1>1
    <2> QED  BY <1>1, <2>1, <2>2 DEF Wide, Shown
  <1>4. Wide(t, L + 1, L + 1) = Shown(m)
    <2>1. (L + 1)..(L + 1) = {L + 1}
      BY <1>1
    <2> QED  BY <1>1, <2>1 DEF Wide, Shown
  <1> QED  BY <1>1, <1>2, <1>3, <1>4 DEF t, L, Grown

\* A broadcast that goes to both: it keeps the order, and it keeps them level.
LEMMA BothGrow ==
    ASSUME NEW s, NEW a, NEW t, NEW b, NEW m, Grown(s, a, m), Grown(t, b, m),
           \A i \in DOMAIN s : s[i] # m, \A i \in DOMAIN t : t[i] # m
    PROVE  /\ SameSince(s, t) => SameSince(a, b)
           /\ SameSince(s, t) /\ SameOrder(s, t) => SameOrder(a, b)
  <1> DEFINE L == Len(s)
             M == Len(t)
  <1>1. /\ L \in Nat /\ M \in Nat /\ DOMAIN s = 1..L /\ DOMAIN t = 1..M
        /\ DOMAIN a = 1..(L + 1) /\ DOMAIN b = 1..(M + 1)
        /\ Len(a) = L + 1 /\ Len(b) = M + 1
        /\ a[L + 1] = m /\ b[M + 1] = m
        /\ \A x \in 1..L : a[x] = s[x]
        /\ \A x \in 1..M : b[x] = t[x]
    BY DEF Grown
  <1>2. /\ \A i \in 1..L : Wide(a, i, L + 1) = Wide(s, i, L) \cup Shown(m)
        /\ \A i \in 1..M : Wide(b, i, M + 1) = Wide(t, i, M) \cup Shown(m)
        /\ Wide(a, L + 1, L + 1) = Wide(b, M + 1, M + 1)
    BY DEF Grown
  <1>3. /\ \A i, j \in 1..L : Wide(a, i, j) = Wide(s, i, j)
        /\ \A i, j \in 1..M : Wide(b, i, j) = Wide(t, i, j)
    BY DEF Grown
  <1>4. SameSince(s, t) => \A i \in 1..L, k \in 1..M : s[i] = t[k] => Wide(s, i, L) = Wide(t, k, M)
    BY <1>1 DEF SameSince
  <1> HIDE DEF L, M
  <1>5. ASSUME NEW i \in DOMAIN a, NEW k \in DOMAIN b, a[i] = b[k]
        PROVE  \/ i \in 1..L /\ k \in 1..M /\ s[i] = t[k]
               \/ i = L + 1 /\ k = M + 1
    BY <1>1, <1>5
  <1>6. ASSUME SameSince(s, t), NEW i \in DOMAIN a, NEW k \in DOMAIN b, a[i] = b[k]
        PROVE  Wide(a, i, L + 1) = Wide(b, k, M + 1)
    <2>1. CASE i \in 1..L /\ k \in 1..M /\ s[i] = t[k]
      <3>1. Wide(s, i, L) = Wide(t, k, M)
        BY <1>4, <1>6, <2>1
      <3> QED  BY <1>2, <2>1, <3>1
    <2>2. CASE i = L + 1 /\ k = M + 1
      BY <1>2, <2>2
    <2> QED  BY <1>5, <1>6, <2>1, <2>2
  <1>7. SameSince(s, t) => SameSince(a, b)
    BY <1>1, <1>6 DEF SameSince
  <1>8. SameSince(s, t) /\ SameOrder(s, t) => SameOrder(a, b)
    <2> SUFFICES ASSUME SameSince(s, t), SameOrder(s, t),
                        NEW i \in DOMAIN a, NEW j \in DOMAIN a,
                        NEW k \in DOMAIN b, NEW l \in DOMAIN b,
                        i < j, a[i] = b[k], a[j] = b[l]
                 PROVE  k < l /\ Wide(a, i, j) = Wide(b, k, l)
      BY DEF SameOrder
    <2>0. /\ \/ i \in 1..L /\ k \in 1..M /\ s[i] = t[k]
             \/ i = L + 1 /\ k = M + 1
          /\ \/ j \in 1..L /\ l \in 1..M /\ s[j] = t[l]
             \/ j = L + 1 /\ l = M + 1
      BY <1>5
    <2>1. CASE j = L + 1
      <3>1. l = M + 1 /\ k \in 1..M
        BY <1>1, <2>0, <2>1
      <3>2. k < l
        BY <1>1, <3>1
      <3> QED  BY <1>6, <2>1, <3>1, <3>2
    <2>2. CASE j # L + 1
      <3>1. i \in 1..L /\ j \in 1..L /\ k \in 1..M /\ l \in 1..M /\ s[i] = t[k] /\ s[j] = t[l]
        BY <1>1, <2>0, <2>2
      <3>2. k < l /\ Wide(s, i, j) = Wide(t, k, l)
        BY <1>1, <3>1 DEF SameOrder
      <3> QED  BY <1>3, <3>1, <3>2
    <2> QED  BY <2>1, <2>2
  <1> QED  BY <1>7, <1>8

\* A broadcast that goes to one of them only.
LEMMA OneGrows ==
    ASSUME NEW s, NEW a, NEW t, NEW m, Grown(s, a, m), \A i \in DOMAIN t : t[i] # m
    PROVE  /\ SameOrder(s, t) => SameOrder(a, t)
           /\ SameOrder(t, s) => SameOrder(t, a)
           /\ m.id # NoId /\ SameSince(s, t) => SameSince(a, t)
           /\ m.id # NoId /\ SameSince(t, s) => SameSince(t, a)
  <1> DEFINE L == Len(s)
  <1>1. /\ L \in Nat /\ DOMAIN s = 1..L /\ DOMAIN a = 1..(L + 1) /\ Len(a) = L + 1
        /\ a[L + 1] = m /\ \A x \in 1..L : a[x] = s[x]
    BY DEF Grown
  <1>2. \A i, j \in 1..L : Wide(a, i, j) = Wide(s, i, j)
    BY DEF Grown
  <1>3. m.id # NoId => \A i \in 1..L : Wide(a, i, L + 1) = Wide(s, i, L)
    BY DEF Grown, Shown
  <1> HIDE DEF L
  <1>4. \A i \in DOMAIN a, k \in DOMAIN t : a[i] = t[k] => i \in 1..L /\ s[i] = t[k]
    BY <1>1
  <1>5. SameOrder(s, t) => SameOrder(a, t)
    BY <1>1, <1>2, <1>4 DEF SameOrder
  <1>6. SameOrder(t, s) => SameOrder(t, a)
    BY <1>1, <1>2, <1>4 DEF SameOrder
  <1>7. m.id # NoId /\ SameSince(s, t) => SameSince(a, t)
    BY <1>1, <1>3, <1>4 DEF SameSince, L
  <1>8. m.id # NoId /\ SameSince(t, s) => SameSince(t, a)
    BY <1>1, <1>3, <1>4 DEF SameSince, L
  <1> QED  BY <1>5, <1>6, <1>7, <1>8

-----------------------------------------------------------------------------
(* FeedInv is inductive, given Control.                                    *)

\* A step that hands over no command and accepts none.
LEMMA FeedKept ==
    ASSUME Control, FeedInv, UNCHANGED <<feed, outgoing, issued>>,
           \A c \in Clients : readPump'[c] \in {"absent", "registering"} =>
                                 readPump[c] \in {"absent", "registering"},
           \A r \in RoomNames : \A c \in clients'[r] : c \in clients[r] \/ feed[c] = <<>>,
           clients' \in [RoomNames -> SUBSET Clients]
    PROVE  FeedInv'
  <1>1. FreshInv'
    BY DEF FeedInv, FreshInv, Waits
  <1>2. NewcomerInv' /\ OrderInv'
    BY DEF FeedInv, NewcomerInv, OrderInv
  <1>3. LevelInv'
    <2> SUFFICES ASSUME NEW r \in RoomNames, NEW c \in clients'[r], NEW d \in clients'[r]
                 PROVE  SameSince(feed[c], feed[d])
      BY DEF LevelInv
    <2>1. CASE feed[c] = <<>> \/ feed[d] = <<>>
      BY <2>1 DEF SameSince
    <2>2. CASE c \in clients[r] /\ d \in clients[r]
      BY <2>2 DEF FeedInv, LevelInv
    <2> QED  BY <2>1, <2>2
  <1> QED  BY <1>1, <1>2, <1>3 DEF FeedInv

\* A command brings a message with a number of its own.
LEMMA CommandFeed ==
    ASSUME Control, FeedInv, NEW c \in Clients, ReadCommand(c)
    PROVE  FeedInv'
  <1> USE DEF ReadCommand, hubVars
  <1>1. NewcomerInv' /\ OrderInv' /\ LevelInv'
    BY DEF FeedInv, NewcomerInv, OrderInv, LevelInv, Control, TypeOK
  <1>2. issued \in Nat /\ issued' = issued + 1 /\ feed' = feed
    BY HubAssumption DEF Control, TypeOK
  <1>3. \A d \in Clients : \A i \in DOMAIN feed[d] :
            feed[d][i].no \in Nat /\ feed[d][i].no <= issued
    <2>1. \A d \in Clients : \A i \in DOMAIN feed[d] : feed[d][i] \in Message
      BY ElementOfSeq, LenProperties DEF Control, TypeOK
    <2> QED  BY <2>1, HubAssumption DEF Message, FeedInv, FreshInv
  <1>4. PICK p : p.no = issued + 1 /\ outgoing' = [outgoing EXCEPT ![c] = <<p>>]
    <2>1. PICK a \in Addresses :
             outgoing' = [outgoing EXCEPT ![c] = <<[no |-> issued + 1, room |-> a.room, id |-> a.id]>>]
      OBVIOUS
    <2> QED  BY <2>1
  <1>5. /\ \A m \in Message : Waits(c, m)' => m.no = issued + 1
        /\ \A b \in Clients : \A m \in Message : b # c /\ Waits(b, m)' => Waits(b, m)
    BY <1>4 DEF Waits, Control, TypeOK
  <1>6. \A b \in Clients : \A m \in Message : Waits(b, m) =>
            /\ m.no \in Nat /\ m.no <= issued
            /\ \A d \in Clients : \A i \in DOMAIN feed[d] : feed[d][i].no # m.no
            /\ \A d \in Clients : \A n \in Message : d # b /\ Waits(d, n) => n.no # m.no
    BY HubAssumption DEF FeedInv, FreshInv, Message
  <1>7. FreshInv'
    <2>1. \A d \in Clients : \A i \in DOMAIN feed'[d] : feed'[d][i].no <= issued'
      BY <1>2, <1>3
    <2>2. ASSUME NEW b \in Clients, NEW m \in Message, Waits(b, m)'
          PROVE  /\ m.no <= issued'
                 /\ \A d \in Clients : \A i \in DOMAIN feed'[d] : feed'[d][i].no # m.no
                 /\ \A d \in Clients : \A n \in Message : d # b /\ Waits(d, n)' => n.no # m.no
      <3>1. CASE b = c
        <4>1. m.no = issued + 1
          BY <1>5, <2>2, <3>1
        <4>2. \A d \in Clients : \A n \in Message : d # b /\ Waits(d, n)' => n.no # m.no
          BY <1>2, <1>5, <1>6, <3>1, <4>1
        <4>3. \A d \in Clients : \A i \in DOMAIN feed'[d] : feed'[d][i].no # m.no
          BY <1>2, <1>3, <4>1
        <4> QED  BY <1>2, <4>1, <4>2, <4>3
      <3>2. CASE b # c
        <4>1. Waits(b, m) /\ m.no \in Nat /\ m.no <= issued
          BY <1>5, <1>6, <2>2, <3>2
        <4>2. \A d \in Clients : \A n \in Message : d # b /\ Waits(d, n)' => n.no # m.no
          <5> SUFFICES ASSUME NEW d \in Clients, NEW n \in Message, d # b, Waits(d, n)'
                       PROVE  n.no # m.no
            OBVIOUS
          <5>1. CASE d = c
            BY <1>2, <1>5, <4>1, <5>1
          <5>2. CASE d # c
            BY <1>5, <1>6, <4>1, <5>2
          <5> QED  BY <5>1, <5>2
        <4> QED  BY <1>2, <1>6, <4>1, <4>2
      <3> QED  BY <3>1, <3>2
    <2> QED  BY <2>1, <2>2 DEF FreshInv
  <1> QED  BY <1>1, <1>7 DEF FeedInv

\* A broadcast for the whole room goes to all its clients in one step, one for
\* an id is not part of what the room shares.
LEMMA BroadcastFeed ==
    ASSUME Control, FeedInv, NEW c \in Clients, HubBroadcast(c)
    PROVE  FeedInv'
  <1> DEFINE h == Head(outgoing[c])
  <1>0. outgoing[c] \in Seq(Message) /\ outgoing[c] # <<>>
    BY EmptySeq DEF HubBroadcast, Control, TypeOK
  <1>1. PICK m \in Message : m = h
    BY <1>0, HeadTailProperties
  <1>2. Waits(c, m)
    BY <1>0, <1>1 DEF Waits
  <1>3. PICK todo \in IF m.id = NoId \/ Matching(m) = {} THEN {Matching(m)}
                      ELSE {{d} : d \in Matching(m)} :
            feed' = [d \in Clients |-> IF d \in todo THEN Append(feed[d], m) ELSE feed[d]]
    BY <1>1 DEF HubBroadcast
  <1> HIDE DEF h
  <1>4. /\ readPump' = [readPump EXCEPT ![c] = "reading"]
        /\ outgoing' = [outgoing EXCEPT ![c] = <<>>]
        /\ UNCHANGED <<clients, issued>>
    BY DEF HubBroadcast
  <1>5. /\ \A r \in RoomNames : clients[r] \subseteq Clients
        /\ feed \in [Clients -> Seq(Message)]
        /\ m.room \in RoomNames
    BY DEF Control, TypeOK, Message
  <1>6. /\ todo \subseteq Matching(m) /\ Matching(m) \subseteq clients[m.room]
        /\ m.id = NoId => todo = clients[m.room]
    <2>1. todo \subseteq Matching(m) /\ (m.id = NoId => todo = Matching(m))
      BY <1>3
    <2>2. Matching(m) \subseteq clients[m.room] /\ (m.id = NoId => Matching(m) = clients[m.room])
      BY DEF Matching
    <2> QED  BY <2>1, <2>2
  <1>7. \A d \in Clients : \A i \in DOMAIN feed[d] : feed[d][i] # m
    BY <1>2 DEF FeedInv, FreshInv
  <1>8. \A d \in Clients : IF d \in todo THEN Grown(feed[d], feed'[d], m) ELSE feed'[d] = feed[d]
    BY <1>3, <1>5, AppendGrows
  <1>9. NewcomerInv'
    <2> SUFFICES ASSUME NEW d \in Clients, readPump'[d] \in {"absent", "registering"}
                 PROVE  feed'[d] = <<>>
      BY DEF NewcomerInv
    <2>1. readPump[d] \in {"absent", "registering"}
      BY <1>4 DEF Control, TypeOK
    <2>2. d \notin todo
      BY <1>5, <1>6, <2>1 DEF Control, MemberInv
    <2> QED  BY <1>8, <2>1, <2>2 DEF FeedInv, NewcomerInv
  <1>10. OrderInv'
    <2> SUFFICES ASSUME NEW d \in Clients, NEW e \in Clients PROVE SameOrder(feed'[d], feed'[e])
      BY DEF OrderInv
    <2>1. SameOrder(feed[d], feed[e])
      BY DEF FeedInv, OrderInv
    <2>2. CASE d \in todo /\ e \in todo
      <3>1. SameSince(feed[d], feed[e])
        BY <1>5, <1>6, <2>2 DEF FeedInv, LevelInv
      <3> QED  BY <1>7, <1>8, <2>1, <2>2, <3>1, BothGrow
    <2>3. CASE d \in todo /\ e \notin todo
      BY <1>7, <1>8, <2>1, <2>3, OneGrows
    <2>4. CASE d \notin todo /\ e \in todo
      BY <1>7, <1>8, <2>1, <2>4, OneGrows
    <2>5. CASE d \notin todo /\ e \notin todo
      BY <1>8, <2>1, <2>5
    <2> QED  BY <2>2, <2>3, <2>4, <2>5
  <1>11. LevelInv'
    <2> SUFFICES ASSUME NEW r \in RoomNames, NEW d \in clients[r], NEW e \in clients[r]
                 PROVE  SameSince(feed'[d], feed'[e])
      BY <1>4 DEF LevelInv
    <2>1. SameSince(feed[d], feed[e]) /\ d \in Clients /\ e \in Clients
      BY <1>5 DEF FeedInv, LevelInv
    <2>2. (d \in todo <=> e \in todo) \/ m.id # NoId
      <3>1. \A x \in clients[r] : RoomOf[x] = r
        BY DEF Control, MemberInv
      <3>2. \A x \in todo : RoomOf[x] = m.room
        BY <1>5, <1>6 DEF Control, MemberInv
      <3>3. d \in todo \/ e \in todo => r = m.room
        BY <3>1, <3>2
      <3> QED  BY <1>6, <3>3
    <2>3. CASE d \in todo /\ e \in todo
      BY <1>7, <1>8, <2>1, <2>3, BothGrow
    <2>4. CASE d \in todo /\ e \notin todo
      <3>1. m.id # NoId
        BY <2>2, <2>4
      <3>2. Grown(feed[d], feed'[d], m) /\ feed'[e] = feed[e]
        BY <1>8, <2>1, <2>4
      <3>3. \A i \in DOMAIN feed[e] : feed[e][i] # m
        BY <1>7, <2>1
      <3> QED  BY <2>1, <3>1, <3>2, <3>3, OneGrows
    <2>5. CASE d \notin todo /\ e \in todo
      <3>1. m.id # NoId
        BY <2>2, <2>5
      <3>2. Grown(feed[e], feed'[e], m) /\ feed'[d] = feed[d]
        BY <1>8, <2>1, <2>5
      <3>3. \A i \in DOMAIN feed[d] : feed[d][i] # m
        BY <1>7, <2>1
      <3> QED  BY <2>1, <3>1, <3>2, <3>3, OneGrows
    <2>6. CASE d \notin todo /\ e \notin todo
      BY <1>8, <2>1, <2>6
    <2> QED  BY <2>3, <2>4, <2>5, <2>6
  <1>12. FreshInv'
    <2>1. ASSUME NEW d \in Clients, NEW i \in DOMAIN feed'[d]
          PROVE  (i \in DOMAIN feed[d] /\ feed'[d][i] = feed[d][i]) \/ feed'[d][i] = m
      BY <1>8, <2>1 DEF Grown
    <2>2. m.no <= issued
      BY <1>2 DEF FeedInv, FreshInv
    <2>3. \A b \in Clients : \A n \in Message : Waits(b, n)' => b # c /\ Waits(b, n)
      BY <1>4 DEF Waits, Control, TypeOK
    <2>4. \A b \in Clients : \A n \in Message : b # c /\ Waits(b, n) => n.no # m.no
      BY <1>2 DEF FeedInv, FreshInv
    <2>5. \A d \in Clients : \A i \in DOMAIN feed'[d] : feed'[d][i].no <= issued'
      BY <1>4, <2>1, <2>2 DEF FeedInv, FreshInv
    <2>6. ASSUME NEW b \in Clients, NEW n \in Message, Waits(b, n)'
          PROVE  /\ n.no <= issued'
                 /\ \A d \in Clients : \A i \in DOMAIN feed'[d] : feed'[d][i].no # n.no
                 /\ \A d \in Clients : \A p \in Message : d # b /\ Waits(d, p)' => p.no # n.no
      <3>1. b # c /\ Waits(b, n)
        BY <2>3, <2>6
      <3>2. \A d \in Clients : \A i \in DOMAIN feed[d] : feed[d][i].no # n.no
        BY <3>1 DEF FeedInv, FreshInv
      <3>3. \A d \in Clients : \A i \in DOMAIN feed'[d] : feed'[d][i].no # n.no
        BY <2>1, <2>4, <3>1, <3>2
      <3>4. \A d \in Clients : \A p \in Message : d # b /\ Waits(d, p)' => p.no # n.no
        BY <2>3, <3>1 DEF FeedInv, FreshInv
      <3>5. n.no <= issued'
        BY <1>4, <3>1 DEF FeedInv, FreshInv
      <3> QED  BY <3>3, <3>4, <3>5
    <2> QED  BY <2>5, <2>6 DEF FreshInv
  <1> QED  BY <1>9, <1>10, <1>11, <1>12 DEF FeedInv

\* FeedInv holds along every behaviour.
LEMMA FeedInvariant == Spec => []FeedInv
  <1>1. Init => FeedInv
    <2> SUFFICES ASSUME Init PROVE FeedInv
      OBVIOUS
    <2>1. \A c \in Clients : feed[c] = <<>> /\ outgoing[c] = <<>>
      BY DEF Init
    <2> QED  BY <2>1 DEF Init, FeedInv, FreshInv, NewcomerInv, OrderInv, LevelInv, SameOrder,
                SameSince, Waits
  <1>2. HubInv /\ FeedInv /\ [Next]_vars => FeedInv'
    <2> SUFFICES ASSUME Control, Control', FeedInv, [Next]_vars PROVE FeedInv'
      BY ControlStep DEF HubInv
    <2>0. clients' \in [RoomNames -> SUBSET Clients]
      BY DEF Control, TypeOK
    <2>1. CASE UNCHANGED vars
      <3>1. UNCHANGED <<feed, outgoing, issued, readPump, clients>>
        BY <2>1 DEF vars, hubVars, readerVars
      <3> QED  BY <2>0, <3>1, FeedKept
    <2>2. ASSUME NEW c \in Clients, Connect(c) \/ ReadFail(c) \/ ReaderClose(c) PROVE FeedInv'
      <3>1. UNCHANGED <<feed, outgoing, issued, clients>>
        BY <2>2 DEF Connect, ReadFail, ReaderClose, hubVars
      <3>2. \A d \in Clients : readPump'[d] \in {"absent", "registering"} =>
                                  readPump[d] \in {"absent", "registering"}
        <4>1. \E q : /\ readPump' = [readPump EXCEPT ![c] = q]
                     /\ q \in {"absent", "registering"} => readPump[c] = "absent"
          BY <2>2 DEF Connect, ReadFail, ReaderClose
        <4> QED  BY <4>1 DEF Control, TypeOK
      <3> QED  BY <2>0, <3>1, <3>2, FeedKept
    <2>3. ASSUME NEW c \in Clients, WriterStep(c) PROVE FeedInv'
      <3>1. UNCHANGED <<feed, outgoing, issued, clients, readPump>>
        BY <2>3 DEF WriterStep, WriterTake, WriteOk, WriteErr, WriterEnd, hubVars, readerVars
      <3> QED  BY <2>0, <3>1, FeedKept
    <2>4. ASSUME NEW c \in Clients,
                 HubRegister(c) \/ HubUnregister(c) \/ HubSend(c) \/ HubEvict(c)
          PROVE  FeedInv'
      <3>1. UNCHANGED <<feed, outgoing, issued>>
        BY <2>4 DEF HubRegister, HubUnregister, HubSend, HubEvict, readerVars
      <3>2. \A d \in Clients : readPump'[d] \in {"absent", "registering"} =>
                                  readPump[d] \in {"absent", "registering"}
        <4>1. \/ readPump' = readPump
              \/ \E q : /\ readPump' = [readPump EXCEPT ![c] = q]
                        /\ q \notin {"absent", "registering"}
          BY <2>4 DEF HubRegister, HubUnregister, HubSend, HubEvict, readerVars
        <4> QED  BY <4>1 DEF Control, TypeOK
      <3>3. \A r \in RoomNames : \A d \in clients'[r] : d \in clients[r] \/ feed[d] = <<>>
        <4>1. CASE HubRegister(c)
          <5>1. feed[c] = <<>>
            BY <4>1 DEF HubRegister, FeedInv, NewcomerInv
          <5> QED  BY <4>1, <5>1 DEF HubRegister, Control, TypeOK
        <4>2. CASE HubUnregister(c) \/ HubSend(c) \/ HubEvict(c)
          <5>1. clients' = clients \/ \E q : clients' = [clients EXCEPT ![q] = clients[q] \ {c}]
            BY <4>2 DEF HubUnregister, HubSend, HubEvict
          <5>2. \A r \in RoomNames : clients'[r] \subseteq clients[r]
            BY <5>1 DEF Control, TypeOK
          <5> QED  BY <5>2
        <4> QED  BY <2>4, <4>1, <4>2
      <3> QED  BY <2>0, <3>1, <3>2, <3>3, FeedKept
    <2> QED  BY <2>1, <2>2, <2>3, <2>4, CommandFeed, BroadcastFeed
             DEF Next, Quiet, ReaderStep, HubStep
  <1> QED  BY <1>1, <1>2, HubInvariant, PTL DEF Spec

\* The connection carries a first part of what was accepted for its client.
LEMMA WireIsPrefix ==
    ASSUME HubInv, NEW c \in Clients
    PROVE  /\ Len(wire[c]) \in Nat /\ DOMAIN wire[c] = 1..Len(wire[c])
           /\ \A i \in DOMAIN wire[c] : i \in DOMAIN feed[c] /\ feed[c][i] = wire[c][i]
  <1>1. wire[c] \in Seq(Message) /\ inHand[c] \in Seq(Message) /\ sendBuf[c] \in Seq(Message)
    BY DEF HubInv, Control, TypeOK
  <1>2. \A s, u \in Seq(Message) :
            /\ s \o u \in Seq(Message)
            /\ \A i \in 1..Len(s) : i \in 1..Len(s \o u) /\ (s \o u)[i] = s[i]
    <2> SUFFICES ASSUME NEW s \in Seq(Message), NEW u \in Seq(Message)
                 PROVE  /\ s \o u \in Seq(Message)
                        /\ \A i \in 1..Len(s) : i \in 1..Len(s \o u) /\ (s \o u)[i] = s[i]
      OBVIOUS
    <2>1. s \o u \in Seq(Message)
      BY ConcatProperties
    <2>2. Len(s \o u) = Len(s) + Len(u)
      BY ConcatProperties
    <2>3. \A i \in 1..(Len(s) + Len(u)) : (s \o u)[i] = IF i <= Len(s) THEN s[i] ELSE u[i - Len(s)]
      BY ConcatProperties
    <2>4. Len(s) \in Nat /\ Len(u) \in Nat
      BY LenProperties
    <2> QED  BY <2>1, <2>2, <2>3, <2>4
  <1>3. wire[c] \o inHand[c] \in Seq(Message)
    BY <1>1, <1>2
  <1>4. Got(c) \in Seq(Message)
    BY <1>1, <1>2, <1>3 DEF Got
  <1>5. \A i \in 1..Len(wire[c]) : i \in 1..Len(Got(c)) /\ Got(c)[i] = wire[c][i]
    <2> DEFINE wh == wire[c] \o inHand[c]
    <2>1. \A i \in 1..Len(wire[c]) : i \in 1..Len(wh) /\ wh[i] = wire[c][i]
      BY <1>1, <1>2
    <2>2. \A i \in 1..Len(wh) : i \in 1..Len(Got(c)) /\ Got(c)[i] = wh[i]
      BY <1>1, <1>2, <1>3 DEF Got
    <2> QED  BY <2>1, <2>2
  <1>6. feed[c] = Got(c) \/ \E m \in Message : feed[c] = Append(Got(c), m)
    <2>1. CASE c \in hubTodo
      <3>1. Head(hubMsg) \in Message
        BY <2>1, HeadTailProperties DEF HubInv, Control, LoopInv, TypeOK
      <3> QED  BY <2>1, <3>1 DEF HubInv, NothingLostInside, FlowOf
    <2>2. CASE c \notin hubTodo
      BY <2>2 DEF HubInv, NothingLostInside, FlowOf
    <2> QED  BY <2>1, <2>2
  <1>7. \A i \in 1..Len(Got(c)) : i \in DOMAIN feed[c] /\ feed[c][i] = Got(c)[i]
    <2>1. CASE feed[c] = Got(c)
      BY <1>4, <2>1, LenProperties
    <2>2. ASSUME NEW m \in Message, feed[c] = Append(Got(c), m)
          PROVE  \A i \in 1..Len(Got(c)) : i \in DOMAIN feed[c] /\ feed[c][i] = Got(c)[i]
      <3>1. Grown(Got(c), feed[c], m)
        <4>1. \A s \in Seq(Message) : Grown(s, Append(s, m), m)
          BY AppendGrows
        <4> QED  BY <1>4, <2>2, <4>1
      <3> QED  BY <3>1 DEF Grown
    <2> QED  BY <1>6, <2>1, <2>2
  <1> QED  BY <1>1, <1>5, <1>7, LenProperties

\* Two clients that both received two broadcasts received them in the same
\* order, and in between the same messages for the whole room: those who are in
\* a room together miss nothing their neighbours see.
THEOREM NeighboursSeeTheSame == Spec => []NeighboursAgree
  <1>1. HubInv /\ FeedInv => NeighboursAgree
    <2> SUFFICES ASSUME HubInv, FeedInv, NEW c \in Clients, NEW d \in Clients,
                        NEW i \in DOMAIN wire[c], NEW j \in DOMAIN wire[c], i < j,
                        NEW k \in At(d, wire[c][i]), NEW l \in At(d, wire[c][j])
                 PROVE  /\ k < l
                        /\ {wire[c][x] : x \in RoomWideBetween(c, i, j)}
                             = {wire[d][x] : x \in RoomWideBetween(d, k, l)}
      BY Zenon DEF NeighboursAgree
    <2>1. /\ k \in DOMAIN wire[d] /\ l \in DOMAIN wire[d]
          /\ wire[d][k] = wire[c][i] /\ wire[d][l] = wire[c][j]
      BY DEF At
    <2>2. /\ Len(wire[c]) \in Nat /\ DOMAIN wire[c] = 1..Len(wire[c])
          /\ \A x \in DOMAIN wire[c] : x \in DOMAIN feed[c] /\ feed[c][x] = wire[c][x]
      BY WireIsPrefix
    <2>3. /\ Len(wire[d]) \in Nat /\ DOMAIN wire[d] = 1..Len(wire[d])
          /\ \A x \in DOMAIN wire[d] : x \in DOMAIN feed[d] /\ feed[d][x] = wire[d][x]
      BY WireIsPrefix
    <2>4. SameOrder(feed[c], feed[d])
      BY DEF FeedInv, OrderInv
    <2>5. k < l /\ Wide(feed[c], i, j) = Wide(feed[d], k, l)
      BY <2>1, <2>2, <2>3, <2>4 DEF SameOrder
    <2>6. Wide(feed[c], i, j) = {wire[c][x] : x \in RoomWideBetween(c, i, j)}
      <3>1. \A x \in i..j : feed[c][x] = wire[c][x]
        BY <2>2
      <3> QED  BY <3>1 DEF Wide, RoomWideBetween
    <2>7. Wide(feed[d], k, l) = {wire[d][x] : x \in RoomWideBetween(d, k, l)}
      <3>1. \A x \in k..l : feed[d][x] = wire[d][x]
        BY <2>1, <2>3
      <3> QED  BY <3>1 DEF Wide, RoomWideBetween
    <2> QED  BY <2>5, <2>6, <2>7
  <1> QED  BY <1>1, HubInvariant, FeedInvariant, PTL

-----------------------------------------------------------------------------
(* The hub implements RoomFeed.                                            *)

\* The message in hand is the next one after those that were written.
LEMMA NextInFeed ==
    ASSUME NEW S, NEW w \in Seq(S), NEW h \in S, NEW b \in Seq(S), NEW e \in S
    PROVE  /\ w \o <<h>> = Append(w, h)
           /\ Len((w \o <<h>>) \o b) > Len(w)
           /\ ((w \o <<h>>) \o b)[Len(w) + 1] = h
           /\ Len(Append((w \o <<h>>) \o b, e)) > Len(w)
           /\ Append((w \o <<h>>) \o b, e)[Len(w) + 1] = h
  <1> DEFINE t == w \o <<h>>
  <1>1. t = Append(w, h)
    BY AppendIsConcat
  <1>2. t \in Seq(S) /\ Len(t) = Len(w) + 1 /\ t[Len(w) + 1] = h
    BY <1>1, AppendProperties
  <1> HIDE DEF t
  <1>3. /\ t \o b \in Seq(S) /\ Len(t \o b) = Len(t) + Len(b)
        /\ \A i \in 1..Len(t) : (t \o b)[i] = t[i]
    <2>1. t \o b \in Seq(S) /\ Len(t \o b) = Len(t) + Len(b)
      BY <1>2, ConcatProperties
    <2>2. \A i \in 1..Len(t) + Len(b) :
             (t \o b)[i] = IF i <= Len(t) THEN t[i] ELSE b[i - Len(t)]
      BY <1>2, ConcatProperties
    <2>3. Len(t) \in Nat /\ Len(b) \in Nat
      BY <1>2
    <2> QED  BY <2>1, <2>2, <2>3
  <1>4. /\ Len(Append(t \o b, e)) = Len(t \o b) + 1
        /\ \A i \in 1..Len(t \o b) : Append(t \o b, e)[i] = (t \o b)[i]
    BY <1>3, AppendProperties
  <1>5. Len(w) \in Nat /\ Len(b) \in Nat
    OBVIOUS
  <1>6. Len(w) + 1 \in 1..Len(t) /\ Len(w) + 1 \in 1..Len(t \o b)
    BY <1>2, <1>3, <1>5
  <1>7. Len(t \o b) > Len(w) /\ (t \o b)[Len(w) + 1] = h
    BY <1>2, <1>3, <1>5, <1>6
  <1>8. Len(Append(t \o b, e)) > Len(w) /\ Append(t \o b, e)[Len(w) + 1] = h
    BY <1>4, <1>5, <1>6, <1>7
  <1> QED  BY <1>1, <1>7, <1>8 DEF t

\* How far a client is behind: what is on its way.
LEMMA OnItsWay ==
    ASSUME TypeOK, NEW c \in Clients
    PROVE  /\ Got(c) \in Seq(Message)
           /\ Len(Got(c)) = Len(wire[c]) + Len(inHand[c]) + Len(sendBuf[c])
  <1>1. wire[c] \in Seq(Message) /\ inHand[c] \in Seq(Message) /\ sendBuf[c] \in Seq(Message)
    BY DEF TypeOK
  <1>2. /\ wire[c] \o inHand[c] \in Seq(Message)
        /\ Len(wire[c] \o inHand[c]) = Len(wire[c]) + Len(inHand[c])
    BY <1>1, ConcatProperties
  <1>3. \A t, u \in Seq(Message) : t \o u \in Seq(Message) /\ Len(t \o u) = Len(t) + Len(u)
    BY ConcatProperties
  <1> QED  BY <1>1, <1>2, <1>3 DEF Got

-----------------------------------------------------------------------------
(* The mapping of the state.                                               *)

\* Who is subscribed: the members of the rooms.
LEMMA OnIsMember ==
    ASSUME Control, NEW c \in Clients, NEW r \in RoomNames
    PROVE  sub[c] = "on" /\ RoomOf[c] = r <=> c \in clients[r]
  <1>1. RoomOf[c] \in RoomNames
    BY HubAssumption
  <1>2. c \in clients[r] => RoomOf[c] = r /\ sendState[c] = "open"
    BY DEF Control, MemberInv
  <1>3. sendState[c] \in {"open", "evicted", "closed"}
    BY DEF Control, TypeOK
  <1> QED  BY <1>1, <1>2, <1>3 DEF sub, Subscription

LEMMA SubKept ==
    ASSUME UNCHANGED <<sendState, clients>>
    PROVE  sub' = sub
  BY DEF sub, Subscription

\* The clients' subscriptions other than that of c.
LEMMA SubElsewhere ==
    ASSUME Control, Control', NEW c \in Clients,
           \A d \in Clients \ {c} :
              /\ sendState'[d] = sendState[d]
              /\ d \in clients'[RoomOf[d]] <=> d \in clients[RoomOf[d]]
    PROVE  \A v : Subscription(c)' = v => sub' = [sub EXCEPT ![c] = v]
  <1> TAKE v
  <1> HAVE Subscription(c)' = v
  <1>1. \A d \in Clients \ {c} : Subscription(d)' = Subscription(d)
    BY DEF Subscription
  <1> QED  BY <1>1 DEF sub

-----------------------------------------------------------------------------
(* The steps.                                                              *)

\* What the readers do besides the rendezvous with Run is not seen.
LEMMA ReaderRefines ==
    ASSUME NEW c \in Clients, ReaderStep(c)
    PROVE  UNCHANGED <<sub, feed, wire>>
  <1>1. UNCHANGED <<sendState, clients, feed, wire>>
    BY DEF ReaderStep, Connect, ReadCommand, ReadFail, ReaderClose, hubVars, writerVars
  <1> QED  BY <1>1, SubKept

LEMMA WriterRefines ==
    ASSUME HubInv, NEW c \in Clients, WriterStep(c)
    PROVE  Feed!Deliver(c) \/ UNCHANGED <<sub, feed, wire>>
  <1>1. CASE WriteOk(c)
    <2>1. UNCHANGED <<sub, feed>>
      BY <1>1, SubKept DEF WriteOk, hubVars
    <2>2. wire' = [wire EXCEPT ![c] = wire[c] \o inHand[c]]
      BY <1>1 DEF WriteOk
    <2>3. /\ wire[c] \in Seq(Message) /\ inHand[c] \in Seq(Message)
          /\ sendBuf[c] \in Seq(Message) /\ Len(inHand[c]) <= 1
          /\ wire \in [Clients -> Seq(Message)]
      BY DEF HubInv, Control, TypeOK
    <2>4. CASE inHand[c] = <<>>
      <3>1. wire[c] \o inHand[c] = wire[c]
        BY <2>3, <2>4, ConcatEmptySeq
      <3> QED  BY <2>1, <2>2, <2>3, <3>1
    <2>5. CASE inHand[c] # <<>>
      <3> DEFINE h == Head(inHand[c])
      <3>1. h \in Message /\ inHand[c] = <<h>>
        BY <2>3, <2>5, Singleton
      <3> HIDE DEF h
      <3>2. \/ feed[c] = Got(c)
            \/ \E m \in Message : feed[c] = Append(Got(c), m)
        <4>1. c \in hubTodo => Head(hubMsg) \in Message
          BY HeadTailProperties DEF HubInv, Control, LoopInv, TypeOK
        <4> QED  BY <4>1 DEF HubInv, NothingLostInside, FlowOf
      <3>3. Got(c) = (wire[c] \o <<h>>) \o sendBuf[c]
        BY <3>1 DEF Got
      <3>4. wire[c] \o inHand[c] = Append(wire[c], h)
        BY <2>3, <3>1, NextInFeed
      <3>5. Len(feed[c]) > Len(wire[c]) /\ feed[c][Len(wire[c]) + 1] = h
        <4>1. \A t, b \in Seq(Message), e \in Message :
                 /\ Len((t \o <<h>>) \o b) > Len(t)
                 /\ ((t \o <<h>>) \o b)[Len(t) + 1] = h
                 /\ Len(Append((t \o <<h>>) \o b, e)) > Len(t)
                 /\ Append((t \o <<h>>) \o b, e)[Len(t) + 1] = h
          BY <3>1, NextInFeed
        <4>2. CASE feed[c] = Got(c)
          <5>1. /\ Len((wire[c] \o <<h>>) \o sendBuf[c]) > Len(wire[c])
                /\ ((wire[c] \o <<h>>) \o sendBuf[c])[Len(wire[c]) + 1] = h
            BY <2>3, <3>1, <4>1
          <5>2. feed[c] = (wire[c] \o <<h>>) \o sendBuf[c]
            BY <3>3, <4>2
          <5> QED  BY ONLY <5>1, <5>2
        <4>3. CASE \E m \in Message : feed[c] = Append(Got(c), m)
          <5>1. PICK m \in Message : feed[c] = Append(Got(c), m)
            BY <4>3
          <5>2. /\ Len(Append((wire[c] \o <<h>>) \o sendBuf[c], m)) > Len(wire[c])
                /\ Append((wire[c] \o <<h>>) \o sendBuf[c], m)[Len(wire[c]) + 1] = h
            BY <2>3, <4>1
          <5>3. feed[c] = Append((wire[c] \o <<h>>) \o sendBuf[c], m)
            BY <3>3, <5>1
          <5> QED  BY ONLY <5>2, <5>3
        <4> QED  BY <3>2, <4>2, <4>3
      <3>6. Len(feed[c]) - Len(wire[c]) > 0
        <4>1. Len(feed[c]) \in Nat /\ Len(wire[c]) \in Nat
          BY <2>3 DEF HubInv, Control, TypeOK
        <4>2. Len(feed[c]) > Len(wire[c])
          BY <3>5
        <4>3. \A x, y \in Nat : x > y => x - y > 0
          OBVIOUS
        <4> QED  BY ONLY <4>1, <4>2, <4>3
      <3> QED  BY <2>1, <2>2, <3>4, <3>5, <3>6 DEF Feed!Deliver, Feed!Behind
    <2> QED  BY <2>4, <2>5
  <1>2. CASE WriterTake(c) \/ WriteErr(c) \/ WriterEnd(c)
    <2>1. UNCHANGED <<sendState, clients, feed, wire>>
      BY <1>2 DEF WriterTake, WriteErr, WriterEnd, hubVars
    <2> QED  BY <2>1, SubKept
  <1> QED  BY <1>1, <1>2 DEF WriterStep

\* Run adds a client to its room: the subscription starts.
LEMMA RegisterRefines ==
    ASSUME HubInv, HubInv', NEW c \in Clients, HubRegister(c)
    PROVE  Feed!Join(c)
  <1>1. UNCHANGED <<sendState, feed, wire>>
    BY DEF HubRegister
  <1>2. RoomOf[c] \in RoomNames /\ clients \in [RoomNames -> SUBSET Clients]
    BY HubAssumption DEF HubInv, Control, TypeOK
  <1>3. clients' = [clients EXCEPT ![RoomOf[c]] = clients[RoomOf[c]] \cup {c}]
    BY DEF HubRegister
  <1>4. sendState[c] = "open" /\ c \notin clients[RoomOf[c]]
    BY <1>2 DEF HubInv, Control, MemberInv, HubRegister
  <1>5. Subscription(c) = "new" /\ Subscription(c)' = "on"
    BY <1>1, <1>2, <1>3, <1>4 DEF Subscription
  <1>6. \A d \in Clients \ {c} : d \in clients'[RoomOf[d]] <=> d \in clients[RoomOf[d]]
    BY <1>2, <1>3, HubAssumption
  <1>7. sub' = [sub EXCEPT ![c] = "on"]
    BY <1>1, <1>5, <1>6, SubElsewhere DEF HubInv
  <1>8. sub[c] = "new"
    BY <1>5 DEF sub
  <1> QED  BY <1>1, <1>7, <1>8 DEF Feed!Join

\* Run closes the channel of a client that unregisters: the subscription ends,
\* unless an eviction ended it before.
LEMMA UnregisterRefines ==
    ASSUME HubInv, HubInv', NEW c \in Clients, HubUnregister(c)
    PROVE  Feed!Leave(c) \/ UNCHANGED <<sub, feed, wire>>
  <1>1. UNCHANGED <<feed, wire>>
    BY DEF HubUnregister, writerVars
  <1> DEFINE r == RoomOf[c]
  <1>2. CASE /\ r \in rooms /\ c \in clients[r]
             /\ clients' = [clients EXCEPT ![r] = @ \ {c}]
             /\ sendState' = [sendState EXCEPT ![c] = "closed"]
    <2>1. r \in RoomNames /\ clients \in [RoomNames -> SUBSET Clients]
      BY HubAssumption DEF HubInv, Control, TypeOK
    <2>2. sub[c] = "on"
      BY <1>2, <2>1, OnIsMember DEF HubInv
    <2>3. Subscription(c)' = "left"
      BY <1>2 DEF Subscription, HubInv, Control, TypeOK
    <2>4. \A d \in Clients \ {c} :
             /\ sendState'[d] = sendState[d]
             /\ d \in clients'[RoomOf[d]] <=> d \in clients[RoomOf[d]]
      BY ZenonT(40), <1>2, <2>1, HubAssumption DEF HubInv, Control, TypeOK
    <2>5. sub' = [sub EXCEPT ![c] = "left"]
      BY <2>3, <2>4, SubElsewhere DEF HubInv
    <2> QED  BY <1>1, <2>2, <2>5 DEF Feed!Leave
  <1>3. CASE UNCHANGED <<rooms, clients, sendState>>
    BY <1>1, <1>3, SubKept
  <1> QED  BY <1>2, <1>3 DEF HubUnregister

\* Run takes a broadcast: it is published to the clients the loop will visit,
\* none of which is more than a full channel and a message in hand behind.
LEMMA BroadcastRefines ==
    ASSUME HubInv, NEW c \in Clients, HubBroadcast(c)
    PROVE  \E m \in Message : Feed!Publish(m)
  <1> DEFINE m == Head(outgoing[c])
  <1>1. m \in Message
    <2>1. outgoing[c] \in Seq(Message) /\ outgoing[c] # <<>>
      BY EmptySeq DEF HubBroadcast, HubInv, Control, TypeOK
    <2> QED  BY <2>1, HeadTailProperties
  <1>2. PICK to \in IF m.id = NoId \/ Matching(m) = {}
                    THEN {Matching(m)} ELSE {{d} : d \in Matching(m)} :
           feed' = [d \in Clients |-> IF d \in to THEN Append(feed[d], m) ELSE feed[d]]
    BY DEF HubBroadcast
  <1>3. UNCHANGED <<sub, wire>> /\ hubTodo = {}
    BY SubKept DEF HubBroadcast, AtSelect, writerVars
  <1> HIDE DEF m
  <1>4. Feed!Audience(m) = Matching(m)
    <2>1. m.room \in RoomNames /\ clients[m.room] \subseteq Clients
      BY <1>1 DEF Message, HubInv, Control, TypeOK
    <2>2. \A d \in Clients : sub[d] = "on" /\ RoomOf[d] = m.room <=> d \in clients[m.room]
      BY <2>1, OnIsMember DEF HubInv
    <2> QED  BY <2>1, <2>2 DEF Feed!Audience, Matching
  <1>5. to \in SUBSET Matching(m)
    BY <1>2
  <1>6. IF m.id = NoId THEN to = Matching(m)
        ELSE \A d \in Matching(m) : \E x \in Matching(m) : to = {x}
    BY <1>2
  <1>7. ASSUME NEW d \in to PROVE Feed!Behind(d) <= SendCap + 1
    <2>1. d \in Clients /\ sendState[d] = "open"
      BY <1>1, <1>5 DEF Matching, Message, HubInv, Control, MemberInv, TypeOK
    <2>2. feed[d] = Got(d)
      BY <1>3, <2>1 DEF HubInv, NothingLostInside, FlowOf
    <2>3. Len(feed[d]) = Len(wire[d]) + Len(inHand[d]) + Len(sendBuf[d])
      BY <2>1, <2>2, OnItsWay DEF HubInv, Control
    <2>4. /\ Len(wire[d]) \in Nat /\ Len(inHand[d]) \in Nat /\ Len(sendBuf[d]) \in Nat
          /\ Len(inHand[d]) <= 1 /\ Len(sendBuf[d]) <= SendCap
      BY <2>1 DEF HubInv, Control, TypeOK
    <2>5. SendCap \in Nat
      BY HubAssumption
    <2>6. \A w, h, b, n \in Nat : h <= 1 /\ b <= n => (w + h + b) - w <= n + 1
      OBVIOUS
    <2>7. Feed!Behind(d) = (Len(wire[d]) + Len(inHand[d]) + Len(sendBuf[d])) - Len(wire[d])
      BY <2>3 DEF Feed!Behind
    <2> QED  BY ONLY <2>4, <2>5, <2>6, <2>7
  <1> QED  BY <1>1, <1>2, <1>3, <1>4, <1>5, <1>6, <1>7 DEF Feed!Publish

\* Run finds a channel full: its client is more than SendCap messages behind.
LEMMA EvictRefines ==
    ASSUME HubInv, HubInv', NEW c \in Clients, HubEvict(c)
    PROVE  Feed!Evict(c)
  <1> DEFINE m == Head(hubMsg)
  <1>1. UNCHANGED <<feed, wire>> /\ c \in hubTodo
    BY DEF HubEvict, writerVars
  <1>2. m \in Message /\ m.room \in RoomNames /\ c \in clients[m.room]
    <2>1. hubMsg \in Seq(Message) /\ hubMsg # <<>> /\ c \in clients[m.room]
      BY <1>1 DEF HubInv, Control, LoopInv, TypeOK
    <2>2. m \in Message
      BY <2>1, HeadTailProperties
    <2>3. m.room \in RoomNames
      BY <2>2 DEF Message
    <2> QED  BY <2>1, <2>2, <2>3
  <1>3. RoomOf[c] = m.room /\ sub[c] = "on"
    BY <1>2, OnIsMember DEF HubInv
  <1>4. /\ clients' = [clients EXCEPT ![m.room] = clients[m.room] \ {c}]
        /\ sendState' = [sendState EXCEPT ![c] = "evicted"]
    BY DEF HubEvict
  <1>5. Feed!Behind(c) > SendCap
    <2>1. feed[c] = Append(Got(c), m)
      BY <1>1 DEF HubInv, NothingLostInside, FlowOf
    <2>2. /\ Got(c) \in Seq(Message)
          /\ Len(Got(c)) = Len(wire[c]) + Len(inHand[c]) + Len(sendBuf[c])
      BY OnItsWay DEF HubInv, Control
    <2>3. Len(feed[c]) = Len(wire[c]) + Len(inHand[c]) + Len(sendBuf[c]) + 1
      BY <1>2, <2>1, <2>2, AppendProperties
    <2>4. /\ Len(wire[c]) \in Nat /\ Len(inHand[c]) \in Nat
          /\ Len(sendBuf[c]) = SendCap /\ SendCap \in Nat
      BY HubAssumption DEF HubInv, Control, TypeOK, HubEvict
    <2>5. \A w, h, n \in Nat : (w + h + n + 1) - w > n
      OBVIOUS
    <2>6. Feed!Behind(c) = (Len(wire[c]) + Len(inHand[c]) + SendCap + 1) - Len(wire[c])
      BY <2>3, <2>4 DEF Feed!Behind
    <2> QED  BY ONLY <2>4, <2>5, <2>6
  <1>6. Subscription(c)' = "evicted"
    BY <1>4 DEF Subscription, HubInv, Control, TypeOK
  <1>7. \A d \in Clients \ {c} :
           /\ sendState'[d] = sendState[d]
           /\ d \in clients'[RoomOf[d]] <=> d \in clients[RoomOf[d]]
    BY ZenonT(40), <1>2, <1>4, HubAssumption DEF HubInv, Control, TypeOK
  <1>8. sub' = [sub EXCEPT ![c] = "evicted"]
    BY <1>6, <1>7, SubElsewhere DEF HubInv
  <1> QED  BY <1>1, <1>3, <1>5, <1>8 DEF Feed!Evict

-----------------------------------------------------------------------------
\* websocket/websocket.go implements RoomFeed: a client of a room receives what
\* was broadcast to it, in order and without gaps, and is cut off only when it
\* left or is more than SendCap messages behind.
THEOREM HubRefines == Spec => ImplementsRoomFeed
  <1>1. Init => Feed!Init
    BY HubAssumption DEF Init, Feed!Init, sub, Subscription
  <1>2. HubInv /\ HubInv' /\ [Next]_vars => [Feed!Next]_(Feed!feedVars)
    <2> SUFFICES ASSUME HubInv, HubInv', [Next]_vars
                 PROVE  [Feed!Next]_<<sub, feed, wire>>
      BY DEF Feed!feedVars
    <2>1. CASE UNCHANGED vars
      BY <2>1, SubKept DEF vars, hubVars, writerVars
    <2>2. ASSUME NEW c \in Clients, ReaderStep(c) \/ WriterStep(c) \/ HubStep(c)
          PROVE  [Feed!Next]_<<sub, feed, wire>>
      <3>1. CASE ReaderStep(c)
        BY <3>1, ReaderRefines
      <3>2. CASE WriterStep(c)
        BY <3>2, WriterRefines DEF Feed!Next
      <3>3. CASE HubRegister(c)
        BY <3>3, RegisterRefines DEF Feed!Next
      <3>4. CASE HubUnregister(c)
        BY <3>4, UnregisterRefines DEF Feed!Next
      <3>5. CASE HubBroadcast(c)
        BY <3>5, BroadcastRefines DEF Feed!Next
      <3>6. CASE HubSend(c)
        BY <3>6, SubKept DEF HubSend, writerVars
      <3>7. CASE HubEvict(c)
        BY <3>7, EvictRefines DEF Feed!Next
      <3> QED  BY <2>2, <3>1, <3>2, <3>3, <3>4, <3>5, <3>6, <3>7 DEF HubStep
    <2> QED  BY <2>1, <2>2 DEF Next, Quiet
  <1> QED  BY <1>1, <1>2, HubInvariant, PTL DEF Spec, ImplementsRoomFeed
=============================================================================
