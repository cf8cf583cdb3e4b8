-------------------------------- MODULE Hub --------------------------------
(***************************************************************************)
(* The websocket hub (websocket/websocket.go): one goroutine, Hub.Run,     *)
(* that owns the rooms, and for every connected client a ReadPump and a    *)
(* WritePump goroutine.                                                    *)
(*                                                                         *)
(*   - Register, Unregister and Broadcast are unbuffered channels: a       *)
(*     ReadPump that sends on one waits until Run's select takes it, so a  *)
(*     send and its receipt are one action here.                           *)
(*   - client.Send is a buffered channel (256 messages in the code,        *)
(*     SendCap here) between Run and the client's WritePump.  Run never    *)
(*     waits on it: a client whose buffer is full is evicted.              *)
(*   - Run hands a broadcast to the clients one at a time, and WritePumps  *)
(*     take messages in between: hubTodo holds the clients that the range  *)
(*     loop has still to visit.                                            *)
(*                                                                         *)
(* Message contents are abstracted to a serial number.                     *)
(***************************************************************************)
EXTENDS Naturals, Sequences

CONSTANTS
    Clients,     \* the connections that may be opened, each at most once
    RoomNames,   \* values of the "room" query parameter
    Ids,         \* values of the "playerId" query parameter
    NoId,        \* the empty playerId: a message with it is for the whole room
    RoomOf,      \* the room each client asks for
    IdOf,        \* the id each client gives
    Addresses,   \* the [room, id] pairs that command handlers broadcast to
    SendCap,     \* capacity of client.Send
    MaxMsgs      \* bound on the number of commands handled in a behaviour

ASSUME HubAssumption ==
    /\ RoomOf \in [Clients -> RoomNames]
    /\ IdOf \in [Clients -> Ids]
    /\ NoId \in Ids
    /\ Addresses \subseteq [room : RoomNames, id : Ids]
    /\ SendCap \in Nat \ {0}
    /\ MaxMsgs \in Nat

Message == [no : 1..MaxMsgs, room : RoomNames, id : Ids]

VARIABLES
    rooms,       \* the keys of h.Rooms
    clients,     \* clients[r]: the keys of h.Rooms[r]
    hubMsg,      \* <<m>> while Run ranges over a room for broadcast m, else <<>>
    hubTodo,     \* the clients that loop has still to visit; {}: Run is at its select
    sendBuf,     \* sendBuf[c]: what the channel client.Send holds
    sendState,   \* sendState[c]: "open", or who closed the channel
    readPump,    \* where client c's ReadPump goroutine is
    outgoing,    \* <<m>> while the handler of c waits to send m on Broadcast
    writePump,   \* where client c's WritePump goroutine is
    inHand,      \* <<m>> once WritePump took m from the channel, until it is written
    conn,        \* conn[c]: "open", or "closed" once one of the pumps closed it
    issued,      \* the number of commands handled so far
    wire,        \* history: what WritePump wrote to the connection, in order
    feed         \* history: the broadcasts Run accepted for client c, in order

hubVars    == <<rooms, clients, hubMsg, hubTodo>>
readerVars == <<readPump, outgoing, issued>>
writerVars == <<writePump, inHand, wire>>
vars == <<hubVars, sendBuf, sendState, readerVars, writerVars, conn, feed>>

ReaderStates == {"absent", "registering", "reading", "handling",
                 "unregistering", "closing", "done"}
WriterStates == {"absent", "ranging", "writing", "done"}

TypeOK ==
    /\ rooms \in SUBSET RoomNames
    /\ clients \in [RoomNames -> SUBSET Clients]
    /\ hubMsg \in Seq(Message) /\ Len(hubMsg) <= 1
    /\ hubTodo \in SUBSET Clients
    /\ sendBuf \in [Clients -> Seq(Message)]
    /\ \A c \in Clients : Len(sendBuf[c]) <= SendCap
    /\ sendState \in [Clients -> {"open", "evicted", "closed"}]
    /\ readPump \in [Clients -> ReaderStates]
    /\ outgoing \in [Clients -> Seq(Message)]
    /\ \A c \in Clients : (readPump[c] = "handling") <=> (Len(outgoing[c]) = 1)
    /\ \A c \in Clients : Len(outgoing[c]) <= 1
    /\ writePump \in [Clients -> WriterStates]
    /\ inHand \in [Clients -> Seq(Message)]
    /\ \A c \in Clients : Len(inHand[c]) <= 1
    /\ conn \in [Clients -> {"open", "closed"}]
    /\ issued \in 0..MaxMsgs
    /\ wire \in [Clients -> Seq(Message)]
    /\ feed \in [Clients -> Seq(Message)]

Init ==
    /\ rooms = {}
    /\ clients = [r \in RoomNames |-> {}]
    /\ hubMsg = <<>>
    /\ hubTodo = {}
    /\ sendBuf = [c \in Clients |-> <<>>]
    /\ sendState = [c \in Clients |-> "open"]
    /\ readPump = [c \in Clients |-> "absent"]
    /\ outgoing = [c \in Clients |-> <<>>]
    /\ writePump = [c \in Clients |-> "absent"]
    /\ inHand = [c \in Clients |-> <<>>]
    /\ conn = [c \in Clients |-> "open"]
    /\ issued = 0
    /\ wire = [c \in Clients |-> <<>>]
    /\ feed = [c \in Clients |-> <<>>]

-----------------------------------------------------------------------------
(* CreateWebsocket and ReadPump.                                           *)

\* The HTTP handler upgraded the connection and waits to send on Register.
Connect(c) ==
    /\ readPump[c] = "absent"
    /\ readPump' = [readPump EXCEPT ![c] = "registering"]
    /\ UNCHANGED <<hubVars, sendBuf, sendState, outgoing, issued, writerVars, conn, feed>>

\* A well-formed command: its handler runs in the ReadPump and broadcasts.
\* The connection may be closed already: ReadMessage still returns what it
\* had buffered.
ReadCommand(c) ==
    /\ readPump[c] = "reading"
    /\ issued < MaxMsgs
    /\ \E a \in Addresses :
          outgoing' = [outgoing EXCEPT ![c] = <<[no |-> issued + 1, room |-> a.room, id |-> a.id]>>]
    /\ issued' = issued + 1
    /\ readPump' = [readPump EXCEPT ![c] = "handling"]
    /\ UNCHANGED <<hubVars, sendBuf, sendState, writerVars, conn, feed>>

\* Mutant: the deferred function closes the connection without unregistering.
ReadFailWithoutUnregister(c) ==
    /\ readPump[c] = "reading"
    /\ readPump' = [readPump EXCEPT ![c] = "closing"]
    /\ UNCHANGED <<hubVars, sendBuf, sendState, outgoing, issued, writerVars, conn, feed>>

\* A read error, or a message that is not JSON, ends the loop; the deferred
\* function first sends on Unregister.
ReadFail(c) ==
    /\ readPump[c] = "reading"
    /\ readPump' = [readPump EXCEPT ![c] = "unregistering"]
    /\ UNCHANGED <<hubVars, sendBuf, sendState, outgoing, issued, writerVars, conn, feed>>

\* ... and then closes the connection.
ReaderClose(c) ==
    /\ readPump[c] = "closing"
    /\ conn' = [conn EXCEPT ![c] = "closed"]
    /\ readPump' = [readPump EXCEPT ![c] = "done"]
    /\ UNCHANGED <<hubVars, sendBuf, sendState, outgoing, issued, writerVars, feed>>

-----------------------------------------------------------------------------
(* WritePump.                                                              *)

WriterTake(c) ==
    /\ writePump[c] = "ranging"
    /\ sendBuf[c] # <<>>
    /\ inHand' = [inHand EXCEPT ![c] = <<Head(sendBuf[c])>>]
    /\ sendBuf' = [sendBuf EXCEPT ![c] = Tail(sendBuf[c])]
    /\ writePump' = [writePump EXCEPT ![c] = "writing"]
    /\ UNCHANGED <<hubVars, sendState, readerVars, wire, conn, feed>>

WriteOk(c) ==
    /\ writePump[c] = "writing"
    /\ conn[c] = "open"
    /\ wire' = [wire EXCEPT ![c] = wire[c] \o inHand[c]]
    /\ inHand' = [inHand EXCEPT ![c] = <<>>]
    /\ writePump' = [writePump EXCEPT ![c] = "ranging"]
    /\ UNCHANGED <<hubVars, sendBuf, sendState, readerVars, conn, feed>>

\* Mutant: a failed write is skipped and the loop goes on.
WriteErrGoesOn(c) ==
    /\ writePump[c] = "writing"
    /\ inHand' = [inHand EXCEPT ![c] = <<>>]
    /\ writePump' = [writePump EXCEPT ![c] = "ranging"]
    /\ UNCHANGED <<hubVars, sendBuf, sendState, readerVars, wire, conn, feed>>

\* The write fails: the loop breaks and the deferred function closes the
\* connection.  The channel stays open and keeps filling.
WriteErr(c) ==
    /\ writePump[c] = "writing"
    /\ conn' = [conn EXCEPT ![c] = "closed"]
    /\ writePump' = [writePump EXCEPT ![c] = "done"]
    /\ UNCHANGED <<hubVars, sendBuf, sendState, readerVars, inHand, wire, feed>>

\* Mutants: the loop ends as soon as the channel is closed; the connection is
\* left open.
WriterEndUndrained(c) ==
    /\ writePump[c] = "ranging"
    /\ sendState[c] # "open"
    /\ conn' = [conn EXCEPT ![c] = "closed"]
    /\ writePump' = [writePump EXCEPT ![c] = "done"]
    /\ UNCHANGED <<hubVars, sendBuf, sendState, readerVars, inHand, wire, feed>>

WriterEndLeavesConn(c) ==
    /\ writePump[c] = "ranging"
    /\ sendBuf[c] = <<>>
    /\ sendState[c] # "open"
    /\ writePump' = [writePump EXCEPT ![c] = "done"]
    /\ UNCHANGED <<hubVars, sendBuf, sendState, readerVars, inHand, wire, conn, feed>>

\* range ends on a channel that is closed and drained.
WriterEnd(c) ==
    /\ writePump[c] = "ranging"
    /\ sendBuf[c] = <<>>
    /\ sendState[c] # "open"
    /\ conn' = [conn EXCEPT ![c] = "closed"]
    /\ writePump' = [writePump EXCEPT ![c] = "done"]
    /\ UNCHANGED <<hubVars, sendBuf, sendState, readerVars, inHand, wire, feed>>

-----------------------------------------------------------------------------
(* Hub.Run.                                                                *)

AtSelect == hubTodo = {}

\* case client := <-h.Register; the HTTP handler then starts the two pumps.
HubRegister(c) ==
    /\ AtSelect
    /\ readPump[c] = "registering"
    /\ rooms' = rooms \cup {RoomOf[c]}
    /\ clients' = [clients EXCEPT ![RoomOf[c]] = @ \cup {c}]
    /\ readPump' = [readPump EXCEPT ![c] = "reading"]
    /\ writePump' = [writePump EXCEPT ![c] = "ranging"]
    /\ UNCHANGED <<hubMsg, hubTodo, sendBuf, sendState, outgoing, issued, inHand, wire, conn, feed>>

\* Mutants: the emptied room is kept; the channel is closed but the client
\* stays in its room.
HubUnregisterKeepsRoom(c) ==
    /\ AtSelect
    /\ readPump[c] = "unregistering"
    /\ LET r == RoomOf[c] IN
          IF r \in rooms /\ c \in clients[r]
          THEN /\ clients' = [clients EXCEPT ![r] = @ \ {c}]
               /\ sendState' = [sendState EXCEPT ![c] = "closed"]
          ELSE UNCHANGED <<clients, sendState>>
    /\ readPump' = [readPump EXCEPT ![c] = "closing"]
    /\ UNCHANGED <<rooms, hubMsg, hubTodo, sendBuf, outgoing, issued, writerVars, conn, feed>>

HubUnregisterKeepsClient(c) ==
    /\ AtSelect
    /\ readPump[c] = "unregistering"
    /\ IF c \in clients[RoomOf[c]]
       THEN sendState' = [sendState EXCEPT ![c] = "closed"]
       ELSE UNCHANGED sendState
    /\ readPump' = [readPump EXCEPT ![c] = "closing"]
    /\ UNCHANGED <<hubVars, sendBuf, outgoing, issued, writerVars, conn, feed>>

\* case client := <-h.Unregister: nothing to do for a client that is no
\* longer in its room, else close its channel and drop an emptied room.
HubUnregister(c) ==
    /\ AtSelect
    /\ readPump[c] = "unregistering"
    /\ LET r == RoomOf[c] IN
          \/ /\ r \in rooms /\ c \in clients[r]
             /\ clients' = [clients EXCEPT ![r] = @ \ {c}]
             /\ sendState' = [sendState EXCEPT ![c] = "closed"]
             /\ rooms' = IF clients[r] = {c} THEN rooms \ {r} ELSE rooms
          \/ /\ ~(r \in rooms /\ c \in clients[r])
             /\ UNCHANGED <<rooms, clients, sendState>>
    /\ readPump' = [readPump EXCEPT ![c] = "closing"]
    /\ UNCHANGED <<hubMsg, hubTodo, sendBuf, outgoing, issued, writerVars, conn, feed>>

\* The clients of the room whose Id a message names; all of them for NoId.
Matching(m) == {c \in clients[m.room] : m.id \in {NoId, IdOf[c]}}

\* Mutant: no break after the first match.
HubBroadcastToAllMatches(c) ==
    /\ AtSelect
    /\ readPump[c] = "handling"
    /\ LET m == Head(outgoing[c]) IN
          /\ hubTodo' = Matching(m)
          /\ hubMsg' = IF Matching(m) = {} THEN <<>> ELSE <<m>>
          /\ feed' = [d \in Clients |-> IF d \in Matching(m) THEN Append(feed[d], m) ELSE feed[d]]
    /\ readPump' = [readPump EXCEPT ![c] = "reading"]
    /\ outgoing' = [outgoing EXCEPT ![c] = <<>>]
    /\ UNCHANGED <<rooms, clients, sendBuf, sendState, issued, writerVars, conn>>

\* case msg := <-h.Broadcast: which clients the loop is to visit.  For a
\* message with an id it stops at the first match in map order, i.e. at any.
HubBroadcast(c) ==
    /\ AtSelect
    /\ readPump[c] = "handling"
    /\ LET m == Head(outgoing[c]) IN
          \E todo \in IF m.id = NoId \/ Matching(m) = {}
                      THEN {Matching(m)}
                      ELSE {{d} : d \in Matching(m)} :
             /\ hubTodo' = todo
             /\ hubMsg' = IF todo = {} THEN <<>> ELSE <<m>>
             /\ feed' = [d \in Clients |-> IF d \in todo THEN Append(feed[d], m) ELSE feed[d]]
    /\ readPump' = [readPump EXCEPT ![c] = "reading"]
    /\ outgoing' = [outgoing EXCEPT ![c] = <<>>]
    /\ UNCHANGED <<rooms, clients, sendBuf, sendState, issued, writerVars, conn>>

\* The loop has visited client c.
Visited(c) ==
    /\ hubTodo' = hubTodo \ {c}
    /\ hubMsg' = IF hubTodo = {c} THEN <<>> ELSE hubMsg

\* Mutant: a send that does not look at the capacity.
HubSendUnbounded(c) ==
    /\ c \in hubTodo
    /\ sendBuf' = [sendBuf EXCEPT ![c] = Append(@, Head(hubMsg))]
    /\ Visited(c)
    /\ UNCHANGED <<rooms, clients, sendState, readerVars, writerVars, conn, feed>>

\* case client.Send <- msg.Content
HubSend(c) ==
    /\ c \in hubTodo
    /\ Len(sendBuf[c]) < SendCap
    /\ sendBuf' = [sendBuf EXCEPT ![c] = Append(@, Head(hubMsg))]
    /\ Visited(c)
    /\ UNCHANGED <<rooms, clients, sendState, readerVars, writerVars, conn, feed>>

\* Mutants: the evicted client stays in its room; a message that finds the
\* buffer full is dropped; there is no default case, so that Run waits.
HubEvictKeepsClient(c) ==
    /\ c \in hubTodo
    /\ Len(sendBuf[c]) = SendCap
    /\ sendState' = [sendState EXCEPT ![c] = "evicted"]
    /\ Visited(c)
    /\ UNCHANGED <<rooms, clients, sendBuf, readerVars, writerVars, conn, feed>>

HubEvictDropsMessage(c) ==
    /\ c \in hubTodo
    /\ Len(sendBuf[c]) = SendCap
    /\ Visited(c)
    /\ UNCHANGED <<rooms, clients, sendBuf, sendState, readerVars, writerVars, conn, feed>>

HubEvictBlocks(c) == c \in hubTodo /\ FALSE /\ UNCHANGED vars

\* default: close(client.Send); delete(clients, client).  The room stays,
\* even when this was its last client.
HubEvict(c) ==
    /\ c \in hubTodo
    /\ Len(sendBuf[c]) = SendCap
    /\ sendState' = [sendState EXCEPT ![c] = "evicted"]
    /\ clients' = [clients EXCEPT ![Head(hubMsg).room] = @ \ {c}]
    /\ Visited(c)
    /\ UNCHANGED <<rooms, sendBuf, readerVars, writerVars, conn, feed>>

-----------------------------------------------------------------------------
\* Every connection was opened and torn down: the server idles.
Quiet ==
    /\ \A c \in Clients : readPump[c] = "done" /\ writePump[c] = "done"
    /\ AtSelect
    /\ UNCHANGED vars

ReaderStep(c) == Connect(c) \/ ReadCommand(c) \/ ReadFail(c) \/ ReaderClose(c)
WriterStep(c) == WriterTake(c) \/ WriteOk(c) \/ WriteErr(c) \/ WriterEnd(c)
HubStep(c) == \/ HubRegister(c) \/ HubUnregister(c) \/ HubBroadcast(c)
              \/ HubSend(c) \/ HubEvict(c)

Next == \/ \E c \in Clients : ReaderStep(c) \/ WriterStep(c) \/ HubStep(c)
        \/ Quiet

Spec == Init /\ [][Next]_vars

-----------------------------------------------------------------------------
(* Safety.                                                                 *)

\* A client is a member of the room it asked for only, and only while its
\* channel is open; so is every client the loop of Run has still to visit.
\* Run's close(client.Send) and client.Send <- would panic otherwise, and
\* take the whole server down.
NoSendOnClosed ==
    /\ \A r \in RoomNames : \A c \in clients[r] : RoomOf[c] = r /\ sendState[c] = "open"
    /\ \A c \in hubTodo : sendState[c] = "open"

\* What client c was or may still be sent, in order.
Got(c) == wire[c] \o inHand[c] \o sendBuf[c]

\* Between Run's select and the wire nothing is lost, doubled or reordered:
\* the channel, the WritePump's hand and the wire together hold exactly the
\* broadcasts accepted for a client, short of the one being handed out, and
\* of the one that found the buffer full and got the client evicted.
FlowOf(c) ==
    IF c \in hubTodo
    THEN feed[c] = Append(Got(c), Head(hubMsg))
    ELSE IF sendState[c] = "evicted"
         THEN \E m \in Message : feed[c] = Append(Got(c), m)
         ELSE feed[c] = Got(c)

NothingLostInside == \A c \in Clients : FlowOf(c)

\* A WritePump that ended because its channel was closed (and not on a write
\* error) has written everything: all that was accepted for the client, except
\* the message that got it evicted.
CleanEndDeliversAll ==
    \A c \in Clients :
        (writePump[c] = "done" /\ inHand[c] = <<>>) =>
            \/ wire[c] = feed[c]
            \/ sendState[c] = "evicted" /\ Len(feed[c]) = Len(wire[c]) + 1

\* The positions of message m on the connection of client c.
At(c, m) == {i \in DOMAIN wire[c] : wire[c][i] = m}

\* Two clients that both received the broadcasts m and n of their room received
\* them in the same order, and between the two of them exactly as many others
\* for the whole room: no client of a room misses what its neighbours see.
RoomWideBetween(c, i, j) == {k \in i..j : wire[c][k].id = NoId}
NeighboursAgree ==
    \A c, d \in Clients :
        \A i, j \in DOMAIN wire[c] :
            i < j => \A k \in At(d, wire[c][i]), l \in At(d, wire[c][j]) :
                        /\ k < l
                        /\ {wire[c][x] : x \in RoomWideBetween(c, i, j)}
                             = {wire[d][x] : x \in RoomWideBetween(d, k, l)}

\* Room r is kept without clients, and was not before the step.
LeftEmpty(r) ==
    /\ r \in rooms' /\ clients'[r] = {}
    /\ ~(r \in rooms /\ clients[r] = {})
\* The step evicts the only client of room r.
LastEvicted(r) ==
    \E c \in Clients : clients[r] = {c} /\ sendState[c] = "open" /\ sendState'[c] = "evicted"
RoomsLeftEmpty == \A r \in RoomNames : LeftEmpty(r) => LastEvicted(r)

\* A room comes to stay in h.Rooms without clients only by the eviction of its last
\* client: one whose last client unregisters goes with it, whoever was evicted from
\* it before, and a room that an eviction emptied goes once a client that joined it
\* later has left.
EmptyRoomOnlyByEviction == [][RoomsLeftEmpty]_vars

\* What a step leaves alone of a client whose channel is closed.
CloseKept(c) ==
    sendState[c] # "open" =>
        /\ sendState'[c] = sendState[c]
        /\ feed'[c] = feed[c]
        /\ sendBuf'[c] # sendBuf[c] =>
              sendBuf[c] # <<>> /\ sendBuf'[c] = Tail(sendBuf[c])

ClosedKept == \A c \in Clients : CloseKept(c)

\* Once its channel is closed nothing more is accepted for a client, its
\* channel only drains, and it is not closed a second time, whatever its
\* ReadPump still does and whoever else joins the room.
AfterCloseOnlyDrain == [][ClosedKept]_vars

-----------------------------------------------------------------------------
(* Fairness.  Run's select takes a case at random among those that are ready,
   and a channel serves its senders in turn, so a pump that waits on a channel
   is served if Run is back at its select again and again: strong fairness of
   each rendezvous.  A goroutine that can go on does: weak fairness of the
   loops.  A read or a write on a closed connection fails.  Nothing makes the
   peer send, or take what is written: there is no read or write deadline.   *)

PumpFairness ==
    \A c \in Clients :
        /\ SF_vars(HubRegister(c)) /\ SF_vars(HubUnregister(c)) /\ SF_vars(HubBroadcast(c))
        /\ WF_vars(HubSend(c) \/ HubEvict(c))
        /\ WF_vars(WriterTake(c)) /\ WF_vars(WriterEnd(c)) /\ WF_vars(ReaderClose(c))
        /\ WF_vars(conn[c] = "closed" /\ ReadFail(c))
        /\ WF_vars(conn[c] = "closed" /\ WriteErr(c))

LiveSpec == Spec /\ PumpFairness

\* The peer of client c goes on taking what is written to it, or the connection
\* breaks.
PeerTakes(c) == WF_vars(WriteOk(c) \/ WriteErr(c))

\* Whatever the other clients do, and even if some of them never take what is
\* written to them, Run serves every pump that waits for it.
SendersServed ==
    \A c \in Clients :
        readPump[c] \in {"registering", "handling", "unregistering"}
            ~> readPump[c] \in {"reading", "closing", "done"}

\* The two goroutines of a connection end together: when one is gone, so is
\* the other eventually.
PumpsEndTogether ==
    \A c \in Clients :
        (readPump[c] = "done" \/ writePump[c] = "done")
            ~> (readPump[c] = "done" /\ writePump[c] = "done")

\* An evicted client loses its connection and both its goroutines, if its peer
\* takes what is left for it.
EvictedEventuallyGone ==
    \A c \in Clients :
        PeerTakes(c) => (sendState[c] = "evicted" ~> (conn[c] = "closed" /\ readPump[c] = "done"))
=============================================================================
