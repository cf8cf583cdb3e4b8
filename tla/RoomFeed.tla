----------------------------- MODULE RoomFeed -----------------------------
(***************************************************************************)
(* What the websocket hub promises a client of a room, without goroutines, *)
(* channels or a loop over the room: a broadcast is published to all the   *)
(* subscribers of its room (or to one of those it names) in one step; each *)
(* of them then receives what was published to it, in order and without    *)
(* gaps; and a subscription is cut by the hub only when the subscriber is  *)
(* more than Window messages behind.                                       *)
(***************************************************************************)
EXTENDS Naturals, Sequences

CONSTANTS
    Clients, RoomNames, Ids, NoId, RoomOf, IdOf,
    Message,     \* records with at least the fields room and id
    Window       \* how far behind a subscriber may always be

VARIABLES
    sub,         \* sub[c]: "new", "on", or how the subscription ended
    feed,        \* feed[c]: what was published to c, in order
    wire         \* wire[c]: what c has received, in order

feedVars == <<sub, feed, wire>>

Init ==
    /\ sub = [c \in Clients |-> "new"]
    /\ feed = [c \in Clients |-> <<>>]
    /\ wire = [c \in Clients |-> <<>>]

Behind(c) == Len(feed[c]) - Len(wire[c])

Join(c) ==
    /\ sub[c] = "new"
    /\ sub' = [sub EXCEPT ![c] = "on"]
    /\ UNCHANGED <<feed, wire>>

Leave(c) ==
    /\ sub[c] = "on"
    /\ sub' = [sub EXCEPT ![c] = "left"]
    /\ UNCHANGED <<feed, wire>>

Evict(c) ==
    /\ sub[c] = "on"
    /\ Behind(c) > Window
    /\ sub' = [sub EXCEPT ![c] = "evicted"]
    /\ UNCHANGED <<feed, wire>>

Audience(m) == {c \in Clients : sub[c] = "on" /\ RoomOf[c] = m.room /\ m.id \in {NoId, IdOf[c]}}

\* A message with an id goes to one of the subscribers with that id.
Publish(m) ==
    /\ \E to \in SUBSET Audience(m) :
          /\ IF m.id = NoId THEN to = Audience(m)
             ELSE \A c \in Audience(m) : \E d \in Audience(m) : to = {d}
          /\ \A c \in to : Behind(c) <= Window + 1
          /\ feed' = [c \in Clients |-> IF c \in to THEN Append(feed[c], m) ELSE feed[c]]
    /\ UNCHANGED <<sub, wire>>

\* Also after the subscription ended: what was queued is still delivered.
Deliver(c) ==
    /\ Behind(c) > 0
    /\ wire' = [wire EXCEPT ![c] = Append(wire[c], feed[c][Len(wire[c]) + 1])]
    /\ UNCHANGED <<sub, feed>>

Next ==
    \/ \E c \in Clients : Join(c) \/ Leave(c) \/ Evict(c) \/ Deliver(c)
    \/ \E m \in Message : Publish(m)

Spec == Init /\ [][Next]_feedVars
=============================================================================
