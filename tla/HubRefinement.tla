--------------------------- MODULE HubRefinement ---------------------------
(***************************************************************************)
(* The hub implements RoomFeed.  A subscription starts when Run adds the   *)
(* client to its room and ends when Run closes the client's channel; a     *)
(* broadcast is published when Run takes it from the Broadcast channel,    *)
(* and received when WritePump has written it.                             *)
(***************************************************************************)
EXTENDS Hub

Subscription(c) ==
    CASE sendState[c] = "evicted" -> "evicted"
      [] sendState[c] = "closed"  -> "left"
      [] OTHER -> IF c \in clients[RoomOf[c]] THEN "on" ELSE "new"

sub == [c \in Clients |-> Subscription(c)]

Feed == INSTANCE RoomFeed WITH Window <- SendCap

\* Every step of the hub is a step of RoomFeed or leaves it alone: clients of
\* websocket/websocket.go receive unbroken, ordered runs of what was broadcast
\* to them, and are evicted only when more than SendCap messages behind.
ImplementsRoomFeed ==
    Feed!Init /\ [][UNCHANGED Feed!feedVars \/ Feed!Next]_(Feed!feedVars)
=============================================================================
