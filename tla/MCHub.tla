------------------------------- MODULE MCHub -------------------------------
(***************************************************************************)
(* Instances of the hub for TLC.  Which room a client asks for and which id *)
(* it gives are functions of the clients, so they are defined here.        *)
(***************************************************************************)
EXTENDS HubRefinement, TLC

CONSTANTS c1, c2, c3, home, lobby, alice, bob

\* Three clients, two of them in the room home; c1 and c2 share an id, as two
\* tabs of one player do.
RoomOf3 == (c1 :> home) @@ (c2 :> home) @@ (c3 :> lobby)
IdOf3 == (c1 :> alice) @@ (c2 :> alice) @@ (c3 :> bob)
\* Messages for the whole room home, as the "test" command of home.go sends
\* them, and messages for one of the two tabs.
ToTwo == {[room |-> home, id |-> NoId], [room |-> home, id |-> alice]}

\* No step and no property tells two tabs of one player apart.
Tabs == Permutations({c1, c2})

\* Two clients with ids of their own, and messages that name c1, so that only
\* c1 can be behind.
RoomOf2 == (c1 :> home) @@ (c2 :> home)
IdOf2 == (c1 :> alice) @@ (c2 :> bob)
ToAlice == {[room |-> home, id |-> alice]}
=============================================================================
