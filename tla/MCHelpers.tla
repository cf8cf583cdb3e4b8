----------------------------- MODULE MCHelpers -----------------------------
(***************************************************************************)
(* The pure functions for TLC.  One state is one input: a page being made, *)
(* a name being typed, or a number of hours, never two of them.            *)
(***************************************************************************)
EXTENDS Html, ImagePaths, InviteTtl

Init == HtmlInit /\ NameInit /\ TtlInit

Pages == HtmlStep /\ filename = <<>> /\ hours = 0 /\ UNCHANGED <<filename, hours>>
FileNames == NameStep /\ Len(heap) = 1 /\ hours = 0 /\ UNCHANGED <<heap, made, hours>>
Hours == TtlStep /\ Len(heap) = 1 /\ filename = <<>> /\ UNCHANGED <<heap, made, filename>>

Next == Pages \/ FileNames \/ Hours

Spec == Init /\ [][Next]_<<heap, made, filename, hours>>
=============================================================================
