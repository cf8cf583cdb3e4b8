----------------------------- MODULE MCSessions -----------------------------
(***************************************************************************)
(* Instances of the sessions for TLC: one browser with several tabs.       *)
(***************************************************************************)
EXTENDS Sessions, TLC

CONSTANT b1

\* One browser, with requests of several tabs at once.
OneBrowser == [r \in Requests |-> b1]

\* No step and no property singles out one visit.
Interchangeable == Permutations(Visits)
=============================================================================
