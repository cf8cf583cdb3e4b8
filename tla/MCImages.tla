------------------------------ MODULE MCImages ------------------------------
(***************************************************************************)
(* Instances of the image uploads for TLC.                                 *)
(***************************************************************************)
EXTENDS Images, TLC

\* No step and no property singles out one upload or one path.
Interchangeable == Permutations(Uploads) \cup Permutations(Paths)
=============================================================================
