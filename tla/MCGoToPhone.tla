----------------------------- MODULE MCGoToPhone ---------------------------
(* Instances of GoToPhone for TLC. *)
EXTENDS GoToPhone, TLC

CONSTANTS a, b, pic, doc

\* Two files, of two chunks and of one.
TwoFiles == {a, b}
TwoSizes == (a :> 2) @@ (b :> 1)
OwnNames == (a :> pic) @@ (b :> doc)
=============================================================================
