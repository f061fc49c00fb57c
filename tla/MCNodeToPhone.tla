--------------------------- MODULE MCNodeToPhone ---------------------------
(* Instances of NodeToPhone for TLC. *)
EXTENDS NodeToPhone, TLC

CONSTANTS a, b, c, pic, doc, none

\* Two files, of two chunks and of one.
TwoFiles == {a, b}
TwoSizes == (a :> 2) @@ (b :> 1)
OwnNames == (a :> pic) @@ (b :> doc)
\* A third one, which is empty.
ThreeFiles == {a, b, c}
ThreeSizes == (a :> 2) @@ (b :> 1) @@ (c :> 0)
ThreeNames == (a :> pic) @@ (b :> doc) @@ (c :> none)
=============================================================================
