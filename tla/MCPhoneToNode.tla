--------------------------- MODULE MCPhoneToNode ---------------------------
(* Instances of PhoneToNode for TLC. *)
EXTENDS PhoneToNode, TLC

CONSTANTS a, b, z, pic, doc

\* Two files of the same name, of two chunks and one, and an empty file.
ThreeFiles  == {a, b, z}
ThreeSizes  == (a :> 2) @@ (b :> 1) @@ (z :> 0)
ThreeNames  == (a :> pic) @@ (b :> pic) @@ (z :> doc)

\* Two files, of two chunks and of one, with the same name or with two.
TwoFiles    == {a, b}
TwoSizes    == (a :> 2) @@ (b :> 1)
SameName    == (a :> pic) @@ (b :> pic)
OwnNames    == (a :> pic) @@ (b :> doc)

\* pic is already in the receive folder.
PicExists   == {<<pic, 0>>}
=============================================================================
