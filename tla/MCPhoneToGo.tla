---------------------------- MODULE MCPhoneToGo ----------------------------
(* An instance of PhoneToGo for TLC. *)
EXTENDS PhoneToGo, TLC

CONSTANTS a, b, z, pic, doc

\* Two files of the same name, of two chunks and one, and an empty file.
ThreeFiles  == {a, b, z}
ThreeSizes  == (a :> 2) @@ (b :> 1) @@ (z :> 0)
ThreeNames  == (a :> pic) @@ (b :> pic) @@ (z :> doc)

\* pic is already in the receive folder.
PicExists   == {<<pic, 0>>}
=============================================================================
