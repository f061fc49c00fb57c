----------------------------- MODULE MCPhoneApp -----------------------------
(* Two servers; see the cfg file for the bounds. *)
EXTENDS PhoneApp, FiniteSets

CONSTANTS pc1, pc2
MCPcs == {pc1, pc2}

\* Nothing tells the two servers apart before the first pairing: it is pc1's.
Pairings == {c \in calls : c.by = "pair"}
FirstIsPc1 ==
  issued = <<>> /\ Cardinality(Pairings) = 1 =>
    \A c \in Pairings : c.pc = pc1
=============================================================================
