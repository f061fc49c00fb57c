----------------------------- MODULE PhoneToGo -----------------------------
(***************************************************************************)
(* A phone sending files to the Go server: PhoneSend and GoReceive over    *)
(* the same connections as PhoneToNode, for the same sender.               *)
(***************************************************************************)
EXTENDS GoReceive

vars == <<phoneVars, goVars>>

PhoneStep(t) ==
  /\ \/ StartSend(t) \/ SendChunk(t) \/ ReadFails(t) \/ Timeout(t)
     \/ MetaAcked(t) \/ ChunkAcked(t)
  /\ UNCHANGED goVars

SocketStep ==
  /\ Connect \/ Drop \/ NoticeClose \/ IgnoreFrame
  /\ UNCHANGED <<spc, idx, goVars>>

Init == PhoneInit /\ GoInit
Next == \/ \E t \in Transfers : PhoneStep(t)
        \/ SocketStep
        \/ GoReceiveStep

Spec == Init /\ [][Next]_vars

----------------------------------------------------------------------------
(* Properties; those of either backend are in Receiver. *)

\* Every variable has its type; a send never counts more ACKs than chunks.
TypeOK == PhoneTypeOK /\ IdxBounded /\ GoTypeOK

\* As long as the connection holds, a call that waits for an ACK has its
\* frame, the handler at work on it or the ACK under way: the handlers of a
\* connection never drop or misplace a frame of a later send.
NoStrandedSend ==
  drops = 0 =>
    \A t \in Transfers : AnswerInChannels(t) \/ \E h \in creating : h.t = t
=============================================================================
