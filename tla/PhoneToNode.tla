---------------------------- MODULE PhoneToNode ----------------------------
(***************************************************************************)
(* A phone sending files to the Node server: the stop-and-wait sender of   *)
(* PhoneSend and the async handlers of NodeReceive, joined by the FIFO     *)
(* WebSocket connections the two share.                                    *)
(***************************************************************************)
EXTENDS NodeReceive

vars == <<phoneVars, nodeVars>>

PhoneStep(t) ==
  /\ \/ StartSend(t) \/ SendChunk(t) \/ ReadFails(t) \/ Timeout(t)
     \/ MetaAcked(t) \/ ChunkAcked(t)
  /\ UNCHANGED nodeVars

SocketStep ==
  /\ Connect \/ Drop \/ NoticeClose \/ IgnoreFrame
  /\ UNCHANGED <<spc, idx, nodeVars>>

Init == PhoneInit /\ NodeInit
Next == \/ \E t \in Transfers : PhoneStep(t)
        \/ SocketStep
        \/ Receive

Spec == Init /\ [][Next]_vars

\* Fairness.  The phone's event loop delivers what has arrived, its reads
\* resolve and its timers fire; ws hands over what has arrived and the
\* server's pending I/O completes.  The user, the network and the reconnect
\* are not fair.
PhoneFairness ==
  /\ \A t \in Transfers :
       /\ WF_vars(SendChunk(t) /\ UNCHANGED nodeVars)
       /\ WF_vars((MetaAcked(t) \/ ChunkAcked(t)) /\ UNCHANGED nodeVars)
       /\ WF_vars(Timeout(t) /\ UNCHANGED nodeVars)
  /\ WF_vars(IgnoreFrame /\ UNCHANGED nodeVars)

NodeFairness ==
  /\ \A c \in Conns : WF_vars(NodeHandler(c))
  /\ \A t \in Transfers :
       /\ WF_vars(\E h \in metaWait :
                    h.t = t /\ (TryNextSuffix(h) \/ OpenStream(h)))
       /\ WF_vars(CreateFile(t))
       /\ WF_vars(Drain(t))
       /\ WF_vars(\E h \in endWait : h.t = t /\ FinishEnd(h))

FairSpec == Spec /\ PhoneFairness /\ NodeFairness

----------------------------------------------------------------------------
(* Properties; those of either backend are in Receiver. *)

\* Every variable has its type; a send never counts more ACKs than chunks.
TypeOK == PhoneTypeOK /\ IdxBounded /\ NodeTypeOK

\* No chunk reaches a stream that was already ended: the process survives.
ServerSurvives == alive

\* The file of a successful send is closed, and forgotten by the transfers
\* Map, unless a connection breaks (its FILE_END may be lost) or the process
\* dies.
DoneIsSaved ==
  \A t \in Transfers :
    spc[t] = "done" ~> \/ stream[t] = "closed" /\ t \notin transfers
                       \/ drops > 0
                       \/ ~alive

\* docs/issues/chunks_mismatch.md: files are sent "without silently dropping
\* any binary frames" -- as long as the connection holds and no call has
\* given up, a call that waits for an ACK has its frame, the handler at work
\* on it or the ACK under way.
NoStrandedSend ==
  drops = 0 /\ (\A t \in Transfers : spc[t] # "failed") =>
    \A t \in Transfers :
      \/ AnswerInChannels(t)
      \/ \E h \in metaWait : h.t = t
      \/ \E c \in Conns : drainWait[<<t, c>>] > 0
=============================================================================
