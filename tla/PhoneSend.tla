----------------------------- MODULE PhoneSend -----------------------------
(***************************************************************************)
(* The phone's half of a phone-to-PC file transfer: FileTransferService    *)
(* .sendFile (a stop-and-wait sender) on top of the part of WebSocket-     *)
(* Service that carries its frames: the socket, the queue of messages kept *)
(* while the socket is not open, and the binary frames that are dropped.   *)
(*                                                                         *)
(* A PC server module (NodeReceive, GoReceive) supplies the other end of   *)
(* the channels up and down; PhoneToNode and PhoneToGo compose the two.    *)
(***************************************************************************)
EXTENDS Socket

CONSTANTS
  Transfers,   \* the transfer ids sendFile draws, one per call
  NumChunks,   \* NumChunks[t]: how many 60 KB chunks the file of t has
  Overlap      \* TRUE: a sendFile may start while another one is running

ASSUME PhoneAssumption ==
  /\ NONE \notin Transfers
  /\ NumChunks \in [Transfers -> Nat]
  /\ Overlap \in BOOLEAN

VARIABLES
  spc,  \* spc[t]: where the sendFile call of t stands
  idx   \* idx[t]: chunks of t whose ACK the phone has accepted

phoneVars == <<spc, idx, socketVars>>

Meta(t)      == [kind |-> "meta",     t |-> t,    k |-> 0]
\* A binary frame has no header: t and k say what its bytes are, and no
\* handler of the PC reads them to decide where the bytes go.
Chunk(t, k)  == [kind |-> "chunk",    t |-> t,    k |-> k]
End(t)       == [kind |-> "end",      t |-> t,    k |-> 0]
MetaAck(t)   == [kind |-> "metaAck",  t |-> t,    k |-> 0]
ChunkAck(t, k) == [kind |-> "chunkAck", t |-> t,  k |-> k]
EndAck(t)    == [kind |-> "endAck",   t |-> t,    k |-> 0]

Frames ==
  {Auth}
    \cup [kind : {"chunk", "chunkAck"}, t : Transfers, k : Nat]
    \cup [kind : {"meta", "end", "metaAck", "endAck"}, t : Transfers, k : {0}]

SendStates == {"idle", "meta", "reading", "chunk", "done", "failed"}
Sending(t) == spc[t] \in {"meta", "reading", "chunk"}

PhoneTypeOK ==
  /\ spc \in [Transfers -> SendStates]
  /\ idx \in [Transfers -> Nat]
  /\ SocketTypes(Frames)

\* A send never counts more ACKs than its file has chunks.
IdxBounded == \A t \in Transfers : idx[t] <= NumChunks[t]

PhoneInit ==
  /\ spc = [t \in Transfers |-> "idle"]
  /\ idx = [t \in Transfers |-> 0]
  /\ SocketInit

----------------------------------------------------------------------------
(* sendFile. *)

\* handlePickFile, handleSendFromStorage: a file is sent if the screen saw a
\* connection before the picker opened. With Overlap FALSE the user waits for
\* the running call to end; no code of the app makes sure of that.
PicksFile(t) ==
  /\ spc[t] = "idle"
  /\ conn # 0
  /\ Overlap \/ \A u \in Transfers : ~Sending(u)

\* The call reaches sendFileMeta, perhaps long after.
StartSend(t) ==
  /\ PicksFile(t)
  /\ spc' = [spc EXCEPT ![t] = "meta"]
  /\ Send(Meta(t))
  /\ UNCHANGED <<idx, link, conn, drops, down>>

\* Mutant of Proceed: one chunk too many is read.
ProceedOneMore(t, n) ==
  \/ /\ n <= NumChunks[t]
     /\ spc' = [spc EXCEPT ![t] = "reading"]
     /\ UNCHANGED <<up, pending>>
  \/ /\ n > NumChunks[t]
     /\ spc' = [spc EXCEPT ![t] = "done"]
     /\ Send(End(t))

\* What sendFile does once n of the chunks are acknowledged: read the next
\* one, or, after the last, send FILE_END and report success at once.
Proceed(t, n) ==
  \/ /\ n < NumChunks[t]
     /\ spc' = [spc EXCEPT ![t] = "reading"]
     /\ UNCHANGED <<up, pending>>
  \/ /\ n >= NumChunks[t]
     /\ spc' = [spc EXCEPT ![t] = "done"]
     /\ Send(End(t))

\* Mutant of SendChunk: chunks are sent without waiting for their ACKs.
SendChunkNoWait(t) ==
  /\ spc[t] = "reading"
  /\ idx[t] < NumChunks[t]
  /\ idx' = [idx EXCEPT ![t] = @ + 1]
  /\ SendBinary(Chunk(t, idx[t] + 1))
  /\ UNCHANGED <<spc, link, conn, drops, down>>

\* readAsStringAsync resolves; the chunk goes out and its ACK is awaited.
SendChunk(t) ==
  /\ spc[t] = "reading"
  /\ spc' = [spc EXCEPT ![t] = "chunk"]
  /\ SendBinary(Chunk(t, idx[t] + 1))
  /\ UNCHANGED <<idx, link, conn, drops, down>>

\* readAsStringAsync rejects: the call throws.
ReadFails(t) ==
  /\ spc[t] = "reading"
  /\ spc' = [spc EXCEPT ![t] = "failed"]
  /\ UNCHANGED <<idx, link, conn, drops, pending, up, down>>

\* Mutant of Timeout: a late ACK is only logged and the send goes on.
TimeoutContinues(t) ==
  /\ spc[t] = "chunk"
  /\ idx' = [idx EXCEPT ![t] = @ + 1]
  /\ Proceed(t, idx[t] + 1)
  /\ UNCHANGED <<link, conn, drops, down>>

\* Mutant of Timeout: the chunk is sent again.
TimeoutResends(t) ==
  /\ spc[t] \in {"meta", "chunk"}
  /\ spc' = [spc EXCEPT ![t] = IF @ = "meta" THEN "failed" ELSE "reading"]
  /\ UNCHANGED <<idx, link, conn, drops, pending, up, down>>

\* Mutant of Timeout: the ACK of a chunk is awaited without a timer.
TimeoutMetaOnly(t) ==
  /\ spc[t] = "meta"
  /\ spc' = [spc EXCEPT ![t] = "failed"]
  /\ UNCHANGED <<idx, link, conn, drops, pending, up, down>>

\* The 8 s timer of the META ACK or of a chunk ACK fires: the call throws.
Timeout(t) ==
  /\ spc[t] \in {"meta", "chunk"}
  /\ spc' = [spc EXCEPT ![t] = "failed"]
  /\ UNCHANGED <<idx, link, conn, drops, pending, up, down>>

\* Mutant of AwaitedChunk: the ACK's transfer id is not compared.
AwaitedAnyTransfer(f, t) == /\ f.kind = "chunkAck"
                            /\ spc[t] = "chunk"
                            /\ f.k = idx[t] + 1

\* The ACK that resolves the promise sendFile of t is waiting on.
AwaitedMeta(f, t)  == f.kind = "metaAck" /\ f.t = t /\ spc[t] = "meta"
AwaitedChunk(f, t) == /\ f.kind = "chunkAck"
                      /\ f.t = t
                      /\ spc[t] = "chunk"
                      /\ f.k = idx[t] + 1
Awaited(f, t) == AwaitedMeta(f, t) \/ AwaitedChunk(f, t)

\* The receiver is ready: the first chunk is read.
MetaAcked(t) ==
  /\ Deliver
  /\ AwaitedMeta(Head(down), t)
  /\ Proceed(t, 0)
  /\ UNCHANGED idx

\* The chunk just sent is acknowledged, by its exact index.
ChunkAcked(t) ==
  /\ Deliver
  /\ AwaitedChunk(Head(down), t)
  /\ idx' = [idx EXCEPT ![t] = @ + 1]
  /\ Proceed(t, idx[t] + 1)

\* No call waits for this frame: a stale or foreign ACK is ignored.
IgnoreFrame ==
  /\ Deliver
  /\ \A t \in Transfers : ~ Awaited(Head(down), t)
  /\ UNCHANGED <<spc, idx, up, pending>>

\* The call of t waits for nothing, or a frame it waits to be answered is on
\* its way to the PC, or its ACK is on its way back.
AnswerInChannels(t) ==
  CASE spc[t] = "meta" ->
         \/ InFlight(pending, Meta(t))
         \/ \E c \in Conns : InFlight(up[c], Meta(t))
         \/ InFlight(down, MetaAck(t))
    [] spc[t] = "chunk" ->
         \/ \E c \in Conns : InFlight(up[c], Chunk(t, idx[t] + 1))
         \/ InFlight(down, ChunkAck(t, idx[t] + 1))
    [] OTHER -> TRUE
=============================================================================
