------------------------------ MODULE Receiver ------------------------------
(***************************************************************************)
(* What the Node server and the Go server have in common when they receive *)
(* files from a phone: the state of transfers and of the files they write, *)
(* and the properties both backends must have.  NodeReceive and GoReceive  *)
(* extend it with their handlers.                                          *)
(***************************************************************************)
EXTENDS PhoneSend

CONSTANTS
  Name,      \* Name[t]: the file name the phone announces for t
  Existing   \* files the receive folder holds at the start

\* A file in the receive folder: base name and the counter suffix.
Files == {Name[t] : t \in Transfers} \X Nat

ASSUME ReceiverAssumption ==
  /\ DOMAIN Name = Transfers
  /\ Existing \subseteq Files

VARIABLES
  authed,     \* connections whose client is authenticated
  transfers,  \* keys of the server-wide map of transfers
  active,     \* active[c]: the active transfer of connection c
  path,       \* path[t]: the file chosen for t
  stream,     \* stream[t]: "none", "open", "ending" (Node only) or "closed"
  written     \* written[t]: chunks written through t's stream, in order

receiverVars == <<authed, transfers, active, path, stream, written>>

Chunks == Transfers \X Nat

ReceiverTypeOK ==
  /\ authed \subseteq Conns
  /\ transfers \subseteq Transfers
  /\ active \in [Conns -> Transfers \cup {NONE}]
  /\ path \in [Transfers -> Files \cup {NONE}]
  /\ stream \in [Transfers -> {"none", "open", "ending", "closed"}]
  /\ written \in [Transfers -> Seq(Chunks)]

ReceiverInit ==
  /\ authed = {}
  /\ transfers = {}
  /\ active = [c \in Conns |-> NONE]
  /\ path = [t \in Transfers |-> NONE]
  /\ stream = [t \in Transfers |-> "none"]
  /\ written = [t \in Transfers |-> <<>>]

\* transfer.received and the file's contents advance together.
Received(t) == Len(written[t])

\* The next frame of connection c is taken by its handler.
Take(c, kind) ==
  /\ TakeFrame(c, kind)
  /\ UNCHANGED <<spc, idx>>

\* The chunk at the head of connection c is written to the file of t.
Write(c, t) ==
  written' = [written EXCEPT ![t] =
                Append(@, <<Head(up[c]).t, Head(up[c]).k>>)]

\* Mutant of EndTarget: client.activeTransfer is preferred.
EndTargetActive(c, t) == IF active[c] # NONE THEN active[c] ELSE t

\* The transfer a FILE_END names, or else the connection's active one.
EndTarget(c, t) == IF t \in transfers THEN t ELSE active[c]

----------------------------------------------------------------------------
(* Properties of either backend. *)

\* The first n chunks of t, in order.
OwnPrefix(t, n) == [i \in 1 .. n |-> <<t, i>>]

\* "sent successfully" (the end of sendFile) is said only of a file whose
\* every chunk the server has passed to that file's stream, in order, once.
DoneMeansComplete ==
  \A t \in Transfers :
    spc[t] = "done" => written[t] = OwnPrefix(t, NumChunks[t])

\* While a send runs, the server's file holds exactly the acknowledged
\* chunks, or those and the one whose ACK is still outstanding.
AckedMeansWritten ==
  \A t \in Transfers :
    Sending(t) => \/ written[t] = OwnPrefix(t, idx[t])
                  \/ written[t] = OwnPrefix(t, idx[t] + 1)

\* Stop-and-wait bounds the queue: a connection never carries two chunks
\* (docs/issues/chunks_mismatch.md, "queue depths never exceed 1 chunk"),
\* not even when an aborted send is followed at once by another.
OneChunkInFlight ==
  \A c \in Conns : \A i, j \in 1 .. Len(up[c]) :
    up[c][i].kind = "chunk" /\ up[c][j].kind = "chunk" => i = j

\* AUTH overtakes whatever was queued while the phone was offline: no frame
\* of a transfer is handled on a connection that is not authenticated.
AuthPrecedesFrames ==
  \A c \in Conns :
    up[c] # <<>> /\ c \notin authed => Head(up[c]).kind = "auth"

\* However sends overlap, a chunk is written to at most one file, at most
\* once: routing by connection state may misplace a chunk, not repeat it.
NoChunkWrittenTwice ==
  \A t, u \in Transfers :
    \A i \in DOMAIN written[t], j \in DOMAIN written[u] :
      written[t][i] = written[u][j] => t = u /\ i = j

\* Sends keep the promise of FileCopy.
Copy == INSTANCE FileCopy WITH
  status <- [t \in Transfers |-> IF Sending(t) THEN "sending" ELSE spc[t]],
  copy   <- written,
  closed <- {t \in Transfers : stream[t] = "closed"}
CopySpec == Copy!Spec

\* A running sendFile returns or throws, whatever the network and the server
\* do: the 8 s timers leave nobody waiting for ever.
EverySendEnds ==
  \A t \in Transfers : Sending(t) ~> spc[t] \in {"done", "failed"}

\* docs/issues/binary_refactor_changes.md: "Files are no longer corrupt when
\* arriving at the PC" -- no chunk is ever written to another file.
NoForeignChunk ==
  \A t \in Transfers : \A i \in DOMAIN written[t] : written[t][i][1] = t

\* docs/logics/file_transfer.md: "The PC dynamically ensures the filename is
\* globally unique inside the receive folder" -- no two transfers write to
\* the same file.
UniquePaths ==
  \A t, u \in Transfers : path[t] = path[u] /\ path[t] # NONE => t = u
=============================================================================
