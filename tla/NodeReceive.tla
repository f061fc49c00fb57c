---------------------------- MODULE NodeReceive ----------------------------
(***************************************************************************)
(* The Node server's half of a phone-to-PC transfer: handleAuth,           *)
(* handleFileMeta, handleBinaryChunk and handleFileEnd of server.js, and   *)
(* the write stream each transfer owns.                                    *)
(*                                                                         *)
(* The handlers are async functions that nothing serialises: ws calls the  *)
(* next one while an earlier one waits at an await.  A handler is one      *)
(* action up to its first await and one action per continuation; what it   *)
(* holds across the await is a record in metaWait, drainWait or endWait.   *)
(***************************************************************************)
EXTENDS Receiver

VARIABLES
  alive,      \* FALSE once an unhandled stream error ended the process
  created,    \* transfers whose createWriteStream has opened its file
  metaWait,   \* handleFileMeta calls awaiting pathExists
  drainWait,  \* handleBinaryChunk calls awaiting 'drain', per transfer and
              \* connection
  endWait     \* handleFileEnd calls awaiting stream.end

nodeVars == <<receiverVars, alive, created, metaWait, drainWait, endWait>>

MetaCalls == [t : Transfers, c : Conns, n : Nat]
EndCalls  == [t : Transfers, c : Conns, msg : Transfers]

NodeTypeOK ==
  /\ ReceiverTypeOK
  /\ alive \in BOOLEAN
  /\ created \subseteq Transfers
  /\ metaWait \subseteq MetaCalls
  /\ drainWait \in [Transfers \X Conns -> Nat]
  /\ endWait \subseteq EndCalls

NodeInit ==
  /\ ReceiverInit
  /\ alive = TRUE
  /\ created = {}
  /\ metaWait = {}
  /\ drainWait = [w \in Transfers \X Conns |-> 0]
  /\ endWait = {}

\* What pathExists sees: a stream's file is there once it has been opened.
Disk == Existing \cup {path[t] : t \in created}

\* ws hands the next frame of connection c to its handler.
Handle(c, kind) == alive /\ Take(c, kind)

\* A continuation runs: the phone and its channels are as they were.
Resume == alive /\ UNCHANGED <<spc, idx, link, conn, drops, pending, up>>

----------------------------------------------------------------------------
\* handleAuth: client.authed is set before the handler's first await.
HandleAuth(c) ==
  /\ Handle(c, "auth")
  /\ authed' = authed \cup {c}
  /\ UNCHANGED <<down, transfers, active, path, stream, written, alive,
                 created, metaWait, drainWait, endWait>>

\* Mutant of HandleMeta: the META is acknowledged before the first await.
HandleMetaAckFirst(c) ==
  /\ Handle(c, "meta")
  /\ metaWait' = metaWait \cup {[t |-> Head(up[c]).t, c |-> c, n |-> 0]}
  /\ Reply(c, <<MetaAck(Head(up[c]).t)>>)
  /\ UNCHANGED <<receiverVars, alive, created, drainWait, endWait>>

\* handleFileMeta up to its first pathExists.
HandleMeta(c) ==
  /\ Handle(c, "meta")
  /\ metaWait' = IF c \in authed
                 THEN metaWait \cup {[t |-> Head(up[c]).t, c |-> c, n |-> 0]}
                 ELSE metaWait
  /\ UNCHANGED <<down, receiverVars, alive, created, drainWait, endWait>>

\* pathExists said yes: the next suffix is tried.
TryNextSuffix(h) ==
  /\ Resume
  /\ <<Name[h.t], h.n>> \in Disk
  /\ metaWait' = (metaWait \ {h}) \cup {[h EXCEPT !.n = @ + 1]}
  /\ UNCHANGED <<down, receiverVars, alive, created, drainWait, endWait>>

\* pathExists said no: the stream is made, the transfer becomes the active
\* one of the connection, and the META is acknowledged.
OpenStream(h) ==
  /\ Resume
  /\ <<Name[h.t], h.n>> \notin Disk
  /\ metaWait' = metaWait \ {h}
  /\ path' = [path EXCEPT ![h.t] = <<Name[h.t], h.n>>]
  /\ stream' = [stream EXCEPT ![h.t] = "open"]
  /\ transfers' = transfers \cup {h.t}
  /\ active' = [active EXCEPT ![h.c] = h.t]
  /\ Reply(h.c, <<MetaAck(h.t)>>)
  /\ UNCHANGED <<authed, written, alive, created, drainWait, endWait>>

\* The stream opens its file: only now does the file exist on disk.
CreateFile(t) ==
  /\ Resume
  /\ stream[t] # "none"
  /\ t \notin created
  /\ created' = created \cup {t}
  /\ UNCHANGED <<down, receiverVars, alive, metaWait, drainWait, endWait>>

----------------------------------------------------------------------------
(* handleBinaryChunk. *)

\* No authenticated client or no active transfer: the frame is dropped.
DropChunk(c) ==
  /\ Handle(c, "chunk")
  /\ c \notin authed \/ active[c] = NONE
  /\ UNCHANGED <<down, nodeVars>>

\* The chunk goes to the connection's active transfer.  write() either has
\* room, and the ACK goes out at once, or the handler waits for 'drain'.
WriteChunk(c) ==
  /\ Handle(c, "chunk")
  /\ c \in authed
  /\ \E t \in Transfers :
       /\ active[c] = t
       /\ stream[t] = "open"
       /\ Write(c, t)
       /\ \/ /\ Reply(c, <<ChunkAck(t, Received(t) + 1)>>)
             /\ UNCHANGED drainWait
          \/ /\ drainWait' = [drainWait EXCEPT ![<<t, c>>] = @ + 1]
             /\ UNCHANGED down
  /\ UNCHANGED <<authed, transfers, active, path, stream, alive, created,
                 metaWait, endWait>>

\* write() on a stream already ended raises an 'error' event nobody listens
\* to: the process ends.
WriteAfterEnd(c) ==
  /\ Handle(c, "chunk")
  /\ c \in authed
  /\ \E t \in Transfers : active[c] = t /\ stream[t] # "open"
  /\ alive' = FALSE
  /\ UNCHANGED <<down, receiverVars, created, metaWait, drainWait, endWait>>

\* 'drain' resumes every handler waiting on the stream; each acknowledges
\* the count it now reads from transfer.received.
Drain(t) ==
  /\ Resume
  /\ stream[t] = "open"
  /\ t \in created
  /\ \E c \in Conns : drainWait[<<t, c>>] > 0
  /\ drainWait' = [w \in Transfers \X Conns |->
                    IF w[1] = t THEN 0 ELSE drainWait[w]]
  /\ down' = IF link = "up"
             THEN down \o [i \in 1 .. drainWait[<<t, conn>>] |->
                             ChunkAck(t, Received(t))]
             ELSE down
  /\ UNCHANGED <<receiverVars, alive, created, metaWait, endWait>>

----------------------------------------------------------------------------
(* handleFileEnd. *)

\* The handler up to its await: the stream is told to end.
HandleEnd(c) ==
  /\ Handle(c, "end")
  /\ LET m == Head(up[c]).t
         t == EndTarget(c, m)
     IN IF c \in authed /\ t # NONE
        THEN /\ stream' = [stream EXCEPT ![t] = "ending"]
             /\ endWait' = endWait \cup {[t |-> t, c |-> c, msg |-> m]}
        ELSE UNCHANGED <<stream, endWait>>
  /\ UNCHANGED <<down, authed, transfers, active, path, written, alive,
                 created, metaWait, drainWait>>

\* Mutant of FinishEnd: the transfers Map keeps its entry.
FinishEndLeaks(h) ==
  /\ Resume
  /\ h.t \in created
  /\ endWait' = endWait \ {h}
  /\ stream' = [stream EXCEPT ![h.t] = "closed"]
  /\ active' = [active EXCEPT ![h.c] = NONE]
  /\ Reply(h.c, <<EndAck(h.msg)>>)
  /\ UNCHANGED <<authed, transfers, path, written, alive, created, metaWait,
                 drainWait>>

\* The stream has flushed: the handler forgets the transfer and clears the
\* connection's active transfer, whichever that is by now.
FinishEnd(h) ==
  /\ Resume
  /\ h.t \in created
  /\ endWait' = endWait \ {h}
  /\ stream' = [stream EXCEPT ![h.t] = "closed"]
  /\ transfers' = transfers \ {h.t}
  /\ active' = [active EXCEPT ![h.c] = NONE]
  /\ Reply(h.c, <<EndAck(h.msg)>>)
  /\ UNCHANGED <<authed, path, written, alive, created, metaWait, drainWait>>

NodeHandler(c) ==
  \/ HandleAuth(c) \/ HandleMeta(c) \/ DropChunk(c) \/ WriteChunk(c)
  \/ WriteAfterEnd(c) \/ HandleEnd(c)

Receive ==
  \/ \E c \in Conns : NodeHandler(c)
  \/ \E h \in metaWait : TryNextSuffix(h) \/ OpenStream(h)
  \/ \E t \in Transfers : CreateFile(t) \/ Drain(t)
  \/ \E h \in endWait : FinishEnd(h)
=============================================================================
