----------------------------- MODULE GoReceive -----------------------------
(***************************************************************************)
(* The Go server's half of a phone-to-PC transfer.  handleClient is one    *)
(* goroutine per connection that reads a frame, runs its handler to the    *)
(* end and reads the next: handlers of one connection never overlap, those *)
(* of two connections do.                                                  *)
(***************************************************************************)
EXTENDS Receiver

VARIABLE
  creating  \* handleFileMeta calls that have not created their file yet

goVars == <<receiverVars, creating>>

\* The last os.Stat has found the path free.
CreateCalls == [t : Transfers, c : Conns, n : Nat, free : BOOLEAN]

GoTypeOK ==
  /\ ReceiverTypeOK
  /\ creating \subseteq CreateCalls

GoInit ==
  /\ ReceiverInit
  /\ creating = {}

\* os.Create makes the file before the handler goes on.
Disk == Existing \cup {path[t] : t \in {u \in Transfers : path[u] # NONE}}

\* The goroutine of connection c reads its next frame.
Read(c, kind) ==
  /\ \A h \in creating : h.c # c
  /\ Take(c, kind)

\* A goroutine is inside a handler: the phone and its channels are unchanged.
Working == UNCHANGED <<spc, idx, link, conn, drops, pending, up>>

----------------------------------------------------------------------------
\* handleAuth.
GoAuth(c) ==
  /\ Read(c, "auth")
  /\ authed' = authed \cup {c}
  /\ UNCHANGED <<down, transfers, active, path, stream, written, creating>>

\* handleFileMeta, up to the first os.Stat of ensureUniquePath.
GoMeta(c) ==
  /\ Read(c, "meta")
  /\ creating' = IF c \in authed
                 THEN creating \cup {[t |-> Head(up[c]).t, c |-> c, n |-> 0,
                                      free |-> FALSE]}
                 ELSE creating
  /\ UNCHANGED <<down, receiverVars>>

\* ensureUniquePath: the file exists, the next suffix is tried.
StatNext(h) ==
  /\ Working
  /\ ~h.free /\ <<Name[h.t], h.n>> \in Disk
  /\ creating' = (creating \ {h}) \cup {[h EXCEPT !.n = @ + 1]}
  /\ UNCHANGED <<down, receiverVars>>

\* ... or it does not exist, and its path is what the caller will create.
StatFree(h) ==
  /\ Working
  /\ ~h.free /\ <<Name[h.t], h.n>> \notin Disk
  /\ creating' = (creating \ {h}) \cup {[h EXCEPT !.free = TRUE]}
  /\ UNCHANGED <<down, receiverVars>>

\* Mutant of CreateAndRegister: the connection keeps the transfer it has.
RegisterKeepsActive(h) ==
  /\ Working
  /\ h.free
  /\ creating' = creating \ {h}
  /\ path' = [path EXCEPT ![h.t] = <<Name[h.t], h.n>>]
  /\ stream' = [stream EXCEPT ![h.t] = "open"]
  /\ transfers' = transfers \cup {h.t}
  /\ active' = [active EXCEPT ![h.c] = IF @ = NONE THEN h.t ELSE @]
  /\ Reply(h.c, <<MetaAck(h.t)>>)
  /\ UNCHANGED <<authed, written>>

\* os.Create, of a path another connection may have created by now; the
\* transfer registered under transfersMu, the META acknowledged.
CreateAndRegister(h) ==
  /\ Working
  /\ h.free
  /\ creating' = creating \ {h}
  /\ path' = [path EXCEPT ![h.t] = <<Name[h.t], h.n>>]
  /\ stream' = [stream EXCEPT ![h.t] = "open"]
  /\ transfers' = transfers \cup {h.t}
  /\ active' = [active EXCEPT ![h.c] = h.t]
  /\ Reply(h.c, <<MetaAck(h.t)>>)
  /\ UNCHANGED <<authed, written>>

\* handleBinaryChunk without a client, a transfer or an open file: the frame
\* is dropped and nothing is acknowledged.
GoDropChunk(c) ==
  /\ Read(c, "chunk")
  /\ ~ (c \in authed /\ active[c] \in {t \in Transfers : stream[t] = "open"})
  /\ UNCHANGED <<down, goVars>>

\* Mutant of GoWriteChunk: the ACK carries the count before this chunk.
GoWriteChunkAckEarly(c) ==
  /\ Read(c, "chunk")
  /\ c \in authed
  /\ \E t \in Transfers :
       /\ active[c] = t
       /\ stream[t] = "open"
       /\ Write(c, t)
       /\ Reply(c, <<ChunkAck(t, Received(t))>>)
  /\ UNCHANGED <<authed, transfers, active, path, stream, creating>>

\* handleBinaryChunk: File.Write, then the ACK of the new count.
GoWriteChunk(c) ==
  /\ Read(c, "chunk")
  /\ c \in authed
  /\ \E t \in Transfers :
       /\ active[c] = t
       /\ stream[t] = "open"
       /\ Write(c, t)
       /\ Reply(c, <<ChunkAck(t, Received(t) + 1)>>)
  /\ UNCHANGED <<authed, transfers, active, path, stream, creating>>

\* handleFileEnd: the transfer is forgotten and the connection's active one
\* cleared under transfersMu, the file closed, the message acknowledged.
GoEnd(c) ==
  /\ Read(c, "end")
  /\ LET m == Head(up[c]).t
         t == EndTarget(c, m)
     IN IF c \in authed /\ t # NONE
        THEN /\ transfers' = transfers \ {t}
             /\ active' = [active EXCEPT ![c] = NONE]
             /\ stream' = [stream EXCEPT ![t] = "closed"]
             /\ Reply(c, <<EndAck(m)>>)
        ELSE UNCHANGED <<transfers, active, stream, down>>
  /\ UNCHANGED <<authed, path, written, creating>>

GoHandler(c) ==
  \/ GoAuth(c) \/ GoMeta(c) \/ GoDropChunk(c) \/ GoWriteChunk(c) \/ GoEnd(c)

GoReceiveStep ==
  \/ \E c \in Conns : GoHandler(c)
  \/ \E h \in creating : StatNext(h) \/ StatFree(h) \/ CreateAndRegister(h)
=============================================================================
