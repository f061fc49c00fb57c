------------------------- MODULE PhoneToNode_proofs -------------------------
(***************************************************************************)
(* Theorems about PhoneToNode, for any number of transfers, chunks,        *)
(* connections and drops, checked by TLAPS.                                *)
(***************************************************************************)
EXTENDS PhoneToNode, Sending_proofs

USE DEF Conns, SocketTypes

\* TypeOK, and what makes it inductive.
TypeInv == PhoneInv /\ NodeTypeOK

----------------------------------------------------------------------------
(* The server's handlers and continuations. *)

\* What the phone's steps leave alone keeps its type.
LEMMA NodeUnchanged ==
  ASSUME NodeTypeOK, UNCHANGED nodeVars
  PROVE  NodeTypeOK'
  BY DEF NodeTypeOK, ReceiverTypeOK, nodeVars, receiverVars

\* A handler takes one frame off its connection and leaves the phone alone.
LEMMA HandleType ==
  ASSUME TypeInv, NEW c \in Conns, NEW kind, Handle(c, kind),
         down' \in Seq(Frames)
  PROVE  /\ PhoneInv'
         /\ Head(up[c]) \in Frames /\ Head(up[c]).kind = kind
  BY TakeType DEF TypeInv, Handle

\* A continuation of the server leaves the phone alone.
LEMMA ResumeType ==
  ASSUME TypeInv, Resume, down' \in Seq(Frames)
  PROVE  PhoneInv'
  BY RestType DEF TypeInv, Resume, PhoneRests

\* The facts every server step starts from.
LEMMA ServerTypes ==
  ASSUME TypeInv
  PROVE  PhoneTypeOK /\ NodeTypeOK /\ down \in Seq(Frames)
  BY DEF TypeInv, PhoneInv, PhoneTypeOK

LEMMA HandleAuthType ==
  ASSUME TypeInv, NEW c \in Conns, HandleAuth(c)
  PROVE  TypeInv'
  <1>1. Handle(c, "auth") /\ down' \in Seq(Frames)
    BY ServerTypes DEF HandleAuth
  <1>2. NodeTypeOK'
    BY ServerTypes DEF HandleAuth, NodeTypeOK, ReceiverTypeOK
  <1> QED
    BY <1>1, <1>2, HandleType DEF TypeInv

LEMMA HandleMetaType ==
  ASSUME TypeInv, NEW c \in Conns, HandleMeta(c)
  PROVE  TypeInv'
  <1>1. Handle(c, "meta") /\ down' \in Seq(Frames)
    BY ServerTypes DEF HandleMeta, receiverVars
  <1>2. Head(up[c]) \in Frames /\ Head(up[c]).kind = "meta"
    BY <1>1, HandleType
  <1>3. Head(up[c]).t \in Transfers
    BY <1>2, FrameFields
  <1>4. NodeTypeOK'
    BY <1>3, ServerTypes
    DEF HandleMeta, receiverVars, NodeTypeOK, ReceiverTypeOK, MetaCalls
  <1> QED
    BY <1>1, <1>4, HandleType DEF TypeInv

LEMMA TryNextSuffixType ==
  ASSUME TypeInv, NEW h \in metaWait, TryNextSuffix(h)
  PROVE  TypeInv'
  <1>1. Resume /\ down' \in Seq(Frames)
    BY ServerTypes DEF TryNextSuffix, receiverVars
  <1>2. h \in MetaCalls
    BY ServerTypes DEF NodeTypeOK, ReceiverTypeOK
  <1>3. [h EXCEPT !.n = @ + 1] \in MetaCalls
    BY <1>2 DEF MetaCalls
  <1>4. NodeTypeOK'
    BY <1>3, ServerTypes
    DEF TryNextSuffix, receiverVars, NodeTypeOK, ReceiverTypeOK
  <1> QED
    BY <1>1, <1>4, ResumeType DEF TypeInv

LEMMA OpenStreamType ==
  ASSUME TypeInv, NEW h \in metaWait, OpenStream(h)
  PROVE  TypeInv'
  <1>1. h.t \in Transfers /\ h.c \in Conns /\ h.n \in Nat
    BY ServerTypes DEF NodeTypeOK, ReceiverTypeOK, MetaCalls
  <1>2. <<MetaAck(h.t)>> \in Seq(Frames)
    BY <1>1, FrameTypes
  <1>3. Resume /\ down' \in Seq(Frames)
    BY <1>2, ServerTypes, ReplyType DEF OpenStream
  <1>4. <<Name[h.t], h.n>> \in Files
    BY <1>1 DEF Files
  <1>5. NodeTypeOK'
    BY <1>1, <1>4, ServerTypes DEF OpenStream, NodeTypeOK, ReceiverTypeOK
  <1> QED
    BY <1>3, <1>5, ResumeType DEF TypeInv

LEMMA CreateFileType ==
  ASSUME TypeInv, NEW t \in Transfers, CreateFile(t)
  PROVE  TypeInv'
  <1>1. Resume /\ down' \in Seq(Frames)
    BY ServerTypes DEF CreateFile, receiverVars
  <1>2. NodeTypeOK'
    BY ServerTypes DEF CreateFile, receiverVars, NodeTypeOK, ReceiverTypeOK
  <1> QED
    BY <1>1, <1>2, ResumeType DEF TypeInv

LEMMA DropChunkType ==
  ASSUME TypeInv, NEW c \in Conns, DropChunk(c)
  PROVE  TypeInv'
  <1>1. Handle(c, "chunk") /\ down' \in Seq(Frames)
    BY ServerTypes DEF DropChunk
  <1>2. NodeTypeOK'
    BY NodeUnchanged DEF DropChunk, TypeInv
  <1> QED
    BY <1>1, <1>2, HandleType DEF TypeInv

LEMMA WriteChunkType ==
  ASSUME TypeInv, NEW c \in Conns, WriteChunk(c)
  PROVE  TypeInv'
  <1>1. PICK t \in Transfers :
          /\ written' = [written EXCEPT ![t] =
                           Append(@, <<Head(up[c]).t, Head(up[c]).k>>)]
          /\ \/ /\ Reply(c, <<ChunkAck(t, Received(t) + 1)>>)
                /\ UNCHANGED drainWait
             \/ /\ drainWait' = [drainWait EXCEPT ![<<t, c>>] = @ + 1]
                /\ UNCHANGED down
    BY DEF WriteChunk, Write
  <1>2. written[t] \in Seq(Chunks) /\ Received(t) \in Nat
    BY ServerTypes, LenProperties DEF NodeTypeOK, ReceiverTypeOK, Received
  <1>3. down' \in Seq(Frames)
    <2>1. ChunkAck(t, Received(t) + 1) \in Frames
      BY <1>2, FrameTypes
    <2>2. <<ChunkAck(t, Received(t) + 1)>> \in Seq(Frames)
      BY <2>1
    <2>3. CASE Reply(c, <<ChunkAck(t, Received(t) + 1)>>)
      BY <2>2, <2>3, ServerTypes, ReplyType
    <2> QED
      BY <1>1, <2>3, ServerTypes
  <1>4. Handle(c, "chunk")
    BY DEF WriteChunk, Write
  <1>5. Head(up[c]) \in Frames /\ Head(up[c]).kind = "chunk"
    BY <1>3, <1>4, HandleType
  <1>6. <<Head(up[c]).t, Head(up[c]).k>> \in Chunks
    BY <1>5, FrameFields DEF Chunks
  <1>7. Append(written[t], <<Head(up[c]).t, Head(up[c]).k>>) \in Seq(Chunks)
    BY <1>2, <1>6, AppendProperties
  <1>8. written' \in [Transfers -> Seq(Chunks)]
    BY <1>1, <1>7, ServerTypes DEF NodeTypeOK, ReceiverTypeOK
  <1>9. drainWait' \in [Transfers \X Conns -> Nat]
    <2>1. drainWait \in [Transfers \X Conns -> Nat]
      BY ServerTypes DEF NodeTypeOK, ReceiverTypeOK
    <2>2. <<t, c>> \in Transfers \X Conns /\ drainWait[<<t, c>>] + 1 \in Nat
      BY <2>1
    <2>3. CASE drainWait' = [drainWait EXCEPT ![<<t, c>>] = @ + 1]
      <3> DEFINE w == <<t, c>>
      <3>1. drainWait' = [drainWait EXCEPT ![w] = drainWait[w] + 1]
        BY <2>3
      <3>2. w \in Transfers \X Conns /\ drainWait[w] + 1 \in Nat
        BY <2>2
      <3> HIDE DEF w
      <3> QED
        BY <2>1, <3>1, <3>2
    <2> QED
      BY <1>1, <2>1, <2>3
  <1>10. NodeTypeOK'
    BY <1>8, <1>9, ServerTypes
    DEF WriteChunk, Write, NodeTypeOK, ReceiverTypeOK
  <1> QED
    BY <1>3, <1>4, <1>10, HandleType DEF TypeInv

LEMMA WriteAfterEndType ==
  ASSUME TypeInv, NEW c \in Conns, WriteAfterEnd(c)
  PROVE  TypeInv'
  <1>1. Handle(c, "chunk") /\ down' \in Seq(Frames)
    BY ServerTypes DEF WriteAfterEnd, receiverVars
  <1>2. NodeTypeOK'
    BY ServerTypes DEF WriteAfterEnd, receiverVars, NodeTypeOK, ReceiverTypeOK
  <1> QED
    BY <1>1, <1>2, HandleType DEF TypeInv

LEMMA DrainType ==
  ASSUME TypeInv, NEW t \in Transfers, Drain(t)
  PROVE  TypeInv'
  <1>1. Received(t) \in Nat
    BY ServerTypes, LenProperties DEF NodeTypeOK, ReceiverTypeOK, Received
  <1>2. down' \in Seq(Frames)
    <2>1. CASE link = "up"
      <3> DEFINE n == drainWait[<<t, conn>>]
                 acks == [i \in 1 .. n |-> ChunkAck(t, Received(t))]
      <3>1. n \in Nat
        BY <2>1, ServerTypes DEF PhoneTypeOK, NodeTypeOK, ReceiverTypeOK
      <3>2. ChunkAck(t, Received(t)) \in Frames
        BY <1>1, FrameTypes
      <3>3. acks \in [1 .. n -> Frames]
        BY <3>2
      <3>4. acks \in Seq(Frames)
        BY <3>1, <3>3, SeqDef
      <3>5. down' = down \o acks
        BY <2>1 DEF Drain, receiverVars
      <3> QED
        BY <3>4, <3>5, ServerTypes, ConcatProperties
    <2> QED
      BY <2>1, ServerTypes DEF Drain, receiverVars
  <1>3. NodeTypeOK'
    BY ServerTypes DEF Drain, receiverVars, NodeTypeOK, ReceiverTypeOK
  <1>4. Resume
    BY DEF Drain, receiverVars
  <1> QED
    BY <1>2, <1>3, <1>4, ResumeType DEF TypeInv

LEMMA HandleEndType ==
  ASSUME TypeInv, NEW c \in Conns, HandleEnd(c)
  PROVE  TypeInv'
  <1> DEFINE m == Head(up[c]).t
             t == EndTarget(c, m)
  <1>1. Handle(c, "end") /\ down' \in Seq(Frames)
    BY ServerTypes DEF HandleEnd
  <1>2. Head(up[c]) \in Frames /\ Head(up[c]).kind = "end"
    BY <1>1, HandleType
  <1>3. m \in Transfers /\ t \in Transfers \cup {NONE}
    BY <1>2, FrameFields, ServerTypes DEF EndTarget, NodeTypeOK, ReceiverTypeOK
  <1>4. NodeTypeOK'
    <2>1. CASE c \in authed /\ t # NONE
      <3>1. [t |-> t, c |-> c, msg |-> m] \in EndCalls
        BY <1>3, <2>1 DEF EndCalls
      <3>2. /\ stream' = [stream EXCEPT ![t] = "ending"]
            /\ endWait' = endWait \cup {[t |-> t, c |-> c, msg |-> m]}
        BY <2>1 DEF HandleEnd
      <3> HIDE DEF t, m
      <3> QED
        BY <1>3, <2>1, <3>1, <3>2, ServerTypes
        DEF HandleEnd, NodeTypeOK, ReceiverTypeOK
    <2>2. CASE ~(c \in authed /\ t # NONE)
      <3>1. UNCHANGED <<stream, endWait>>
        BY <2>2 DEF HandleEnd
      <3> QED
        BY <3>1, ServerTypes DEF HandleEnd, NodeTypeOK, ReceiverTypeOK
    <2> QED
      BY <2>1, <2>2
  <1> QED
    BY <1>1, <1>4, HandleType DEF TypeInv

LEMMA FinishEndType ==
  ASSUME TypeInv, NEW h \in endWait, FinishEnd(h)
  PROVE  TypeInv'
  <1>1. h.t \in Transfers /\ h.c \in Conns /\ h.msg \in Transfers
    BY ServerTypes DEF NodeTypeOK, ReceiverTypeOK, EndCalls
  <1>2. <<EndAck(h.msg)>> \in Seq(Frames)
    BY <1>1, FrameTypes
  <1>3. Resume /\ down' \in Seq(Frames)
    BY <1>2, ServerTypes, ReplyType DEF FinishEnd
  <1>4. NodeTypeOK'
    BY <1>1, ServerTypes DEF FinishEnd, NodeTypeOK, ReceiverTypeOK
  <1> QED
    BY <1>3, <1>4, ResumeType DEF TypeInv

----------------------------------------------------------------------------
(* The theorem. *)

\* The system starts with its types.
LEMMA TypeInvInit ==
  ASSUME Init
  PROVE  TypeInv
  <1>1. NodeTypeOK
    BY EmptySeq DEF Init, NodeInit, ReceiverInit, NodeTypeOK, ReceiverTypeOK
  <1> QED
    BY <1>1, PhoneInvInit DEF Init, TypeInv

\* Every step keeps them.
LEMMA TypeInvStep ==
  ASSUME TypeInv, [Next]_vars
  PROVE  TypeInv'
  <1>1. CASE \E t \in Transfers : PhoneStep(t)
    BY <1>1, PhoneMovesType, NodeUnchanged DEF TypeInv, PhoneStep, PhoneMoves
  <1>2. CASE SocketStep
    BY <1>2, SocketType, NodeUnchanged
    DEF TypeInv, SocketStep, SocketMoves, nodeVars
  <1>3. CASE Receive
    BY <1>3, HandleAuthType, HandleMetaType, DropChunkType, WriteChunkType,
       WriteAfterEndType, HandleEndType, TryNextSuffixType, OpenStreamType,
       CreateFileType, DrainType, FinishEndType
    DEF Receive, NodeHandler
  <1>4. CASE UNCHANGED vars
    <2>1. PhoneRests /\ UNCHANGED <<down, nodeVars>>
      BY <1>4 DEF vars, phoneVars, socketVars, PhoneRests
    <2> QED
      BY <2>1, ServerTypes, NodeUnchanged, RestType DEF TypeInv
  <1> QED
    BY <1>1, <1>2, <1>3, <1>4 DEF Next

\* Every reachable state has its types, and no send ever counts more ACKs
\* than its file has chunks, however the handlers of server.js interleave,
\* whatever connections break and whichever timers fire.
THEOREM TypeCorrect == Spec => []TypeOK
  <1>1. Init => TypeInv
    BY TypeInvInit
  <1>2. TypeInv /\ [Next]_vars => TypeInv'
    BY TypeInvStep
  <1>3. TypeInv => TypeOK
    BY DEF TypeInv, PhoneInv, TypeOK
  <1> QED
    BY <1>1, <1>2, <1>3, PTL DEF Spec
----------------------------------------------------------------------------
(* AUTH first. *)

\* Every step of the server keeps AUTH in front.
LEMMA ReceiveKeepsAuthInv ==
  ASSUME TypeInv, AuthInv, Receive
  PROVE  AuthInv'
  <1>1. ASSUME NEW c \in Conns, NodeHandler(c)
        PROVE  AuthInv'
    <2>1. CASE HandleAuth(c)
      <3>1. Take(c, "auth") /\ authed' = authed \cup {c}
        BY <2>1 DEF HandleAuth, Handle
      <3> QED
        BY <3>1, TakeKeepsAuthInv DEF TypeInv
    <2>3. CASE HandleMeta(c)
      BY <2>3, TakeOtherKeepsAuthInv
      DEF TypeInv, HandleMeta, Handle, receiverVars
    <2>4. CASE DropChunk(c)
      BY <2>4, TakeOtherKeepsAuthInv
      DEF TypeInv, DropChunk, Handle, nodeVars, receiverVars
    <2>5. CASE WriteChunk(c)
      BY <2>5, TakeOtherKeepsAuthInv
      DEF TypeInv, WriteChunk, Handle
    <2>6. CASE WriteAfterEnd(c)
      BY <2>6, TakeOtherKeepsAuthInv
      DEF TypeInv, WriteAfterEnd, Handle, receiverVars
    <2>7. CASE HandleEnd(c)
      BY <2>7, TakeOtherKeepsAuthInv
      DEF TypeInv, HandleEnd, Handle
    <2> QED
      BY <1>1, <2>1, <2>3, <2>4, <2>5, <2>6, <2>7 DEF NodeHandler
  <1>2. ASSUME Resume, UNCHANGED authed
        PROVE  AuthInv'
    BY <1>2, AuthInvUnchanged DEF Resume
  <1>3. ASSUME NEW h \in metaWait, TryNextSuffix(h) \/ OpenStream(h)
        PROVE  AuthInv'
    BY <1>2, <1>3 DEF TryNextSuffix, OpenStream, receiverVars
  <1>4. ASSUME NEW t \in Transfers, CreateFile(t) \/ Drain(t)
        PROVE  AuthInv'
    BY <1>2, <1>4 DEF CreateFile, Drain, receiverVars
  <1>5. ASSUME NEW h \in endWait, FinishEnd(h)
        PROVE  AuthInv'
    BY <1>2, <1>5 DEF FinishEnd
  <1> QED
    BY <1>1, <1>3, <1>4, <1>5 DEF Receive

\* On every connection AUTH is handled before anything else, although the
\* frames queued while the phone was offline are older than it: no handler
\* of a transfer ever finds the connection unauthenticated.
THEOREM AuthFirst == Spec => []AuthPrecedesFrames
  <1>1. Init => AuthInv
    BY AuthInvInit DEF Init, NodeInit
  <1>2. TypeInv /\ AuthInv /\ [Next]_vars => AuthInv'
    <2> SUFFICES ASSUME TypeInv, AuthInv, [Next]_vars
                 PROVE  AuthInv'
      OBVIOUS
    <2>1. CASE UNCHANGED vars
      BY <2>1, AuthInvUnchanged
      DEF vars, phoneVars, socketVars, nodeVars, receiverVars
    <2>2. CASE \E t \in Transfers : PhoneStep(t)
      BY <2>2, PhoneKeepsAuthInv
      DEF TypeInv, PhoneStep, PhoneMoves, nodeVars, receiverVars
    <2>3. CASE SocketStep
      BY <2>3, SocketKeepsAuthInv
      DEF TypeInv, SocketStep, SocketMoves, nodeVars, receiverVars
    <2> QED
      BY <2>1, <2>2, <2>3, ReceiveKeepsAuthInv DEF Next
  <1>3. AuthInv => AuthPrecedesFrames
    BY DEF AuthInv, AuthPrecedesFrames
  <1> QED
    BY <1>1, <1>2, <1>3, TypeInvInit, TypeInvStep, PTL DEF Spec

----------------------------------------------------------------------------
(* No chunk twice. *)

\* Every step of the server keeps each chunk in one place.
LEMMA ReceiveKeepsOnce ==
  ASSUME TypeInv, ChunkOnce, Receive
  PROVE  ChunkOnce'
  <1>0. PhoneInv /\ ReceiverTypeOK
    BY DEF TypeInv, NodeTypeOK
  <1>1. ASSUME NEW c \in Conns, NodeHandler(c)
        PROVE  ChunkOnce'
    <2>1. CASE WriteChunk(c)
      BY <1>0, <2>1, OnceWrite DEF WriteChunk, Handle
    <2>2. CASE ~ WriteChunk(c)
      <3>1. UNCHANGED written /\ \E kind : Take(c, kind)
        BY <1>1, <2>2
        DEF NodeHandler, HandleAuth, HandleMeta, DropChunk, WriteAfterEnd,
            HandleEnd, Handle, nodeVars, receiverVars
      <3> QED
        BY <1>0, <3>1, OnceTake
    <2> QED
      BY <2>1, <2>2
  <1>2. ASSUME \/ \E h \in metaWait : TryNextSuffix(h) \/ OpenStream(h)
               \/ \E t \in Transfers : CreateFile(t) \/ Drain(t)
               \/ \E h \in endWait : FinishEnd(h)
        PROVE  ChunkOnce'
    <2>1. PhoneRests /\ UNCHANGED written
      BY <1>2
      DEF TryNextSuffix, OpenStream, CreateFile, Drain, FinishEnd, Resume,
          PhoneRests, receiverVars
    <2> QED
      BY <2>1, OnceRest
  <1> QED
    BY <1>1, <1>2 DEF Receive

\* However sends overlap and handlers interleave, whatever connections break
\* and whichever calls give up, no chunk is written twice, be it to one file
\* or to two: a frame is routed once and nothing is ever sent again.
THEOREM NoChunkTwice == Spec => []NoChunkWrittenTwice
  <1>1. Init => ChunkOnce
    BY OnceInit DEF Init, NodeInit
  <1>2. TypeInv /\ ChunkOnce /\ [Next]_vars => ChunkOnce'
    <2> SUFFICES ASSUME TypeInv, ChunkOnce, [Next]_vars
                 PROVE  ChunkOnce'
      OBVIOUS
    <2>1. CASE \E t \in Transfers : PhoneStep(t)
      BY <2>1, OncePhone
      DEF TypeInv, PhoneStep, PhoneMoves, nodeVars, receiverVars
    <2>2. CASE SocketStep
      BY <2>2, OnceSocket
      DEF TypeInv, SocketStep, SocketMoves, nodeVars, receiverVars
    <2>3. CASE UNCHANGED vars
      BY <2>3, OnceRest
      DEF vars, phoneVars, socketVars, nodeVars, receiverVars, PhoneRests
    <2> QED
      BY <2>1, <2>2, <2>3, ReceiveKeepsOnce DEF Next
  <1>3. ChunkOnce => NoChunkWrittenTwice
    BY DEF ChunkOnce
  <1> QED
    BY <1>1, <1>2, <1>3, TypeInvInit, TypeInvStep, PTL DEF Spec

----------------------------------------------------------------------------
(* One send at a time. *)

\* What the handlers hold across their awaits: a META of a call no other
\* handler has, a FILE_END of the stream it has told to end.
MetaWaits ==
  /\ \A h \in metaWait : CallInv(h)
  /\ \A g, h \in metaWait : g.t = h.t => g = h
EndWaits ==
  /\ \A h \in endWait : h.msg = h.t /\ stream[h.t] = "ending"
  /\ \A g, h \in endWait : g.t = h.t => g = h

NodeLine == alive /\ InLine /\ MetaWaits /\ EndWaits

\* The types a step starts from.
LEMMA NodeTypes ==
  ASSUME TypeInv
  PROVE  /\ PhoneInv /\ ReceiverTypeOK /\ PhoneTypeOK
         /\ \A h \in metaWait : h.t \in Transfers /\ h.c \in Conns
         /\ \A h \in endWait : h.t \in Transfers /\ h.c \in Conns
         /\ metaWait \subseteq MetaCalls /\ endWait \subseteq EndCalls
         /\ drainWait \in [Transfers \X Conns -> Nat]
  BY DEF TypeInv, PhoneInv, NodeTypeOK, MetaCalls, EndCalls

\* Steps that leave the waiting handlers and the streams alone.
LEMMA WaitsCalm ==
  ASSUME MetaWaits, EndWaits, Calm, UNCHANGED <<stream, metaWait, endWait>>
  PROVE  MetaWaits' /\ EndWaits'
  BY CallCalm DEF MetaWaits, EndWaits

\* handleAuth, a handler that drops its frame, and a META that finds its
\* connection without AUTH.
LEMMA TakeOnly ==
  ASSUME TypeInv, NodeLine, NEW c \in Conns, NEW kind, Take(c, kind),
         UNCHANGED <<down, active, stream, transfers, written, alive>>,
         UNCHANGED <<metaWait, endWait>>
  PROVE  NodeLine' /\ CopyStep
  <1>1. Calm /\ UNCHANGED <<link, spc>>
    BY NodeTypes, TakeCalm DEF NodeLine, Take
  <1>2. \A f : InDown(f)' => InDown(f)
    BY DEF InDown
  <1>3. InLine'
    BY <1>1, <1>2, NodeTypes, LineNoWrite DEF NodeLine
  <1> QED
    BY <1>1, <1>3, WaitsCalm, CopyCalm DEF NodeLine

\* A continuation that leaves the files alone.
LEMMA RestOnly ==
  ASSUME TypeInv, NodeLine, PhoneRests,
         UNCHANGED <<down, active, stream, transfers, written, alive>>
  PROVE  Calm /\ InLine' /\ CopyStep
  <1>1. Calm /\ UNCHANGED <<link, spc>>
    BY NodeTypes, RestCalm DEF NodeLine, PhoneRests
  <1>2. \A f : InDown(f)' => InDown(f)
    BY DEF InDown
  <1>3. InLine'
    BY <1>1, <1>2, NodeTypes, LineNoWrite DEF NodeLine
  <1> QED
    BY <1>1, <1>3, CopyCalm

\* handleFileMeta begins.
LEMMA HandleMetaLine ==
  ASSUME TypeInv, NodeLine, NEW c \in Conns, HandleMeta(c)
  PROVE  NodeLine' /\ CopyStep
  <1>1. /\ Take(c, "meta") /\ UNCHANGED <<down, alive, endWait>>
        /\ UNCHANGED <<active, stream, transfers, written>>
    BY DEF HandleMeta, Handle, receiverVars
  <1>2. CASE c \notin authed
    <2>1. UNCHANGED metaWait
      BY <1>2 DEF HandleMeta
    <2> QED
      BY <1>1, <2>1, TakeOnly
  <1>3. CASE c \in authed
    <2>1. PICK h : h = [t |-> Head(up[c]).t, c |-> c, n |-> 0]
      OBVIOUS
    <2>2. metaWait' = metaWait \cup {h}
      BY <1>3, <2>1 DEF HandleMeta
    <2>3. CallInv(h)' /\ \A g : CallInv(g) => g.t # h.t
      BY <1>1, <2>1, NodeTypes, CallStarts DEF NodeLine
    <2>4. Calm /\ UNCHANGED <<link, spc>>
      BY <1>1, NodeTypes, TakeCalm DEF NodeLine, Take
    <2>5. \A g \in metaWait : CallInv(g)'
      BY <1>1, <2>4, CallCalm DEF NodeLine, MetaWaits
    <2>6. MetaWaits'
      BY <2>2, <2>3, <2>5 DEF NodeLine, MetaWaits
    <2>7. EndWaits'
      BY <1>1 DEF NodeLine, EndWaits
    <2>8. \A f : InDown(f)' => InDown(f)
      BY <1>1 DEF InDown
    <2>9. InLine'
      BY <1>1, <2>4, <2>8, NodeTypes, LineNoWrite DEF NodeLine
    <2> QED
      BY <1>1, <2>4, <2>6, <2>7, <2>9, CopyCalm DEF NodeLine
  <1> QED
    BY <1>2, <1>3

\* handleFileMeta tries the next suffix.
LEMMA TryNextSuffixLine ==
  ASSUME TypeInv, NodeLine, NEW h \in metaWait, TryNextSuffix(h)
  PROVE  NodeLine' /\ CopyStep
  <1>1. /\ PhoneRests /\ UNCHANGED <<down, alive, endWait>>
        /\ UNCHANGED <<active, stream, transfers, written>>
    BY DEF TryNextSuffix, Resume, PhoneRests, receiverVars
  <1>2. Calm /\ InLine' /\ CopyStep
    BY <1>1, RestOnly
  <1>3. PICK g : g = [h EXCEPT !.n = @ + 1]
    OBVIOUS
  <1>4. g.t = h.t /\ g.c = h.c
    BY <1>3, NodeTypes DEF MetaCalls
  <1>5. metaWait' = (metaWait \ {h}) \cup {g}
    BY <1>3 DEF TryNextSuffix
  <1>6. \A f \in metaWait : CallInv(f)'
    BY <1>1, <1>2, CallCalm DEF NodeLine, MetaWaits
  <1>7. CallInv(g)'
    BY <1>4, <1>6 DEF CallInv
  <1>8. MetaWaits'
    BY <1>4, <1>5, <1>6, <1>7 DEF NodeLine, MetaWaits
  <1>9. EndWaits'
    BY <1>1 DEF NodeLine, EndWaits
  <1> QED
    BY <1>1, <1>2, <1>8, <1>9 DEF NodeLine

\* handleFileMeta makes its stream.
LEMMA OpenStreamLine ==
  ASSUME TypeInv, NodeLine, NEW h \in metaWait, OpenStream(h)
  PROVE  NodeLine' /\ CopyStep
  <1>0. h.t \in Transfers /\ h.c \in Conns /\ CallInv(h)
    BY NodeTypes DEF NodeLine, MetaWaits
  <1>1. /\ PhoneRests /\ UNCHANGED <<written, alive, endWait>>
        /\ stream' = [stream EXCEPT ![h.t] = "open"]
        /\ transfers' = transfers \cup {h.t}
        /\ active' = [active EXCEPT ![h.c] = h.t]
        /\ Reply(h.c, <<MetaAck(h.t)>>)
        /\ metaWait' = metaWait \ {h}
    BY DEF OpenStream, Resume, PhoneRests
  <1>2. InLine'
    BY <1>0, <1>1, NodeTypes, LineOpen DEF NodeLine
  <1>3. stream[h.t] = "none"
    BY <1>0 DEF CallInv
  <1>4. /\ \A u \in Transfers : u # h.t => stream'[u] = stream[u]
        /\ stream'[h.t] = "open"
    BY <1>0, <1>1, NodeTypes DEF ReceiverTypeOK
  <1>5. CopyStep
    BY <1>1, <1>3, <1>4, CopyCalm DEF PhoneRests
  <1>6. Calm
    BY <1>1, NodeTypes, RestCalm DEF NodeLine
  <1>7. MetaWaits'
    <2>1. ASSUME NEW g \in metaWait', NEW f \in metaWait'
          PROVE  CallInv(g)' /\ (f.t = g.t => f = g)
      <3>1. g \in metaWait /\ f \in metaWait /\ g.t # h.t
        BY <1>1, <2>1 DEF NodeLine, MetaWaits
      <3>2. CallInv(g) /\ stream'[g.t] = stream[g.t]
        BY <1>4, <3>1, NodeTypes DEF NodeLine, MetaWaits
      <3> QED
        BY <1>6, <3>1, <3>2, CallCalm DEF NodeLine, MetaWaits
    <2> QED
      BY <2>1 DEF MetaWaits
  <1>8. EndWaits'
    <2>1. \A g \in endWait : stream'[g.t] = stream[g.t]
      BY <1>3, <1>4, NodeTypes DEF NodeLine, EndWaits
    <2> QED
      BY <1>1, <2>1 DEF NodeLine, EndWaits
  <1> QED
    BY <1>1, <1>2, <1>5, <1>7, <1>8 DEF NodeLine

\* The stream opens its file.
LEMMA CreateFileLine ==
  ASSUME TypeInv, NodeLine, NEW t \in Transfers, CreateFile(t)
  PROVE  NodeLine' /\ CopyStep
  <1>1. /\ PhoneRests /\ UNCHANGED <<down, alive, metaWait, endWait>>
        /\ UNCHANGED <<active, stream, transfers, written>>
    BY DEF CreateFile, Resume, PhoneRests, receiverVars
  <1>2. Calm /\ InLine' /\ CopyStep
    BY <1>1, RestOnly
  <1> QED
    BY <1>1, <1>2, WaitsCalm DEF NodeLine

\* handleBinaryChunk writes.
LEMMA WriteChunkLine ==
  ASSUME TypeInv, NodeLine, NEW c \in Conns, WriteChunk(c)
  PROVE  NodeLine' /\ CopyStep
  <1>1. PICK u \in Transfers :
          /\ active[c] = u /\ stream[u] = "open" /\ Write(c, u)
          /\ UNCHANGED down \/ Reply(c, <<ChunkAck(u, Received(u) + 1)>>)
    BY DEF WriteChunk
  <1>2. /\ Take(c, "chunk") /\ UNCHANGED <<active, stream, transfers>>
        /\ UNCHANGED <<alive, metaWait, endWait>>
    BY DEF WriteChunk, Handle
  <1>3. InLine'
    BY <1>1, <1>2, NodeTypes, LineWrite DEF NodeLine
  <1>4. CopyStep
    BY <1>1, <1>2, NodeTypes, CopyWrite DEF NodeLine
  <1>5. Calm
    BY <1>2, NodeTypes, TakeCalm DEF NodeLine
  <1> QED
    BY <1>2, <1>3, <1>4, <1>5, WaitsCalm DEF NodeLine

\* The stream of a chunk's active transfer has not been told to end: its call
\* would have succeeded, and no chunk is tolerated there.
LEMMA WriteAfterEndNever ==
  ASSUME TypeInv, NodeLine, NEW c \in Conns
  PROVE  ~ WriteAfterEnd(c)
  <1> SUFFICES ASSUME WriteAfterEnd(c)
               PROVE  FALSE
    OBVIOUS
  <1>1. PICK u \in Transfers : active[c] = u /\ stream[u] # "open"
    BY DEF WriteAfterEnd
  <1>2. Take(c, "chunk") /\ NONE \notin Transfers
    BY NodeTypes, LineTypes DEF WriteAfterEnd, Handle
  <1>3. PICK f \in Frames : f = Head(up[c]) /\ f.kind = "chunk" /\ In(c, f)
    BY <1>2, NodeTypes, TakeCalm DEF NodeLine
  <1>4. PICK t \in Transfers, k \in Nat : f = Chunk(t, k)
    BY <1>3 DEF Frames, Chunk, Auth
  <1>5. Tolerated(t, c) /\ spc[t] \in {"chunk", "failed"}
    BY <1>3, <1>4 DEF NodeLine, InLine, ChunksInv
  <1>6. stream[u] \in {"ending", "closed"}
    BY <1>1, <1>2, NodeTypes DEF ReceiverTypeOK, NodeLine, InLine, ActiveInv
  <1>7. spc[u] = "done"
    BY <1>6 DEF NodeLine, InLine, FilesInv
  <1> QED
    BY <1>1, <1>2, <1>5, <1>7 DEF Tolerated

\* 'drain' resumes the handlers of a stream.
LEMMA DrainLine ==
  ASSUME TypeInv, NodeLine, NEW t \in Transfers, Drain(t)
  PROVE  NodeLine' /\ CopyStep
  <1>0. PhoneTypeOK /\ down \in Seq(Frames) /\ Received(t) \in Nat
    BY NodeTypes, LenProperties DEF PhoneTypeOK, ReceiverTypeOK, Received
  <1>1. /\ PhoneRests /\ UNCHANGED <<alive, metaWait, endWait>>
        /\ UNCHANGED <<active, stream, transfers, written>>
    BY DEF Drain, Resume, PhoneRests, receiverVars
  <1>2. Calm /\ UNCHANGED <<link, spc>>
    BY <1>1, NodeTypes, RestCalm DEF NodeLine, PhoneRests
  <1>3. \A f : InDown(f)' =>
          InDown(f) \/ (link = "up" /\ f = ChunkAck(t, Received(t)))
    <2>1. CASE link = "up"
      <3> DEFINE n == drainWait[<<t, conn>>]
                 acks == [i \in 1 .. n |-> ChunkAck(t, Received(t))]
      <3>1. n \in Nat /\ conn \in Conns
        BY <1>0, <2>1, NodeTypes DEF PhoneTypeOK
      <3>2. acks \in [1 .. n -> Frames]
        BY <1>0, FrameTypes
      <3>3. acks \in Seq(Frames) /\ Len(acks) = n
        <4>1. acks \in Seq(Frames) /\ DOMAIN acks = 1 .. n
          BY <3>1, <3>2, SeqDef
        <4> HIDE DEF acks
        <4> QED
          BY <3>1, <4>1, LenProperties
      <3>4. down' = down \o acks
        BY <2>1 DEF Drain
      <3>5. \A i \in 1 .. Len(acks) : acks[i] = ChunkAck(t, Received(t))
        BY <3>3
      <3> HIDE DEF acks
      <3>6. ASSUME NEW f, InDown(f)'
            PROVE  InDown(f) \/ \E i \in 1 .. Len(acks) : acks[i] = f
        BY <1>0, <3>3, <3>4, <3>6, ConcatDown
      <3> QED
        BY <2>1, <3>5, <3>6
    <2>2. CASE link # "up"
      BY <2>2 DEF Drain, InDown
    <2> QED
      BY <2>1, <2>2
  <1>4. InLine'
    BY <1>1, <1>2, <1>3, NodeTypes, LineNoWrite DEF NodeLine
  <1> QED
    BY <1>1, <1>2, <1>4, WaitsCalm, CopyCalm DEF NodeLine

\* handleFileEnd begins: the stream it tells to end is the one it names.
LEMMA HandleEndLine ==
  ASSUME TypeInv, NodeLine, NEW c \in Conns, HandleEnd(c)
  PROVE  NodeLine' /\ CopyStep
  <1>0. /\ active \in [Conns -> Transfers \cup {NONE}]
        /\ NONE \notin Transfers
        /\ stream \in [Transfers -> {"none", "open", "ending", "closed"}]
    BY NodeTypes, LineTypes
  <1>1. /\ Take(c, "end") /\ UNCHANGED <<down, alive, metaWait>>
        /\ UNCHANGED <<active, transfers, written>>
    BY DEF HandleEnd, Handle
  <1>2. PICK f \in Frames :
          /\ f = Head(up[c]) /\ f.kind = "end" /\ In(c, f)
          /\ \A b : In(b, f)' => f = Auth
    BY <1>1, NodeTypes, TakeCalm DEF NodeLine
  <1>3. Calm /\ UNCHANGED <<link, spc>>
    BY <1>1, NodeTypes, TakeCalm DEF NodeLine, Take
  <1>4. PICK m \in Transfers : m = f.t /\ f = End(m)
    BY <1>2 DEF Frames, Auth, End
  <1>5. spc[m] = "done" /\ stream[m] = "open" /\ m \in transfers
    BY <1>2, <1>4 DEF NodeLine, InLine, EndsInv, FilesInv
  <1>6. EndTarget(c, m) = m
    BY <1>5 DEF EndTarget
  <1>7. \A b : ~ In(b, End(m))'
    BY <1>2, <1>4, FramesDiffer
  <1>8. CASE c \notin authed
    <2>1. UNCHANGED <<stream, endWait>>
      BY <1>8 DEF HandleEnd
    <2> QED
      BY <1>1, <2>1, TakeOnly
  <1>9. CASE c \in authed
    <2>1. PICK h : h = [t |-> m, c |-> c, msg |-> m]
      OBVIOUS
    <2>2. /\ stream' = [stream EXCEPT ![m] = "ending"]
          /\ endWait' = endWait \cup {h}
      BY <1>0, <1>2, <1>4, <1>6, <1>9, <2>1 DEF HandleEnd
    <2>3. \A g : InDown(g)' => InDown(g)
      BY <1>1 DEF InDown
    <2>4. InLine'
      BY <1>0, <1>1, <1>3, <1>5, <1>7, <2>2, <2>3, NodeTypes, LineEnd
      DEF NodeLine
    <2>5. /\ stream'[m] = "ending"
          /\ \A u \in Transfers : u # m => stream'[u] = stream[u]
      BY <1>0, <2>2
    <2>6. CopyStep
      BY <1>1, <1>3, <1>5, <2>5, CopyCalm
    <2>7. MetaWaits'
      <3>1. ASSUME NEW g \in metaWait
            PROVE  CallInv(g)'
        <4>1. CallInv(g) /\ g.t \in Transfers /\ g.t # m
          BY <1>5, <3>1, NodeTypes DEF NodeLine, MetaWaits, CallInv
        <4> QED
          BY <1>3, <2>5, <4>1, CallCalm
      <3> QED
        BY <1>1, <3>1 DEF NodeLine, MetaWaits
    <2>8. EndWaits'
      <3>1. \A g \in endWait : g.t # m /\ g.t \in Transfers
        BY <1>5, NodeTypes DEF NodeLine, EndWaits
      <3> QED
        BY <2>1, <2>2, <2>5, <3>1 DEF NodeLine, EndWaits
    <2> QED
      BY <1>1, <2>4, <2>6, <2>7, <2>8 DEF NodeLine
  <1> QED
    BY <1>8, <1>9

\* handleFileEnd goes on: the stream has flushed.
LEMMA FinishEndLine ==
  ASSUME TypeInv, NodeLine, NEW h \in endWait, FinishEnd(h)
  PROVE  NodeLine' /\ CopyStep
  <1> DEFINE m == h.t
  <1>0. /\ m \in Transfers /\ h.c \in Conns /\ h.msg = m
        /\ stream[m] = "ending"
        /\ active \in [Conns -> Transfers \cup {NONE}]
        /\ stream \in [Transfers -> {"none", "open", "ending", "closed"}]
        /\ PhoneTypeOK
    BY NodeTypes, LineTypes DEF NodeLine, EndWaits
  <1>1. /\ PhoneRests /\ UNCHANGED <<written, alive, metaWait>>
        /\ stream' = [stream EXCEPT ![m] = "closed"]
        /\ transfers' = transfers \ {m}
        /\ active' = [active EXCEPT ![h.c] = NONE]
        /\ endWait' = endWait \ {h}
        /\ Reply(h.c, <<EndAck(m)>>)
    BY <1>0 DEF FinishEnd, Resume, PhoneRests
  <1> HIDE DEF m
  <1>2. Calm /\ UNCHANGED <<link, spc>>
    BY <1>1, NodeTypes, RestCalm DEF NodeLine, PhoneRests
  <1>3. spc[m] = "done"
    BY <1>0 DEF NodeLine, InLine, FilesInv
  <1>4. \A b : ~ In(b, End(m))'
    BY <1>0, <1>2 DEF NodeLine, InLine, EndsInv, Calm
  <1>5. \A f : InDown(f)' =>
          InDown(f) \/ (f.kind = "endAck" /\ link = "up")
    BY <1>0, <1>1, FrameTypes, ReplyDown DEF EndAck
  <1>6. /\ transfers \ {m} \subseteq transfers'
        /\ active' \in [Conns -> Transfers \cup {NONE}]
        /\ \A c \in Conns : active'[c] \in {active[c], NONE}
    BY <1>0, <1>1
  <1>7. InLine'
    BY <1>0, <1>1, <1>2, <1>3, <1>4, <1>5, <1>6, NodeTypes, LineEnd
    DEF NodeLine
  <1>8. CopyStep
    BY <1>0, <1>1, <1>2, <1>3, NodeTypes, CopyClose
  <1>9. \A u \in Transfers : u # m => stream'[u] = stream[u]
    BY <1>0, <1>1
  <1>10. MetaWaits'
    <2>1. ASSUME NEW g \in metaWait
          PROVE  CallInv(g)'
      <3>1. CallInv(g) /\ g.t \in Transfers /\ g.t # m
        BY <1>0, <2>1, NodeTypes DEF NodeLine, MetaWaits, CallInv
      <3> QED
        BY <1>2, <1>9, <3>1, CallCalm
    <2> QED
      BY <1>1, <2>1 DEF NodeLine, MetaWaits
  <1>11. EndWaits'
    <2>1. \A g \in endWait \ {h} : g.t # m /\ g.t \in Transfers
      BY NodeTypes DEF NodeLine, EndWaits, m
    <2> QED
      BY <1>1, <1>9, <2>1 DEF NodeLine, EndWaits
  <1> QED
    BY <1>1, <1>7, <1>8, <1>10, <1>11 DEF NodeLine

\* Every step of the server keeps the invariant, and is one of FileCopy.
LEMMA ReceiveLine ==
  ASSUME TypeInv, NodeLine, Receive
  PROVE  NodeLine' /\ CopyStep
  <1>1. ASSUME NEW c \in Conns, HandleAuth(c) \/ DropChunk(c)
        PROVE  NodeLine' /\ CopyStep
    <2>1. /\ \E kind : Take(c, kind)
          /\ UNCHANGED <<down, active, stream, transfers, written, alive>>
          /\ UNCHANGED <<metaWait, endWait>>
      BY <1>1 DEF HandleAuth, DropChunk, Handle, nodeVars, receiverVars
    <2> QED
      BY <2>1, TakeOnly
  <1>2. ASSUME NEW c \in Conns, NodeHandler(c)
        PROVE  NodeLine' /\ CopyStep
    BY <1>1, <1>2, HandleMetaLine, WriteChunkLine, WriteAfterEndNever,
       HandleEndLine
    DEF NodeHandler
  <1> QED
    BY <1>2, TryNextSuffixLine, OpenStreamLine, CreateFileLine, DrainLine,
       FinishEndLine
    DEF Receive

\* Every step of the system, too, if sends do not overlap.
LEMMA NodeLineStep ==
  ASSUME ~ Overlap, TypeInv, NodeLine, [Next]_vars
  PROVE  NodeLine' /\ CopyStep
  <1>1. ASSUME NEW t \in Transfers, PhoneStep(t)
        PROVE  NodeLine' /\ CopyStep
    <2>1. /\ PhoneMoves(t) /\ UNCHANGED receiverVars
          /\ UNCHANGED <<alive, metaWait, endWait, stream>>
      BY <1>1 DEF PhoneStep, PhoneMoves, nodeVars, receiverVars
    <2>2. InLine' /\ CopyStep
      BY <2>1, NodeTypes, LinePhone, CopyPhone DEF NodeLine
    <2>3. MetaWaits'
      BY <2>1, NodeTypes, CallPhone DEF NodeLine, MetaWaits
    <2>4. EndWaits'
      BY <2>1 DEF NodeLine, EndWaits
    <2> QED
      BY <2>1, <2>2, <2>3, <2>4 DEF NodeLine
  <1>2. CASE SocketStep
    <2>1. /\ SocketMoves /\ UNCHANGED receiverVars
          /\ UNCHANGED <<alive, metaWait, endWait, stream>>
      BY <1>2 DEF SocketStep, SocketMoves, nodeVars, receiverVars
    <2>2. InLine' /\ CopyStep
      BY <2>1, NodeTypes, LineSocket, CopySocket DEF NodeLine
    <2>3. MetaWaits'
      BY <2>1, NodeTypes, CallSocket DEF NodeLine, MetaWaits
    <2>4. EndWaits'
      BY <2>1 DEF NodeLine, EndWaits
    <2> QED
      BY <2>1, <2>2, <2>3, <2>4 DEF NodeLine
  <1>3. CASE UNCHANGED vars
    <2>1. /\ PhoneRests /\ UNCHANGED <<metaWait, endWait>>
          /\ UNCHANGED <<down, active, stream, transfers, written, alive>>
      BY <1>3
      DEF vars, phoneVars, socketVars, nodeVars, receiverVars, PhoneRests
    <2> QED
      BY <2>1, RestOnly, WaitsCalm DEF NodeLine
  <1> QED
    BY <1>1, <1>2, <1>3, ReceiveLine DEF Next

\* It holds at the start.
LEMMA NodeLineInit ==
  ASSUME Init
  PROVE  NodeLine
  BY LineInit DEF Init, NodeInit, NodeLine, MetaWaits, EndWaits

\* It always holds of sends that do not overlap, and so the properties below.
THEOREM NodeOneSend == ~ Overlap => (Spec => [](TypeInv /\ NodeLine))
  <1> SUFFICES ASSUME ~ Overlap
               PROVE  Spec => [](TypeInv /\ NodeLine)
    OBVIOUS
  <1>1. Init => TypeInv /\ NodeLine
    BY TypeInvInit, NodeLineInit
  <1>2. TypeInv /\ NodeLine /\ [Next]_vars => (TypeInv /\ NodeLine)'
    BY TypeInvStep, NodeLineStep
  <1> QED
    BY <1>1, <1>2, PTL DEF Spec

\* Of sends that do not overlap: whatever connections break and whichever
\* timers fire, and although the handlers of calls that gave up are still at
\* work, sendFile reports success only of a file the server has every chunk
\* of, in order, once.
THEOREM DoneIsComplete == ~ Overlap => (Spec => []DoneMeansComplete)
  <1>1. TypeInv /\ NodeLine => DoneMeansComplete
    BY LineFiles DEF TypeInv, NodeLine
  <1> QED
    BY <1>1, NodeOneSend, PTL

\* Of sends that do not overlap: while a send runs its file holds exactly the
\* chunks acknowledged to the phone, or one more.
THEOREM AckedIsWritten == ~ Overlap => (Spec => []AckedMeansWritten)
  <1>1. TypeInv /\ NodeLine => AckedMeansWritten
    BY LineFiles DEF TypeInv, NodeLine
  <1> QED
    BY <1>1, NodeOneSend, PTL

\* Of sends that do not overlap: no connection ever carries two chunks, not
\* even when a call gives up and the next starts at once.
THEOREM OneChunk == ~ Overlap => (Spec => []OneChunkInFlight)
  <1>1. TypeInv /\ NodeLine => OneChunkInFlight
    BY LineChunks DEF TypeInv, NodeLine
  <1> QED
    BY <1>1, NodeOneSend, PTL

\* Of sends that do not overlap: no chunk, be it one a call left behind when
\* it gave up, reaches a stream that was told to end, so the process lives.
THEOREM Survives == ~ Overlap => (Spec => []ServerSurvives)
  <1>1. TypeInv /\ NodeLine => ServerSurvives
    BY DEF NodeLine, ServerSurvives
  <1> QED
    BY <1>1, NodeOneSend, PTL

\* Sends that do not overlap keep the promise of FileCopy: the file of a
\* running call grows by its own next chunk only, success is reported of a
\* complete file, which stays as it is and is closed at most once, and that
\* of a call that gave up is never closed.
THEOREM NodeKeepsPromise == ~ Overlap => (Spec => CopySpec)
  <1> SUFFICES ASSUME ~ Overlap
               PROVE  Spec => CopySpec
    OBVIOUS
  <1>1. Init => Copy!Init
    BY CopyInit DEF Init, NodeInit
  <1>2. TypeInv /\ NodeLine /\ [Next]_vars => [Copy!Next]_(Copy!copyVars)
    BY NodeLineStep DEF CopyStep
  <1>3. Spec => [](TypeInv /\ NodeLine)
    BY NodeOneSend
  <1> QED
    BY <1>1, <1>2, <1>3, PTL DEF Spec, CopySpec, Copy!Spec
=============================================================================
