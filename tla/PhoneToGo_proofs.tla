-------------------------- MODULE PhoneToGo_proofs --------------------------
(***************************************************************************)
(* Theorems about PhoneToGo, for any number of transfers, chunks,          *)
(* connections and drops, checked by TLAPS.                                *)
(***************************************************************************)
EXTENDS PhoneToGo, Sending_proofs

USE DEF Conns, SocketTypes

\* TypeOK, and what makes it inductive.
TypeInv == PhoneInv /\ GoTypeOK

----------------------------------------------------------------------------
(* Types. *)

\* The facts every step of the server starts from.
LEMMA GoTypes ==
  ASSUME TypeInv
  PROVE  /\ PhoneInv /\ ReceiverTypeOK /\ PhoneTypeOK
         /\ down \in Seq(Frames) /\ creating \subseteq CreateCalls
         /\ \A h \in creating : h.t \in Transfers /\ h.c \in Conns
         /\ \A t \in Transfers : Received(t) \in Nat
  BY LenProperties
  DEF TypeInv, PhoneInv, PhoneTypeOK, GoTypeOK, ReceiverTypeOK, CreateCalls,
      Received

\* The frame a goroutine reads.
LEMMA ReadType ==
  ASSUME TypeInv, NEW c \in Conns, NEW kind, kind # "auth", Read(c, kind)
  PROVE  /\ Head(up[c]).t \in Transfers /\ Head(up[c]).k \in Nat
         /\ down' \in Seq(Frames) => PhoneInv'
  <1>1. Take(c, kind)
    BY DEF Read
  <1>2. up[c] # <<>> /\ up[c] \in Seq(Frames) /\ Head(up[c]).kind = kind
    BY <1>1, GoTypes DEF Take, TakeFrame, PhoneTypeOK
  <1>3. Head(up[c]) \in Frames
    BY <1>2, HeadTailProperties
  <1>4. Head(up[c]).t \in Transfers /\ Head(up[c]).k \in Nat
    BY <1>2, <1>3, FrameFields
  <1> QED
    BY <1>1, <1>4, GoTypes, TakeType

\* What an os.Stat does, whatever it finds: the call goes on.
Stats(h) ==
  /\ PhoneRests /\ UNCHANGED <<drops, down, receiverVars>>
  /\ \E g \in CreateCalls : /\ g.t = h.t /\ g.c = h.c
                            /\ creating' = (creating \ {h}) \cup {g}

\* Both outcomes of os.Stat are of this kind.
LEMMA StatSteps ==
  ASSUME TypeInv, NEW h \in creating, StatNext(h) \/ StatFree(h)
  PROVE  Stats(h)
  <1>1. h \in CreateCalls
    BY GoTypes
  <1>2. PhoneRests /\ UNCHANGED <<drops, down, receiverVars>>
    BY DEF StatNext, StatFree, Working, PhoneRests
  <1>3. CASE StatNext(h)
    <2> DEFINE g == [h EXCEPT !.n = @ + 1]
    <2>1. g \in CreateCalls /\ g.t = h.t /\ g.c = h.c
      BY <1>1 DEF CreateCalls
    <2>2. creating' = (creating \ {h}) \cup {g}
      BY <1>3 DEF StatNext
    <2> QED
      BY <1>2, <2>1, <2>2 DEF Stats
  <1>4. CASE StatFree(h)
    <2> DEFINE g == [h EXCEPT !.free = TRUE]
    <2>1. g \in CreateCalls /\ g.t = h.t /\ g.c = h.c
      BY <1>1 DEF CreateCalls
    <2>2. creating' = (creating \ {h}) \cup {g}
      BY <1>4 DEF StatFree
    <2> QED
      BY <1>2, <2>1, <2>2 DEF Stats
  <1> QED
    BY <1>3, <1>4

\* Each handler and continuation keeps the types.
LEMMA GoAuthType ==
  ASSUME TypeInv, NEW c \in Conns, GoAuth(c)
  PROVE  TypeInv'
  <1>1. Take(c, "auth") /\ down' \in Seq(Frames)
    BY GoTypes DEF GoAuth, Read
  <1>2. GoTypeOK'
    BY GoTypes DEF GoAuth, GoTypeOK, ReceiverTypeOK
  <1> QED
    BY <1>1, <1>2, GoTypes, TakeType DEF TypeInv

LEMMA GoMetaType ==
  ASSUME TypeInv, NEW c \in Conns, GoMeta(c)
  PROVE  TypeInv'
  <1>1. Read(c, "meta") /\ down' \in Seq(Frames)
    BY GoTypes DEF GoMeta
  <1>2. [t |-> Head(up[c]).t, c |-> c, n |-> 0, free |-> FALSE]
          \in CreateCalls
    BY <1>1, ReadType DEF CreateCalls
  <1>3. GoTypeOK'
    BY <1>2, GoTypes DEF GoMeta, GoTypeOK, ReceiverTypeOK, receiverVars
  <1> QED
    BY <1>1, <1>3, ReadType DEF TypeInv

LEMMA StatType ==
  ASSUME TypeInv, NEW h \in creating, Stats(h)
  PROVE  TypeInv'
  <1>1. PhoneRests /\ down' \in Seq(Frames)
    BY GoTypes DEF Stats
  <1>2. creating' \subseteq CreateCalls
    BY GoTypes DEF Stats
  <1>3. GoTypeOK'
    BY <1>2, GoTypes DEF Stats, GoTypeOK, ReceiverTypeOK, receiverVars
  <1> QED
    BY <1>1, <1>3, GoTypes, RestType DEF TypeInv

LEMMA CreateAndRegisterType ==
  ASSUME TypeInv, NEW h \in creating, CreateAndRegister(h)
  PROVE  TypeInv'
  <1>1. h.t \in Transfers /\ h.c \in Conns /\ h.n \in Nat
    BY GoTypes DEF CreateCalls
  <1>2. <<MetaAck(h.t)>> \in Seq(Frames)
    BY <1>1, FrameTypes
  <1>3. PhoneRests /\ down' \in Seq(Frames)
    BY <1>2, GoTypes, ReplyType DEF CreateAndRegister, Working, PhoneRests
  <1>4. <<Name[h.t], h.n>> \in Files
    BY <1>1 DEF Files
  <1>5. GoTypeOK'
    BY <1>1, <1>4, GoTypes DEF CreateAndRegister, GoTypeOK, ReceiverTypeOK
  <1> QED
    BY <1>3, <1>5, GoTypes, RestType DEF TypeInv

LEMMA GoDropChunkType ==
  ASSUME TypeInv, NEW c \in Conns, GoDropChunk(c)
  PROVE  TypeInv'
  <1>1. Read(c, "chunk") /\ down' \in Seq(Frames)
    BY GoTypes DEF GoDropChunk
  <1>2. GoTypeOK'
    BY GoTypes
    DEF GoDropChunk, goVars, receiverVars, GoTypeOK, ReceiverTypeOK
  <1> QED
    BY <1>1, <1>2, ReadType DEF TypeInv

LEMMA GoWriteChunkType ==
  ASSUME TypeInv, NEW c \in Conns, GoWriteChunk(c)
  PROVE  TypeInv'
  <1>1. PICK t \in Transfers :
          /\ written' = [written EXCEPT ![t] =
                           Append(@, <<Head(up[c]).t, Head(up[c]).k>>)]
          /\ Reply(c, <<ChunkAck(t, Received(t) + 1)>>)
    BY DEF GoWriteChunk, Write
  <1>2. Read(c, "chunk") /\ down' \in Seq(Frames)
    <2>1. ChunkAck(t, Received(t) + 1) \in Frames
      BY GoTypes, FrameTypes
    <2>2. <<ChunkAck(t, Received(t) + 1)>> \in Seq(Frames)
      BY <2>1
    <2> QED
      BY <1>1, <2>2, GoTypes, ReplyType DEF GoWriteChunk
  <1>3. written \in [Transfers -> Seq(Chunks)]
    BY GoTypes DEF ReceiverTypeOK
  <1>4. <<Head(up[c]).t, Head(up[c]).k>> \in Chunks
    BY <1>2, ReadType DEF Chunks
  <1>5. Append(written[t], <<Head(up[c]).t, Head(up[c]).k>>) \in Seq(Chunks)
    BY <1>3, <1>4, AppendProperties
  <1>6. written' \in [Transfers -> Seq(Chunks)]
    BY <1>1, <1>3, <1>5
  <1>7. GoTypeOK'
    BY <1>6, GoTypes DEF GoWriteChunk, GoTypeOK, ReceiverTypeOK
  <1> QED
    BY <1>2, <1>7, ReadType DEF TypeInv

LEMMA GoEndType ==
  ASSUME TypeInv, NEW c \in Conns, GoEnd(c)
  PROVE  TypeInv'
  <1> DEFINE m == Head(up[c]).t
             t == EndTarget(c, m)
  <1>1. Read(c, "end")
    BY DEF GoEnd
  <1>2. m \in Transfers /\ t \in Transfers \cup {NONE}
    BY <1>1, ReadType, GoTypes DEF EndTarget, ReceiverTypeOK
  <1>3. CASE c \in authed /\ t # NONE
    <2>1. /\ transfers' = transfers \ {t}
          /\ active' = [active EXCEPT ![c] = NONE]
          /\ stream' = [stream EXCEPT ![t] = "closed"]
          /\ Reply(c, <<EndAck(m)>>)
      BY <1>3 DEF GoEnd
    <2>2. <<EndAck(m)>> \in Seq(Frames)
      BY <1>2, FrameTypes
    <2> HIDE DEF t, m
    <2>3. down' \in Seq(Frames)
      BY <2>1, <2>2, GoTypes, ReplyType
    <2>4. GoTypeOK'
      BY <1>2, <1>3, <2>1, GoTypes DEF GoEnd, GoTypeOK, ReceiverTypeOK
    <2> QED
      BY <1>1, <2>3, <2>4, ReadType DEF TypeInv
  <1>4. CASE ~(c \in authed /\ t # NONE)
    <2>1. UNCHANGED <<transfers, active, stream, down>>
      BY <1>4 DEF GoEnd
    <2>2. GoTypeOK'
      BY <2>1, GoTypes DEF GoEnd, GoTypeOK, ReceiverTypeOK
    <2> QED
      BY <1>1, <2>1, <2>2, GoTypes, ReadType DEF TypeInv
  <1> QED
    BY <1>3, <1>4

\* What the phone's steps leave alone keeps its type.
LEMMA GoUnchanged ==
  ASSUME GoTypeOK, UNCHANGED goVars
  PROVE  GoTypeOK'
  BY DEF GoTypeOK, ReceiverTypeOK, goVars, receiverVars

\* The system starts with its types.
LEMMA TypeInvInit ==
  ASSUME Init
  PROVE  TypeInv
  <1>1. GoTypeOK
    BY EmptySeq DEF Init, GoInit, ReceiverInit, GoTypeOK, ReceiverTypeOK
  <1> QED
    BY <1>1, PhoneInvInit DEF Init, TypeInv

\* Every step keeps them.
LEMMA TypeInvStep ==
  ASSUME TypeInv, [Next]_vars
  PROVE  TypeInv'
  <1>1. CASE \E t \in Transfers : PhoneStep(t)
    BY <1>1, PhoneMovesType, GoUnchanged DEF TypeInv, PhoneStep, PhoneMoves
  <1>2. CASE SocketStep
    BY <1>2, SocketType, GoUnchanged
    DEF TypeInv, SocketStep, SocketMoves, goVars
  <1>3. CASE GoReceiveStep
    BY <1>3, GoAuthType, GoMetaType, GoDropChunkType, GoWriteChunkType,
       GoEndType, StatSteps, StatType, CreateAndRegisterType
    DEF GoReceiveStep, GoHandler
  <1>4. CASE UNCHANGED vars
    <2>1. PhoneRests /\ UNCHANGED <<down, goVars>>
      BY <1>4 DEF vars, phoneVars, socketVars, PhoneRests
    <2> QED
      BY <2>1, GoTypes, GoUnchanged, RestType DEF TypeInv
  <1> QED
    BY <1>1, <1>2, <1>3, <1>4 DEF Next

\* Every reachable state has its types, and no send ever counts more ACKs
\* than its file has chunks, however the goroutines of server.go interleave,
\* whatever connections break and whichever timers fire.
THEOREM TypeCorrect == Spec => []TypeOK
  <1>1. Init => TypeInv
    BY TypeInvInit
  <1>2. TypeInv /\ [Next]_vars => TypeInv'
    BY TypeInvStep
  <1>3. TypeInv => TypeOK
    BY DEF TypeInv, PhoneInv, TypeOK
  <1> QED
    BY <1>1, <1>2, <1>3, PTL DEF Spec

----------------------------------------------------------------------------
(* AUTH first, and no chunk twice. *)

\* The steps of the server, by what they do to the connections.
LEMMA GoSteps ==
  ASSUME GoReceiveStep
  PROVE  \/ \E c \in Conns : GoWriteChunk(c)
         \/ \E c \in Conns : \E kind :
              /\ Take(c, kind) /\ UNCHANGED written
              /\ \/ kind = "auth" /\ authed' = authed \cup {c}
                 \/ kind # "auth" /\ UNCHANGED authed
         \/ PhoneRests /\ UNCHANGED <<written, authed>>
  <1>1. ASSUME NEW c \in Conns, GoHandler(c), ~ GoWriteChunk(c)
        PROVE  \E kind :
                 /\ Take(c, kind) /\ UNCHANGED written
                 /\ \/ kind = "auth" /\ authed' = authed \cup {c}
                    \/ kind # "auth" /\ UNCHANGED authed
    <2>1. CASE GoAuth(c)
      BY <2>1 DEF GoAuth, Read
    <2>2. CASE GoMeta(c)
      <3>1. Take(c, "meta") /\ UNCHANGED <<written, authed>>
        BY <2>2 DEF GoMeta, Read, receiverVars
      <3> QED
        BY <3>1
    <2>3. CASE GoDropChunk(c)
      <3>1. Take(c, "chunk") /\ UNCHANGED <<written, authed>>
        BY <2>3 DEF GoDropChunk, Read, goVars, receiverVars
      <3> QED
        BY <3>1
    <2>4. CASE GoEnd(c)
      <3>1. Take(c, "end") /\ UNCHANGED <<written, authed>>
        BY <2>4 DEF GoEnd, Read
      <3> QED
        BY <3>1
    <2> QED
      BY <1>1, <2>1, <2>2, <2>3, <2>4 DEF GoHandler
  <1>2. ASSUME NEW h \in creating,
               StatNext(h) \/ StatFree(h) \/ CreateAndRegister(h)
        PROVE  PhoneRests /\ UNCHANGED <<written, authed>>
    BY <1>2
    DEF StatNext, StatFree, CreateAndRegister, Working, PhoneRests,
        receiverVars
  <1> QED
    BY <1>1, <1>2 DEF GoReceiveStep

\* On every connection AUTH is handled before anything else, although the
\* frames queued while the phone was offline are older than it: no handler
\* of a transfer ever finds the connection unauthenticated.
THEOREM AuthFirst == Spec => []AuthPrecedesFrames
  <1>1. Init => AuthInv
    BY AuthInvInit DEF Init, GoInit
  <1>2. TypeInv /\ AuthInv /\ [Next]_vars => AuthInv'
    <2> SUFFICES ASSUME TypeInv, AuthInv, [Next]_vars
                 PROVE  AuthInv'
      OBVIOUS
    <2>1. CASE UNCHANGED vars
      BY <2>1, AuthInvUnchanged
      DEF vars, phoneVars, socketVars, goVars, receiverVars
    <2>2. CASE \E t \in Transfers : PhoneStep(t)
      BY <2>2, GoTypes, PhoneKeepsAuthInv
      DEF PhoneStep, PhoneMoves, goVars, receiverVars
    <2>3. CASE SocketStep
      BY <2>3, GoTypes, SocketKeepsAuthInv
      DEF SocketStep, SocketMoves, goVars, receiverVars
    <2>4. CASE GoReceiveStep
      <3>1. CASE \E c \in Conns : GoWriteChunk(c)
        BY <3>1, GoTypes, TakeOtherKeepsAuthInv DEF GoWriteChunk, Read
      <3>2. CASE PhoneRests /\ UNCHANGED authed
        BY <3>2, AuthInvUnchanged DEF PhoneRests
      <3>3. ASSUME NEW c \in Conns, NEW kind, Take(c, kind),
                   \/ kind = "auth" /\ authed' = authed \cup {c}
                   \/ kind # "auth" /\ UNCHANGED authed
            PROVE  AuthInv'
        <4>1. CASE authed' = authed \cup {c}
          BY <3>3, <4>1, GoTypes, TakeKeepsAuthInv
        <4>2. CASE kind # "auth" /\ UNCHANGED authed
          BY <3>3, <4>2, GoTypes, TakeOtherKeepsAuthInv
        <4> QED
          BY <3>3, <4>1, <4>2
      <3> QED
        BY <2>4, <3>1, <3>2, <3>3, GoSteps
    <2> QED
      BY <2>1, <2>2, <2>3, <2>4 DEF Next
  <1>3. AuthInv => AuthPrecedesFrames
    BY DEF AuthInv, AuthPrecedesFrames
  <1> QED
    BY <1>1, <1>2, <1>3, TypeInvInit, TypeInvStep, PTL DEF Spec

\* However sends overlap and goroutines interleave, whatever connections
\* break and whichever calls give up, no chunk is written twice, be it to one
\* file or to two: a frame is routed once and nothing is ever sent again.
THEOREM NoChunkTwice == Spec => []NoChunkWrittenTwice
  <1>1. Init => ChunkOnce
    BY OnceInit DEF Init, GoInit
  <1>2. TypeInv /\ ChunkOnce /\ [Next]_vars => ChunkOnce'
    <2> SUFFICES ASSUME TypeInv, ChunkOnce, [Next]_vars
                 PROVE  ChunkOnce'
      OBVIOUS
    <2>1. CASE \E t \in Transfers : PhoneStep(t)
      BY <2>1, GoTypes, OncePhone
      DEF PhoneStep, PhoneMoves, goVars, receiverVars
    <2>2. CASE SocketStep
      BY <2>2, GoTypes, OnceSocket
      DEF SocketStep, SocketMoves, goVars, receiverVars
    <2>3. CASE UNCHANGED vars
      BY <2>3, OnceRest
      DEF vars, phoneVars, socketVars, goVars, receiverVars, PhoneRests
    <2>4. CASE GoReceiveStep
      <3>1. CASE \E c \in Conns : GoWriteChunk(c)
        BY <3>1, GoTypes, OnceWrite DEF GoWriteChunk, Read
      <3>2. CASE PhoneRests /\ UNCHANGED written
        BY <3>2, OnceRest
      <3>3. CASE \E c \in Conns : \E kind : Take(c, kind) /\ UNCHANGED written
        BY <3>3, GoTypes, OnceTake
      <3> QED
        BY <2>4, <3>1, <3>2, <3>3, GoSteps
    <2> QED
      BY <2>1, <2>2, <2>3, <2>4 DEF Next
  <1>3. ChunkOnce => NoChunkWrittenTwice
    BY DEF ChunkOnce
  <1> QED
    BY <1>1, <1>2, <1>3, TypeInvInit, TypeInvStep, PTL DEF Spec

----------------------------------------------------------------------------
(* One send at a time. *)

\* A chunk of t handled on connection c is written to the file of t, or to
\* none, and no other file is being made there.
Owns(t, c) == active[c] \in {t, NONE} /\ \A h \in creating : h.c # c

\* So it is for every chunk on its way and every chunk about to be sent, for
\* a goroutine takes the META of the next call only after them.
OwnsInv ==
  /\ \A b : \A t \in Transfers : \A k \in Nat :
       In(b, Chunk(t, k)) => Owns(t, b)
  /\ \A t \in Transfers : spc[t] \in {"reading", "chunk"} =>
       \A c : c = conn => Owns(t, c)
  /\ \A t \in Transfers : \A f :
       InDown(f) /\ f.kind = "metaAck" /\ f.t = t /\ spc[t] = "meta" =>
         \A c : c = conn => Owns(t, c)

\* What the goroutines inside handleFileMeta hold.
CreatingInv ==
  /\ \A h \in creating : CallInv(h)
  /\ \A g, h \in creating : g.t = h.t \/ g.c = h.c => g = h

GoLine == InLine /\ CreatingInv /\ OwnsInv /\ NoForeignChunk

\* The phone's calls: a chunk is sent where its META was acknowledged.
LEMMA OwnsPhone ==
  ASSUME TypeInv, GoLine, NEW t \in Transfers, PhoneMoves(t),
         UNCHANGED <<receiverVars, creating>>
  PROVE  OwnsInv'
  <1>0. /\ spc \in [Transfers -> SendStates] /\ PhoneTypeOK
        /\ idx \in [Transfers -> Nat] /\ NumChunks[t] \in Nat
    BY GoTypes, LineTypes
  <1>1. \A u, c : Owns(u, c)' <=> Owns(u, c)
    BY DEF Owns, receiverVars
  <1>2. CASE StartSend(t)
    <2>1. /\ spc[t] = "idle" /\ spc' = [spc EXCEPT ![t] = "meta"]
          /\ UNCHANGED <<conn, down>>
      BY <1>2 DEF StartSend, PicksFile
    <2>2. Goes(Meta(t))
      BY <1>0, <1>2, <2>1, FrameTypes, SendGoes DEF StartSend
    <2>3. \A b : \A u \in Transfers : \A k \in Nat :
            In(b, Chunk(u, k))' => In(b, Chunk(u, k))
      BY <2>2, GoesIn, FramesDiffer
    <2>4. \A f : InDown(f)' <=> InDown(f)
      BY <2>1 DEF InDown
    <2>5. stream[t] = "none"
      BY <2>1, GoTypes DEF GoLine, InLine, FilesInv
    <2>6. \A f : ~ (InDown(f) /\ f.kind = "metaAck" /\ f.t = t)
      BY <2>5 DEF GoLine, InLine, Acks
    <2>7. \A u \in Transfers : u # t => spc'[u] = spc[u]
      BY <1>0, <2>1
    <2>8. spc'[t] = "meta"
      BY <1>0, <2>1
    <2> QED
      BY <1>1, <2>1, <2>3, <2>4, <2>6, <2>7, <2>8 DEF GoLine, OwnsInv
  <1>3. CASE SendChunk(t)
    <2>1. /\ spc[t] = "reading" /\ spc' = [spc EXCEPT ![t] = "chunk"]
          /\ UNCHANGED <<conn, down>> /\ UNCHANGED link
      BY <1>3 DEF SendChunk
    <2>2. PICK g : g = Chunk(t, idx[t] + 1)
      OBVIOUS
    <2>3. g \in Frames /\ (Goes(g) /\ (link # "up" => Stays))
      BY <1>0, <1>3, <2>1, <2>2, FrameTypes, SendGoes, SendBinaryPuts
      DEF SendChunk
    <2>4. \A b, f : In(b, f)' => In(b, f) \/ (f = g /\ b = conn)
      BY <2>3, GoesIn, StaysIn
    <2>5. \A f : InDown(f)' <=> InDown(f)
      BY <2>1 DEF InDown
    <2>6. \A c : c = conn => Owns(t, c)
      BY <2>1 DEF GoLine, OwnsInv
    <2>7. spc'[t] = "chunk" /\ \A u \in Transfers : u # t => spc'[u] = spc[u]
      BY <1>0, <2>1
    <2>8. ASSUME NEW b, NEW u \in Transfers, NEW k \in Nat,
                 In(b, Chunk(u, k))'
          PROVE  Owns(u, b)
      <3>1. CASE In(b, Chunk(u, k))
        BY <3>1 DEF GoLine, OwnsInv
      <3>2. CASE Chunk(u, k) = g /\ b = conn
        <4>1. u = t
          BY <2>2, <3>2, FramesDiffer
        <4> QED
          BY <2>6, <3>2, <4>1
      <3> QED
        BY <2>4, <2>8, <3>1, <3>2
    <2> QED
      BY <1>1, <2>1, <2>5, <2>6, <2>7, <2>8 DEF GoLine, OwnsInv
  <1>4. CASE Timeout(t) \/ ReadFails(t)
    <2>1. /\ spc' = [spc EXCEPT ![t] = "failed"]
          /\ UNCHANGED <<conn, down, pending, up>>
      BY <1>4 DEF Timeout, ReadFails
    <2>2. /\ \A b, f : In(b, f)' <=> In(b, f)
          /\ \A f : InDown(f)' <=> InDown(f)
      BY <2>1, UnchangedStays, StaysIn DEF InDown
    <2>3. spc'[t] = "failed" /\ \A u \in Transfers : u # t => spc'[u] = spc[u]
      BY <1>0, <2>1
    <2> QED
      BY <1>1, <2>1, <2>2, <2>3 DEF GoLine, OwnsInv
  <1>5. CASE MetaAcked(t) \/ ChunkAcked(t)
    <2>1. Deliver /\ UNCHANGED conn
      BY <1>5 DEF MetaAcked, ChunkAcked, Deliver
    <2>2. InDown(Head(down)) /\ \A f : InDown(f)' => InDown(f)
      BY <1>0, <2>1, DeliverDown
    <2>3. \A c : c = conn => Owns(t, c)
      <3>1. CASE MetaAcked(t)
        BY <2>2, <3>1 DEF GoLine, OwnsInv, MetaAcked, AwaitedMeta
      <3>2. CASE ChunkAcked(t)
        BY <3>2 DEF GoLine, OwnsInv, ChunkAcked, AwaitedChunk
      <3> QED
        BY <1>5, <3>1, <3>2
    <2>4. PICK n \in 0 .. NumChunks[t] : Proceed(t, n)
      BY <1>5, GoTypes, AckedFacts DEF GoLine
    <2>5. /\ Goes(End(t))
          /\ spc'[t] \in {"reading", "done"}
          /\ \A u \in Transfers : u # t => spc'[u] = spc[u]
      <3>1. CASE spc' = [spc EXCEPT ![t] = "reading"]
                 /\ UNCHANGED <<up, pending>>
        BY <1>0, <3>1, UnchangedStays DEF Goes
      <3>2. CASE spc' = [spc EXCEPT ![t] = "done"] /\ Send(End(t))
        BY <1>0, <2>1, <3>2, FrameTypes, SendGoes
      <3> QED
        BY <2>4, <3>1, <3>2 DEF Proceed
    <2>6. \A b : \A u \in Transfers : \A k \in Nat :
            In(b, Chunk(u, k))' => In(b, Chunk(u, k))
      BY <2>5, GoesIn, FramesDiffer
    <2> QED
      BY <1>1, <2>1, <2>2, <2>3, <2>5, <2>6 DEF GoLine, OwnsInv
  <1> QED
    BY <1>2, <1>3, <1>4, <1>5 DEF PhoneMoves

\* A new connection has no active transfer, and no goroutine works there.
LEMMA OwnsSocket ==
  ASSUME TypeInv, GoLine, SocketMoves, UNCHANGED <<receiverVars, creating>>
  PROVE  OwnsInv'
  <1>0. PhoneTypeOK /\ conn \in 0 .. MaxConns
    BY GoTypes, LineTypes
  <1>1. UNCHANGED spc /\ \A u, c : Owns(u, c)' <=> Owns(u, c)
    BY DEF Owns, receiverVars, SocketMoves
  <1>2. CASE Connect
    <2>1. PICK c : c = conn + 1
      OBVIOUS
    <2>2. /\ Opens(c) /\ c \in Conns /\ conn' = c /\ UNCHANGED down
          /\ link = "down" /\ c > conn
      BY <1>0, <1>2, <2>1, ConnectOpens DEF Connect
    <2>3. active[c] = NONE
      BY <2>2 DEF GoLine, InLine, Channels
    <2>4. \A h \in creating : h.c # c
      BY <1>0, <2>1, GoTypes DEF GoLine, CreatingInv, CallInv
    <2>5. \A u : Owns(u, c)
      BY <2>3, <2>4 DEF Owns
    <2>6. \A f : ~ InDown(f)'
      BY <2>2 DEF GoLine, InLine, Channels, InDown
    <2>7. \A b, f : In(b, f)' => b = c \/ In(b, f)
      BY <2>2, OpensIn
    <2> QED
      BY <1>1, <2>2, <2>5, <2>6, <2>7 DEF GoLine, OwnsInv
  <1>3. CASE ~ Connect
    <2>1. /\ UNCHANGED conn /\ \A b, f : In(b, f)' => In(b, f)
          /\ \A f : InDown(f)' => InDown(f)
      <3>1. CASE Drop
        BY <1>0, <3>1, DropCuts, CutsIn, DropDown DEF Drop
      <3>2. CASE NoticeClose
        <4>1. UNCHANGED <<conn, pending, up>> /\ down' = <<>>
          BY <3>2 DEF NoticeClose
        <4> QED
          BY <4>1, UnchangedStays, StaysIn, EmptySeq DEF InDown
      <3>3. CASE IgnoreFrame
        <4>1. Deliver /\ UNCHANGED <<conn, pending, up>>
          BY <3>3 DEF IgnoreFrame, Deliver
        <4> QED
          BY <1>0, <4>1, UnchangedStays, StaysIn, DeliverDown
      <3> QED
        BY <1>3, <3>1, <3>2, <3>3 DEF SocketMoves
    <2> QED
      BY <1>1, <2>1 DEF GoLine, OwnsInv
  <1> QED
    BY <1>2, <1>3

\* A step of the server that takes no connection from anyone.
LEMMA OwnsCalm ==
  ASSUME TypeInv, GoLine, Calm,
         \A t \in Transfers, c \in Conns : Owns(t, c) => Owns(t, c)',
         \A f : f.kind = "metaAck" /\ InDown(f)' => InDown(f)
  PROVE  OwnsInv'
  <1>1. UNCHANGED <<spc, conn>> /\ \A b, f : In(b, f)' => In(b, f)
    BY DEF Calm
  <1>2. ASSUME NEW b, NEW t \in Transfers, NEW k \in Nat,
               In(b, Chunk(t, k))'
        PROVE  Owns(t, b)'
    <2>1. In(b, Chunk(t, k))
      BY <1>1, <1>2
    <2>2. b \in Conns /\ Owns(t, b)
      BY <2>1 DEF GoLine, InLine, ChunksInv, OwnsInv
    <2> QED
      BY <2>2
  <1>3. ASSUME NEW t \in Transfers, spc[t] \in {"reading", "chunk"},
               NEW c, c = conn
        PROVE  Owns(t, c)'
    <2>1. c \in Conns /\ Owns(t, c)
      BY <1>3 DEF GoLine, InLine, Quiet, OwnsInv
    <2> QED
      BY <2>1
  <1>4. ASSUME NEW t \in Transfers, NEW f, InDown(f)', f.kind = "metaAck",
               f.t = t, spc[t] = "meta", NEW c, c = conn
        PROVE  Owns(t, c)'
    <2>1. InDown(f)
      BY <1>4
    <2>2. link # "down"
      BY <2>1 DEF GoLine, InLine, Channels
    <2>3. c \in Conns
      BY <1>4, <2>2, GoTypes, LineTypes
    <2>4. Owns(t, c)
      BY <1>4, <2>1 DEF GoLine, OwnsInv
    <2> QED
      BY <2>3, <2>4
  <1> QED
    BY <1>1, <1>2, <1>3, <1>4 DEF OwnsInv

\* Steps that leave the files and the calls inside handleFileMeta alone.
LEMMA CreatingCalm ==
  ASSUME CreatingInv, Calm, UNCHANGED <<stream, creating>>
  PROVE  CreatingInv'
  BY CallCalm DEF CreatingInv

\* handleAuth, and a handler that drops its frame.
LEMMA TakeOnly ==
  ASSUME TypeInv, GoLine, NEW c \in Conns, NEW kind, Take(c, kind),
         UNCHANGED <<down, active, stream, transfers, written, creating>>
  PROVE  GoLine' /\ CopyStep
  <1>1. Calm /\ UNCHANGED <<link, spc>>
    BY GoTypes, TakeCalm DEF GoLine, Take
  <1>2. \A f : InDown(f)' => InDown(f)
    BY DEF InDown
  <1>3. InLine'
    BY <1>1, <1>2, GoTypes, LineNoWrite DEF GoLine
  <1>4. OwnsInv'
    BY <1>1, <1>2, OwnsCalm DEF Owns
  <1>5. NoForeignChunk'
    BY DEF GoLine, NoForeignChunk
  <1> QED
    BY <1>1, <1>3, <1>4, <1>5, CreatingCalm, CopyCalm DEF GoLine

\* handleFileMeta begins: its connection carries no chunk, and none is about
\* to be sent there.
LEMMA GoMetaLine ==
  ASSUME TypeInv, GoLine, NEW c \in Conns, GoMeta(c)
  PROVE  GoLine' /\ CopyStep
  <1>0. PhoneTypeOK
    BY GoTypes
  <1>1. /\ Take(c, "meta") /\ UNCHANGED down
        /\ UNCHANGED <<active, stream, transfers, written>>
        /\ \A h \in creating : h.c # c
    BY DEF GoMeta, Read, receiverVars
  <1>2. CASE c \notin authed
    <2>1. UNCHANGED creating
      BY <1>2 DEF GoMeta
    <2> QED
      BY <1>1, <2>1, TakeOnly
  <1>3. CASE c \in authed
    <2>1. PICK h : h = [t |-> Head(up[c]).t, c |-> c, n |-> 0,
                        free |-> FALSE]
      OBVIOUS
    <2>2. creating' = creating \cup {h} /\ h.c = c
      BY <1>3, <2>1 DEF GoMeta
    <2>3. CallInv(h)' /\ \A g : CallInv(g) => g.t # h.t
      BY <1>1, <2>1, GoTypes, CallStarts DEF GoLine
    <2>4. /\ Calm /\ UNCHANGED <<link, spc, conn>>
          /\ \A b, f : In(b, f)' => In(b, f)
      BY <1>1, GoTypes, TakeCalm DEF GoLine, Take, Calm
    <2>5. \A g \in creating : CallInv(g)'
      BY <1>1, <2>4, CallCalm DEF GoLine, CreatingInv
    <2>6. CreatingInv'
      BY <1>1, <2>2, <2>3, <2>5 DEF GoLine, CreatingInv
    <2>7. \A f : InDown(f)' => InDown(f)
      BY <1>1 DEF InDown
    <2>8. InLine'
      BY <1>1, <2>4, <2>7, GoTypes, LineNoWrite DEF GoLine
    <2>9. \A t, b : b # c /\ Owns(t, b) => Owns(t, b)'
      BY <1>1, <2>2 DEF Owns
    <2>10. PICK f \in Frames : /\ f = Head(up[c]) /\ f.kind = "meta"
                               /\ In(c, f)
      BY <1>1, GoTypes, TakeCalm DEF GoLine
    <2>11. ASSUME NEW t \in Transfers, NEW k \in Nat, In(c, Chunk(t, k))
           PROVE  FALSE
      <3>1. Has(c, 1) /\ At(c, 1) = f
        BY <1>0, <1>1, <2>10, TakeTakes DEF Takes
      <3>2. PICK i : Has(c, i) /\ At(c, i) = Chunk(t, k)
        BY <2>11 DEF In
      <3>3. Carried(c, i) /\ i # 1
        BY <2>10, <3>1, <3>2 DEF Carried, Chunk
      <3>4. i \in Nat \ {0}
        BY <1>0, <3>2, BoxType
      <3>5. At(c, 1) = Auth
        BY <3>1, <3>3, <3>4 DEF GoLine, InLine, Places, ChunkFirst
      <3> QED
        BY <2>10, <3>1, <3>5 DEF Auth
    <2>12. ASSUME NEW t \in Transfers, spc[t] \in {"reading", "chunk"}
           PROVE  conn # c
      BY <2>10, <2>12 DEF GoLine, InLine, Quiet, Auth, Chunk
    <2>13. ASSUME NEW t \in Transfers, NEW g, InDown(g),
                  g.kind = "metaAck", g.t = t, spc[t] = "meta"
           PROVE  conn # c
      BY <2>10, <2>13 DEF GoLine, InLine, Acks
    <2>14. OwnsInv'
      BY <2>4, <2>7, <2>9, <2>11, <2>12, <2>13 DEF GoLine, OwnsInv
    <2>15. NoForeignChunk'
      BY <1>1 DEF GoLine, NoForeignChunk
    <2> QED
      BY <1>1, <2>4, <2>6, <2>8, <2>14, <2>15, CopyCalm DEF GoLine
  <1> QED
    BY <1>2, <1>3

\* ensureUniquePath looks at a path.
LEMMA StatLine ==
  ASSUME TypeInv, GoLine, NEW h \in creating, Stats(h)
  PROVE  GoLine' /\ CopyStep
  <1>1. /\ PhoneRests /\ UNCHANGED down
        /\ UNCHANGED <<active, stream, transfers, written>>
    BY DEF Stats, receiverVars
  <1>2. Calm /\ UNCHANGED <<link, spc>>
    BY <1>1, GoTypes, RestCalm DEF GoLine, PhoneRests
  <1>3. \A f : InDown(f)' => InDown(f)
    BY <1>1 DEF InDown
  <1>4. InLine'
    BY <1>1, <1>2, <1>3, GoTypes, LineNoWrite DEF GoLine
  <1>5. PICK g \in CreateCalls : /\ g.t = h.t /\ g.c = h.c
                                /\ creating' = (creating \ {h}) \cup {g}
    BY DEF Stats
  <1>6. g.t = h.t /\ g.c = h.c
    BY <1>5
  <1>7. creating' = (creating \ {h}) \cup {g}
    BY <1>5
  <1>8. \A f \in creating : CallInv(f)'
    BY <1>1, <1>2, CallCalm DEF GoLine, CreatingInv
  <1>9. CallInv(g)'
    BY <1>6, <1>8 DEF CallInv
  <1>10. CreatingInv'
    BY <1>6, <1>7, <1>8, <1>9 DEF GoLine, CreatingInv
  <1>11. OwnsInv'
    BY <1>1, <1>2, <1>3, <1>6, <1>7, OwnsCalm DEF Owns
  <1>12. NoForeignChunk'
    BY <1>1 DEF GoLine, NoForeignChunk
  <1> QED
    BY <1>1, <1>2, <1>4, <1>10, <1>11, <1>12, CopyCalm DEF GoLine

\* handleFileMeta makes its file: the connection is its transfer's from now.
LEMMA CreateAndRegisterLine ==
  ASSUME TypeInv, GoLine, NEW h \in creating, CreateAndRegister(h)
  PROVE  GoLine' /\ CopyStep
  <1>0. /\ h.t \in Transfers /\ h.c \in Conns /\ CallInv(h)
        /\ active \in [Conns -> Transfers \cup {NONE}] /\ PhoneTypeOK
    BY GoTypes, LineTypes DEF GoLine, CreatingInv
  <1>1. /\ PhoneRests /\ UNCHANGED written
        /\ stream' = [stream EXCEPT ![h.t] = "open"]
        /\ transfers' = transfers \cup {h.t}
        /\ active' = [active EXCEPT ![h.c] = h.t]
        /\ Reply(h.c, <<MetaAck(h.t)>>)
        /\ creating' = creating \ {h}
    BY DEF CreateAndRegister, Working, PhoneRests
  <1>2. InLine'
    BY <1>0, <1>1, GoTypes, LineOpen DEF GoLine
  <1>3. stream[h.t] = "none"
    BY <1>0 DEF CallInv
  <1>4. /\ \A u \in Transfers : u # h.t => stream'[u] = stream[u]
        /\ stream'[h.t] = "open"
    BY <1>0, <1>1, GoTypes DEF ReceiverTypeOK
  <1>5. CopyStep
    BY <1>1, <1>3, <1>4, CopyCalm DEF PhoneRests
  <1>6. /\ Calm /\ UNCHANGED <<spc, conn, link>>
        /\ \A b, f : In(b, f)' => In(b, f)
    BY <1>1, GoTypes, RestCalm DEF GoLine, Calm
  <1>7. CreatingInv'
    <2>1. ASSUME NEW g \in creating', NEW f \in creating'
          PROVE  CallInv(g)' /\ (f.t = g.t \/ f.c = g.c => f = g)
      <3>1. g \in creating /\ f \in creating /\ g.t # h.t
        BY <1>1, <2>1 DEF GoLine, CreatingInv
      <3>2. CallInv(g) /\ stream'[g.t] = stream[g.t]
        BY <1>4, <3>1, GoTypes DEF GoLine, CreatingInv
      <3> QED
        BY <1>6, <3>1, <3>2, CallCalm DEF GoLine, CreatingInv
    <2> QED
      BY <2>1 DEF CreatingInv
  <1>8. \A f : InDown(f)' => InDown(f) \/ (f = MetaAck(h.t) /\ h.c = conn)
    BY <1>0, <1>1, FrameTypes, ReplyDown
  <1>9. \A t : \A c \in Conns : Owns(t, c) => Owns(t, c)'
    BY <1>0, <1>1 DEF Owns
  <1>10. Owns(h.t, h.c)'
    BY <1>0, <1>1 DEF Owns, GoLine, CreatingInv
  <1>11. OwnsInv'
    <2>1. ASSUME NEW b, NEW t \in Transfers, NEW k \in Nat,
                 In(b, Chunk(t, k))'
          PROVE  Owns(t, b)'
      <3>1. In(b, Chunk(t, k))
        BY <1>6, <2>1
      <3>2. b \in Conns /\ Owns(t, b)
        BY <3>1 DEF GoLine, InLine, ChunksInv, OwnsInv
      <3> QED
        BY <1>9, <3>2
    <2>2. ASSUME NEW t \in Transfers, spc[t] \in {"reading", "chunk"},
                 NEW c, c = conn
          PROVE  Owns(t, c)'
      <3>1. c \in Conns /\ Owns(t, c)
        BY <2>2 DEF GoLine, InLine, Quiet, OwnsInv
      <3> QED
        BY <1>9, <3>1
    <2>3. ASSUME NEW t \in Transfers, NEW f, InDown(f)',
                 f.kind = "metaAck", f.t = t, spc[t] = "meta",
                 NEW c, c = conn
          PROVE  Owns(t, c)'
      <3>1. CASE InDown(f)
        <4>1. link # "down"
          BY <3>1 DEF GoLine, InLine, Channels
        <4>2. c \in Conns
          BY <2>3, <4>1, GoTypes, LineTypes
        <4>3. Owns(t, c)
          BY <2>3, <3>1 DEF GoLine, OwnsInv
        <4> QED
          BY <1>9, <4>2, <4>3
      <3>2. CASE f = MetaAck(h.t) /\ h.c = conn
        <4>1. t = h.t /\ c = h.c
          BY <2>3, <3>2 DEF MetaAck
        <4> QED
          BY <1>10, <4>1
      <3> QED
        BY <1>8, <2>3, <3>1, <3>2
    <2> QED
      BY <1>6, <2>1, <2>2, <2>3 DEF OwnsInv
  <1>12. NoForeignChunk'
    BY <1>1 DEF GoLine, NoForeignChunk
  <1> QED
    BY <1>2, <1>5, <1>7, <1>11, <1>12 DEF GoLine

\* handleBinaryChunk writes: to the file the chunk belongs to.
LEMMA GoWriteChunkLine ==
  ASSUME TypeInv, GoLine, NEW c \in Conns, GoWriteChunk(c)
  PROVE  GoLine' /\ CopyStep
  <1>0. PhoneTypeOK /\ NONE \notin Transfers
    BY GoTypes, LineTypes
  <1>1. PICK u \in Transfers :
          /\ active[c] = u /\ stream[u] = "open" /\ Write(c, u)
          /\ Reply(c, <<ChunkAck(u, Received(u) + 1)>>)
    BY DEF GoWriteChunk
  <1>2. /\ Take(c, "chunk") /\ UNCHANGED <<active, stream, transfers>>
        /\ UNCHANGED creating
    BY DEF GoWriteChunk, Read
  <1>3. InLine'
    BY <1>1, <1>2, GoTypes, LineWrite DEF GoLine
  <1>4. CopyStep
    BY <1>1, <1>2, GoTypes, CopyWrite DEF GoLine
  <1>5. Calm
    BY <1>2, GoTypes, TakeCalm DEF GoLine
  <1>6. CreatingInv'
    BY <1>2, <1>5, CreatingCalm DEF GoLine
  <1>7. \A f : f.kind = "metaAck" /\ InDown(f)' => InDown(f)
    <2>1. ChunkAck(u, Received(u) + 1) \in Frames
      BY GoTypes, FrameTypes
    <2> QED
      BY <1>0, <1>1, <2>1, ReplyDown DEF ChunkAck
  <1>8. OwnsInv'
    BY <1>2, <1>5, <1>7, OwnsCalm DEF Owns
  <1>9. NoForeignChunk'
    <2>1. PICK t \in Transfers, k \in Nat : Lands(c, u, t, k)
      BY <1>1, <1>2, GoTypes, WriteFacts DEF GoLine
    <2>2. Owns(t, c)
      BY <2>1 DEF GoLine, OwnsInv, Lands
    <2>3. u = t
      BY <1>0, <1>1, <2>2 DEF Owns
    <2>4. /\ written[u] \in Seq(Chunks) /\ <<t, k>> \in Chunks
          /\ written'[u] = Append(written[u], <<t, k>>)
          /\ \A v \in Transfers \ {u} : written'[v] = written[v]
      BY <2>1, GoTypes DEF Lands, ReceiverTypeOK, Chunks
    <2>5. \A i \in 1 .. Len(written[u]) : written[u][i][1] = u
      BY <2>4, LenProperties DEF GoLine, NoForeignChunk
    <2>6. ASSUME NEW v \in Transfers, NEW i \in DOMAIN written'[v]
          PROVE  written'[v][i][1] = v
      <3>1. CASE v = u
        <4>1. i \in 1 .. Len(written[u]) + 1
          BY <2>4, <2>6, <3>1, AppendProperties, LenProperties
        <4>2. CASE i = Len(written[u]) + 1
          <5>1. written'[u][i] = <<t, k>>
            BY <2>4, <4>2, AppendProperties
          <5> QED
            BY <2>3, <3>1, <5>1
        <4>3. CASE i # Len(written[u]) + 1
          <5>1. i \in 1 .. Len(written[u]) /\ Len(written[u]) \in Nat
            BY <2>4, <4>1, <4>3, LenProperties
          <5>2. written'[u][i] = written[u][i]
            BY <2>4, <5>1, AppendProperties
          <5> QED
            BY <2>5, <3>1, <5>1, <5>2
        <4> QED
          BY <4>2, <4>3
      <3>2. CASE v # u
        BY <2>4, <2>6, <3>2 DEF GoLine, NoForeignChunk
      <3> QED
        BY <3>1, <3>2
    <2> QED
      BY <2>6 DEF NoForeignChunk
  <1> QED
    BY <1>3, <1>4, <1>6, <1>8, <1>9 DEF GoLine

\* handleFileEnd: the file it closes is the one it names.
LEMMA GoEndLine ==
  ASSUME TypeInv, GoLine, NEW c \in Conns, GoEnd(c)
  PROVE  GoLine' /\ CopyStep
  <1>0. /\ active \in [Conns -> Transfers \cup {NONE}]
        /\ NONE \notin Transfers /\ PhoneTypeOK
        /\ stream \in [Transfers -> {"none", "open", "ending", "closed"}]
    BY GoTypes, LineTypes
  <1>1. /\ Take(c, "end") /\ UNCHANGED <<written, creating>>
    BY DEF GoEnd, Read
  <1>2. PICK f \in Frames :
          /\ f = Head(up[c]) /\ f.kind = "end" /\ In(c, f)
          /\ \A b : In(b, f)' => f = Auth
    BY <1>1, GoTypes, TakeCalm DEF GoLine
  <1>3. Calm /\ UNCHANGED <<link, spc>>
    BY <1>1, GoTypes, TakeCalm DEF GoLine, Take
  <1>4. PICK m \in Transfers : m = f.t /\ f = End(m)
    BY <1>2 DEF Frames, Auth, End
  <1>5. spc[m] = "done" /\ stream[m] = "open" /\ m \in transfers
    BY <1>2, <1>4 DEF GoLine, InLine, EndsInv, FilesInv
  <1>6. EndTarget(c, m) = m
    BY <1>5 DEF EndTarget
  <1>7. \A b : ~ In(b, End(m))'
    BY <1>2, <1>4, FramesDiffer
  <1>8. CASE c \notin authed
    <2>1. UNCHANGED <<transfers, active, stream, down>>
      BY <1>8 DEF GoEnd
    <2> QED
      BY <1>1, <2>1, TakeOnly
  <1>9. CASE c \in authed
    <2>1. /\ transfers' = transfers \ {m}
          /\ active' = [active EXCEPT ![c] = NONE]
          /\ stream' = [stream EXCEPT ![m] = "closed"]
          /\ Reply(c, <<EndAck(m)>>)
      BY <1>0, <1>2, <1>4, <1>6, <1>9 DEF GoEnd
    <2>2. /\ transfers \ {m} \subseteq transfers'
          /\ active' \in [Conns -> Transfers \cup {NONE}]
          /\ \A b \in Conns : active'[b] \in {active[b], NONE}
      BY <1>0, <2>1
    <2>3. \A g : InDown(g)' =>
            InDown(g) \/ (g.kind = "endAck" /\ link = "up")
      BY <1>0, <2>1, FrameTypes, ReplyDown DEF EndAck
    <2>4. InLine'
      BY <1>1, <1>3, <1>5, <1>7, <2>1, <2>2, <2>3, GoTypes, LineEnd
      DEF GoLine
    <2>5. CopyStep
      BY <1>1, <1>3, <1>5, <2>1, GoTypes, CopyClose
    <2>6. \A u \in Transfers : u # m => stream'[u] = stream[u]
      BY <1>0, <2>1
    <2>7. CreatingInv'
      <3>1. ASSUME NEW g \in creating
            PROVE  CallInv(g)'
        <4>1. CallInv(g) /\ g.t \in Transfers /\ g.t # m
          BY <1>5, <3>1, GoTypes DEF GoLine, CreatingInv, CallInv
        <4> QED
          BY <1>3, <2>6, <4>1, CallCalm
      <3> QED
        BY <1>1, <3>1 DEF GoLine, CreatingInv
    <2>8. \A t \in Transfers, b \in Conns : Owns(t, b) => Owns(t, b)'
      BY <1>1, <2>2 DEF Owns
    <2>9. OwnsInv'
      BY <1>3, <2>3, <2>8, OwnsCalm
    <2>10. NoForeignChunk'
      BY <1>1 DEF GoLine, NoForeignChunk
    <2> QED
      BY <2>4, <2>5, <2>7, <2>9, <2>10 DEF GoLine
  <1> QED
    BY <1>8, <1>9

\* Every step of the system keeps the invariant, and is one of FileCopy.
LEMMA GoLineStep ==
  ASSUME ~ Overlap, TypeInv, GoLine, [Next]_vars
  PROVE  GoLine' /\ CopyStep
  <1>1. ASSUME NEW t \in Transfers, PhoneStep(t)
        PROVE  GoLine' /\ CopyStep
    <2>1. /\ PhoneMoves(t) /\ UNCHANGED <<receiverVars, creating>>
          /\ UNCHANGED written
      BY <1>1 DEF PhoneStep, PhoneMoves, goVars, receiverVars
    <2>2. InLine' /\ CopyStep
      BY <2>1, GoTypes, LinePhone, CopyPhone DEF GoLine
    <2>3. CreatingInv'
      BY <2>1, GoTypes, CallPhone DEF GoLine, CreatingInv
    <2>4. OwnsInv'
      BY <2>1, OwnsPhone
    <2> QED
      BY <2>1, <2>2, <2>3, <2>4 DEF GoLine, NoForeignChunk
  <1>2. CASE SocketStep
    <2>1. /\ SocketMoves /\ UNCHANGED <<receiverVars, creating>>
          /\ UNCHANGED written
      BY <1>2 DEF SocketStep, SocketMoves, goVars, receiverVars
    <2>2. InLine' /\ CopyStep
      BY <2>1, GoTypes, LineSocket, CopySocket DEF GoLine
    <2>3. CreatingInv'
      BY <2>1, GoTypes, CallSocket DEF GoLine, CreatingInv
    <2>4. OwnsInv'
      BY <2>1, OwnsSocket
    <2> QED
      BY <2>1, <2>2, <2>3, <2>4 DEF GoLine, NoForeignChunk
  <1>3. CASE UNCHANGED vars
    <2>1. /\ PhoneRests /\ UNCHANGED link
          /\ UNCHANGED <<down, active, stream, transfers, written, creating>>
      BY <1>3
      DEF vars, phoneVars, socketVars, goVars, receiverVars, PhoneRests
    <2>2. Calm /\ UNCHANGED spc
      BY <2>1, GoTypes, RestCalm DEF GoLine, PhoneRests
    <2>3. \A f : InDown(f)' => InDown(f)
      BY <2>1 DEF InDown
    <2>4. InLine'
      BY <2>1, <2>2, <2>3, GoTypes, LineNoWrite DEF GoLine
    <2>5. OwnsInv' /\ CreatingInv' /\ CopyStep
      BY <2>1, <2>2, <2>3, OwnsCalm, CreatingCalm, CopyCalm DEF Owns, GoLine
    <2> QED
      BY <2>1, <2>4, <2>5 DEF GoLine, NoForeignChunk
  <1>4. CASE GoReceiveStep
    <2>1. ASSUME NEW c \in Conns, GoAuth(c) \/ GoDropChunk(c)
          PROVE  GoLine' /\ CopyStep
      <3>1. /\ \E kind : Take(c, kind)
            /\ UNCHANGED <<down, active, stream, transfers, written, creating>>
        BY <2>1 DEF GoAuth, GoDropChunk, Read, goVars, receiverVars
      <3> QED
        BY <3>1, TakeOnly
    <2> QED
      BY <1>4, <2>1, GoMetaLine, GoWriteChunkLine, GoEndLine, StatSteps,
         StatLine, CreateAndRegisterLine
      DEF GoReceiveStep, GoHandler
  <1> QED
    BY <1>1, <1>2, <1>3, <1>4 DEF Next

\* It holds at the start.
LEMMA GoLineInit ==
  ASSUME Init
  PROVE  GoLine
  <1>1. InLine /\ creating = {}
    BY LineInit DEF Init, GoInit
  <1>2. \A t \in Transfers : spc[t] = "idle" /\ written[t] = <<>>
    BY DEF Init, PhoneInit, GoInit, ReceiverInit
  <1>3. \A f : ~ InDown(f)
    BY EmptySeq DEF Init, PhoneInit, SocketInit, InDown
  <1>4. \A b : \A t \in Transfers : \A k \in Nat : ~ In(b, Chunk(t, k))
    BY <1>1, <1>2 DEF InLine, ChunksInv
  <1> QED
    BY <1>1, <1>2, <1>3, <1>4 DEF GoLine, CreatingInv, OwnsInv, NoForeignChunk

\* It always holds of sends that do not overlap, and so the properties below.
THEOREM GoOneSend == ~ Overlap => (Spec => [](TypeInv /\ GoLine))
  <1> SUFFICES ASSUME ~ Overlap
               PROVE  Spec => [](TypeInv /\ GoLine)
    OBVIOUS
  <1>1. Init => TypeInv /\ GoLine
    BY TypeInvInit, GoLineInit
  <1>2. TypeInv /\ GoLine /\ [Next]_vars => (TypeInv /\ GoLine)'
    BY TypeInvStep, GoLineStep
  <1> QED
    BY <1>1, <1>2, PTL DEF Spec

\* Of sends that do not overlap: whatever connections break and whichever
\* timers fire, and although the handlers of calls that gave up are still at
\* work, sendFile reports success only of a file the server has every chunk
\* of, in order, once.
THEOREM DoneIsComplete == ~ Overlap => (Spec => []DoneMeansComplete)
  <1>1. TypeInv /\ GoLine => DoneMeansComplete
    BY LineFiles DEF TypeInv, GoLine
  <1> QED
    BY <1>1, GoOneSend, PTL

\* Of sends that do not overlap: while a send runs its file holds exactly the
\* chunks acknowledged to the phone, or one more.
THEOREM AckedIsWritten == ~ Overlap => (Spec => []AckedMeansWritten)
  <1>1. TypeInv /\ GoLine => AckedMeansWritten
    BY LineFiles DEF TypeInv, GoLine
  <1> QED
    BY <1>1, GoOneSend, PTL

\* Of sends that do not overlap: no connection ever carries two chunks, not
\* even when a call gives up and the next starts at once.
THEOREM OneChunk == ~ Overlap => (Spec => []OneChunkInFlight)
  <1>1. TypeInv /\ GoLine => OneChunkInFlight
    BY LineChunks DEF TypeInv, GoLine
  <1> QED
    BY <1>1, GoOneSend, PTL

\* Of sends that do not overlap: since the handlers of a connection follow
\* each other, not even the last chunk of a call that gave up lands in the
\* file of another.  (The Node server is saved from this by no order.)
THEOREM OwnChunksOnly == ~ Overlap => (Spec => []NoForeignChunk)
  <1>1. GoLine => NoForeignChunk
    BY DEF GoLine
  <1> QED
    BY <1>1, GoOneSend, PTL

\* Sends that do not overlap keep the promise of FileCopy: the file of a
\* running call grows by its own next chunk only, success is reported of a
\* complete file, which stays as it is and is closed at most once, and that
\* of a call that gave up is never closed.
THEOREM GoKeepsPromise == ~ Overlap => (Spec => CopySpec)
  <1> SUFFICES ASSUME ~ Overlap
               PROVE  Spec => CopySpec
    OBVIOUS
  <1>1. Init => Copy!Init
    BY CopyInit DEF Init, GoInit
  <1>2. TypeInv /\ GoLine /\ [Next]_vars => [Copy!Next]_(Copy!copyVars)
    BY GoLineStep DEF CopyStep
  <1>3. Spec => [](TypeInv /\ GoLine)
    BY GoOneSend
  <1> QED
    BY <1>1, <1>2, <1>3, PTL DEF Spec, CopySpec, Copy!Spec

----------------------------------------------------------------------------
(* No send waits in vain.                                                   *)
(*                                                                          *)
(* The lemmas above say what a frame on its way means; those below, that it *)
(* is on its way.                                                           *)

\* A chunk of t sent now is written to the file of t.
Home(t) == link = "up" /\ active[1] = t

\* The META of t is under way, or being handled.
MetaOut(t) == (\E b : In(b, Meta(t))) \/ \E h \in creating : h.t = t

\* What the call of t waits for is under way, while no connection has broken:
\* then there is one connection, and it is that of t once its META is
\* acknowledged.
Awaits(t) ==
  /\ spc[t] = "meta" => MetaOut(t) \/ (InDown(MetaAck(t)) /\ Home(t))
  /\ spc[t] \in {"reading", "chunk"} => Home(t)
  /\ spc[t] = "chunk" => \/ In(1, Chunk(t, idx[t] + 1))
                         \/ InDown(ChunkAck(t, idx[t] + 1))
OneConn == link # "dead" /\ conn \in {0, 1} /\ (link = "down" => conn = 0)
Served == drops = 0 => OneConn /\ \A t \in Transfers : Awaits(t)

\* A frame that is put is there, and the others remain.
LEMMA PutsKeeps ==
  ASSUME NEW d, NEW g, Puts(d, g)
  PROVE  In(d, g)' /\ \A b, f : In(b, f) => In(b, f)'
  BY DEF Puts, In

\* What a handler does not take remains.
LEMMA TakeKeeps ==
  ASSUME PhoneTypeOK, NEW c \in Conns, NEW kind, Take(c, kind),
         NEW b, NEW f, In(b, f), b # c \/ f # Head(up[c])
  PROVE  In(b, f)'
  <1>1. PICK i : Has(b, i) /\ At(b, i) = f
    BY DEF In
  <1>2. /\ Box(c) = up[c] /\ c \in Boxes /\ Box(c) \in Seq(Frames)
        /\ Box(c) # <<>> /\ b \in Boxes
    BY <1>1, ConnBox, BoxType DEF Take, TakeFrame, Box
  <1>3. Box(c)' = Tail(Box(c)) /\ (b # c => Box(b)' = Box(b))
    BY <1>2, ConnBox, SocketAssumption
    DEF Take, TakeFrame, Box, Boxes, PhoneTypeOK
  <1>4. CASE b # c
    BY <1>1, <1>3, <1>4 DEF In, Has, At
  <1>5. CASE b = c
    <2>1. /\ Len(Box(c)) \in Nat /\ Head(Box(c)) = Box(c)[1]
          /\ Len(Tail(Box(c))) = Len(Box(c)) - 1
          /\ \A j \in 1 .. Len(Tail(Box(c))) : Tail(Box(c))[j] = Box(c)[j + 1]
      BY <1>2, HeadTailProperties, LenProperties
    <2>2. i \in 1 .. Len(Box(c)) /\ Box(c)[i] = f /\ i # 1
      BY <1>1, <1>2, <1>5, <2>1 DEF Has, At
    <2>3. PICK j : j = i - 1
      OBVIOUS
    <2>4. j \in 1 .. Len(Tail(Box(c))) /\ Tail(Box(c))[j] = f
      BY <2>1, <2>2, <2>3
    <2>5. Has(c, j)' /\ At(c, j)' = f
      BY <1>2, <1>3, <2>4 DEF Has, At
    <2> QED
      BY <1>5, <2>5 DEF In
  <1> QED
    BY <1>4, <1>5

\* The queue goes to the new connection.
LEMMA ConnectKeeps ==
  ASSUME PhoneTypeOK, Connect, NEW c, c = conn + 1, NEW f, In(0, f)
  PROVE  In(c, f)'
  <1>1. /\ c \in Conns /\ c \in Boxes /\ c # 0 /\ pending \in Seq(Frames)
    BY ConnectOpens, ConnBox DEF PhoneTypeOK
  <1>2. Box(c)' = <<Auth>> \o pending
    BY <1>1 DEF Connect, Box, PhoneTypeOK
  <1>3. PICK i \in 1 .. Len(pending) : pending[i] = f
    BY DEF In, Has, At, Box
  <1>4. <<Auth>> \in Seq(Frames) /\ Len(<<Auth>>) = 1
    BY FrameTypes
  <1>5. /\ Len(<<Auth>> \o pending) = 1 + Len(pending)
        /\ \A j \in 1 .. 1 + Len(pending) :
             (<<Auth>> \o pending)[j] =
               IF j <= 1 THEN <<Auth>>[j] ELSE pending[j - 1]
    BY <1>1, <1>4, ConcatProperties
  <1>6. PICK j : j = i + 1
    OBVIOUS
  <1>7. /\ Len(pending) \in Nat /\ j \in 1 .. 1 + Len(pending)
        /\ (<<Auth>> \o pending)[j] = f
    BY <1>1, <1>3, <1>5, <1>6, LenProperties
  <1>8. Has(c, j)' /\ At(c, j)' = f
    BY <1>1, <1>2, <1>5, <1>7 DEF Has, At
  <1> QED
    BY <1>8 DEF In

\* What the phone does not take remains.
LEMMA DeliverKeeps ==
  ASSUME PhoneTypeOK, Deliver, NEW f, InDown(f), f # Head(down)
  PROVE  InDown(f)'
  <1>1. /\ down \in Seq(Frames) /\ down # <<>> /\ down' = Tail(down)
    BY DEF Deliver, PhoneTypeOK
  <1>2. /\ Len(down) \in Nat /\ Head(down) = down[1]
        /\ Len(Tail(down)) = Len(down) - 1
        /\ \A i \in 1 .. Len(Tail(down)) : Tail(down)[i] = down[i + 1]
    BY <1>1, HeadTailProperties, LenProperties
  <1>3. PICK i \in 1 .. Len(down) : down[i] = f
    BY DEF InDown
  <1>4. PICK j : j = i - 1
    OBVIOUS
  <1>5. j \in 1 .. Len(Tail(down)) /\ Tail(down)[j] = f
    BY <1>2, <1>3, <1>4
  <1> QED
    BY <1>1, <1>5 DEF InDown

\* A reply is there if its connection is up, and what was there remains.
LEMMA ReplyKeeps ==
  ASSUME PhoneTypeOK, NEW c, NEW g \in Frames, Reply(c, <<g>>)
  PROVE  /\ \A f : InDown(f) => InDown(f)'
         /\ c = conn /\ link = "up" => InDown(g)'
  <1>1. CASE UNCHANGED down /\ ~ (c = conn /\ link = "up")
    BY <1>1 DEF InDown
  <1>2. CASE c = conn /\ link = "up" /\ down' = down \o <<g>>
    <2>1. down \in Seq(Frames) /\ Len(down) \in Nat
      BY LenProperties DEF PhoneTypeOK
    <2>2. down \o <<g>> = Append(down, g)
      BY <2>1, AppendIsConcat
    <2>3. /\ Len(Append(down, g)) = Len(down) + 1
          /\ \A i \in 1 .. Len(down) : Append(down, g)[i] = down[i]
          /\ Append(down, g)[Len(down) + 1] = g
      BY <2>1, AppendProperties
    <2>4. \A f : InDown(f) => InDown(f)'
      BY <1>2, <2>1, <2>2, <2>3 DEF InDown
    <2>5. InDown(g)'
      <3>1. PICK n : n = Len(down) + 1
        OBVIOUS
      <3>2. n \in 1 .. Len(Append(down, g)) /\ Append(down, g)[n] = g
        BY <2>1, <2>3, <3>1
      <3> QED
        BY <1>2, <2>2, <3>2 DEF InDown
    <2> QED
      BY <2>4, <2>5
  <1> QED
    BY <1>1, <1>2 DEF Reply

\* Where each step's frames are to be found.
LEMMA ServedTypes ==
  ASSUME TypeInv, GoLine, Served, drops = 0
  PROVE  /\ OneConn /\ \A t \in Transfers : Awaits(t)
         /\ link = "up" => conn = 1 /\ 1 \in Conns
         /\ \A c \in Conns : c <= conn => c = 1 /\ link = "up" /\ conn = 1
         /\ \A b, f : In(b, f) => b = 0 \/ (b = 1 /\ link = "up")
  <1>0. PhoneTypeOK /\ conn \in 0 .. MaxConns /\ MaxConns \in Nat
    BY GoTypes, LineTypes
  <1>1. OneConn /\ \A t \in Transfers : Awaits(t)
    BY DEF Served
  <1>2. link = "up" => conn = 1 /\ 1 \in Conns
    BY <1>0, <1>1, GoTypes, LineTypes DEF OneConn
  <1>3. \A c \in Conns : c <= conn => c = 1 /\ link = "up" /\ conn = 1
    BY <1>0, <1>1, GoTypes, LineTypes DEF OneConn
  <1>4. ASSUME NEW b, NEW f, In(b, f), b # 0
        PROVE  b = 1 /\ link = "up"
    <2>1. b \in Conns
      BY <1>0, <1>4, InType DEF Boxes
    <2>2. b <= conn
      BY <1>0, <1>4, <2>1 DEF GoLine, InLine, Channels
    <2> QED
      BY <1>3, <2>1, <2>2
  <1> QED
    BY <1>1, <1>2, <1>3, <1>4

\* The phone's calls put what they are to wait for on its way.
LEMMA ServedPhone ==
  ASSUME TypeInv, GoLine, Served, ~ Overlap, NEW t \in Transfers,
         PhoneMoves(t), UNCHANGED <<receiverVars, creating>>
  PROVE  Served'
  <1>0. /\ spc \in [Transfers -> SendStates] /\ PhoneTypeOK
        /\ idx \in [Transfers -> Nat] /\ NumChunks[t] \in Nat
    BY GoTypes, LineTypes
  <1>1. UNCHANGED <<link, conn, drops>>
    BY DEF PhoneMoves, StartSend, SendChunk, ReadFails, Timeout, MetaAcked,
           ChunkAcked, Deliver
  <1> SUFFICES ASSUME drops = 0
               PROVE  OneConn' /\ \A u \in Transfers : Awaits(u)'
    BY <1>1 DEF Served
  <1>2. /\ OneConn /\ \A u \in Transfers : Awaits(u)
        /\ link = "up" => conn = 1
    BY ServedTypes
  <1>3. OneConn' /\ \A u : Home(u)' <=> Home(u)
    BY <1>1, <1>2 DEF OneConn, Home, receiverVars
  <1>4. \A u \in Transfers : ~ Sending(u)' => Awaits(u)'
    BY DEF Awaits, Sending
  <1>5. ASSUME \A u \in Transfers : u # t => spc'[u] = spc[u], Sending(t)
        PROVE  \A u \in Transfers : u # t => Awaits(u)'
    BY <1>4, <1>5 DEF GoLine, InLine, OneSender, Sending
  <1>6. CASE StartSend(t)
    <2>1. /\ spc' = [spc EXCEPT ![t] = "meta"] /\ Send(Meta(t))
          /\ \A u \in Transfers : ~ Sending(u)
      BY <1>6 DEF StartSend, PicksFile
    <2>2. PICK b : Puts(b, Meta(t))
      <3>1. PICK d : d = conn
        OBVIOUS
      <3>2. Puts(conn, Meta(t)) => Puts(d, Meta(t))
        BY <1>1, <3>1 DEF Puts
      <3> QED
        BY <1>0, <1>1, <1>2, <2>1, <3>2, FrameTypes, SendPuts DEF OneConn
    <2>3. MetaOut(t)'
      BY <2>2, PutsKeeps DEF MetaOut
    <2>4. Awaits(t)'
      BY <1>0, <2>1, <2>3 DEF Awaits
    <2>5. \A u \in Transfers : u # t => ~ Sending(u)'
      BY <1>0, <2>1 DEF Sending
    <2> QED
      BY <1>3, <1>4, <2>4, <2>5
  <1>7. CASE SendChunk(t)
    <2>1. /\ spc[t] = "reading" /\ spc' = [spc EXCEPT ![t] = "chunk"]
          /\ UNCHANGED idx /\ SendBinary(Chunk(t, idx[t] + 1))
      BY <1>7 DEF SendChunk
    <2>2. Home(t) /\ Sending(t) /\ link = "up" /\ conn = 1
      BY <1>2, <2>1 DEF Awaits, Sending, Home
    <2>3. PICK f : f = Chunk(t, idx[t] + 1)
      OBVIOUS
    <2>4. Puts(conn, f)
      BY <1>0, <1>1, <2>1, <2>2, <2>3, FrameTypes, SendBinaryPuts
    <2>5. Puts(1, f)
      BY <1>1, <2>2, <2>4 DEF Puts
    <2>6. In(1, Chunk(t, idx[t] + 1))'
      BY <2>1, <2>3, <2>5, PutsKeeps
    <2>7. Awaits(t)'
      BY <1>0, <1>3, <2>1, <2>2, <2>6 DEF Awaits
    <2>8. \A u \in Transfers : u # t => spc'[u] = spc[u]
      BY <1>0, <2>1
    <2> QED
      BY <1>3, <1>5, <2>2, <2>7, <2>8
  <1>8. CASE Timeout(t) \/ ReadFails(t)
    <2>1. spc' = [spc EXCEPT ![t] = "failed"] /\ Sending(t)
      BY <1>8 DEF Timeout, ReadFails, Sending
    <2>2. ~ Sending(t)' /\ \A u \in Transfers : u # t => spc'[u] = spc[u]
      BY <1>0, <2>1 DEF Sending
    <2> QED
      BY <1>3, <1>4, <1>5, <2>1, <2>2
  <1>9. CASE MetaAcked(t) \/ ChunkAcked(t)
    <2>1. Home(t) /\ Sending(t)
      <3>1. CASE MetaAcked(t)
        <4>1. Deliver /\ Head(down).kind = "metaAck" /\ Head(down).t = t
          BY <3>1 DEF MetaAcked, AwaitedMeta
        <4>2. InDown(Head(down)) /\ spc[t] = "meta"
          BY <1>0, <3>1, <4>1, DeliverDown DEF MetaAcked, AwaitedMeta
        <4>3. /\ stream[t] # "none" /\ link = "up"
              /\ \A c : c = conn => \A g : ~ In(c, g)
          BY <1>0, <1>2, <4>1, <4>2, DeliverDown
          DEF GoLine, InLine, Acks, OneConn, Deliver
        <4>4. ~ MetaOut(t)
          BY <4>2, <4>3 DEF MetaOut, GoLine, InLine, MetasInv, CreatingInv,
             CallInv
        <4> QED
          BY <1>2, <4>2, <4>4 DEF Awaits, Sending
      <3>2. CASE ChunkAcked(t)
        BY <1>2, <3>2 DEF ChunkAcked, AwaitedChunk, Awaits, Sending
      <3> QED
        BY <1>9, <3>1, <3>2
    <2>2. PICK n \in 0 .. NumChunks[t] : Proceed(t, n)
      BY <1>9, GoTypes, AckedFacts DEF GoLine
    <2>3. /\ spc'[t] \in {"reading", "done"}
          /\ \A u \in Transfers : u # t => spc'[u] = spc[u]
      BY <1>0, <2>2 DEF Proceed
    <2>4. Awaits(t)'
      BY <1>3, <2>1, <2>3 DEF Awaits
    <2> QED
      BY <1>3, <1>5, <2>1, <2>3, <2>4
  <1> QED
    BY <1>6, <1>7, <1>8, <1>9 DEF PhoneMoves

\* The socket opens with the queue; it never breaks.
LEMMA ServedSocket ==
  ASSUME TypeInv, GoLine, Served, SocketMoves,
         UNCHANGED <<receiverVars, creating>>
  PROVE  Served'
  <1>0. PhoneTypeOK /\ drops \in Nat /\ conn \in 0 .. MaxConns
    BY GoTypes, LineTypes DEF PhoneTypeOK
  <1>1. UNCHANGED <<spc, idx, active, creating>>
    BY DEF SocketMoves, receiverVars
  <1>2. CASE Connect
    <2>1. UNCHANGED <<drops, down>> /\ link = "down" /\ link' = "up"
          /\ conn' = conn + 1
      BY <1>2 DEF Connect
    <2> SUFFICES ASSUME drops = 0
                 PROVE  OneConn' /\ \A u \in Transfers : Awaits(u)'
      BY <2>1 DEF Served
    <2>2. /\ OneConn /\ \A u \in Transfers : Awaits(u)
          /\ \A b, f : In(b, f) => b = 0 \/ (b = 1 /\ link = "up")
      BY ServedTypes
    <2>3. conn = 0 /\ OneConn'
      BY <2>1, <2>2 DEF OneConn
    <2>4. \A f : In(0, f) => In(1, f)'
      BY <1>0, <1>2, <2>3, ConnectKeeps
    <2>5. ASSUME NEW u \in Transfers
          PROVE  Awaits(u)'
      <3>1. ~ Home(u) /\ Awaits(u)
        BY <2>1, <2>2 DEF Home
      <3>2. MetaOut(u) => MetaOut(u)'
        BY <1>1, <2>1, <2>2, <2>4 DEF MetaOut
      <3> QED
        BY <1>1, <3>1, <3>2 DEF Awaits
    <2> QED
      BY <2>3, <2>5
  <1>3. CASE Drop
    BY <1>0, <1>3 DEF Drop, Served
  <1>4. CASE NoticeClose
    BY <1>4 DEF NoticeClose, Served, OneConn
  <1>5. CASE IgnoreFrame
    <2>1. /\ Deliver /\ UNCHANGED <<link, conn, drops, pending, up>>
          /\ \A t \in Transfers : ~ Awaited(Head(down), t)
      BY <1>5 DEF IgnoreFrame, Deliver
    <2>2. \A b, f : In(b, f)' <=> In(b, f)
      BY <2>1, UnchangedStays, StaysIn
    <2>3. ASSUME NEW u \in Transfers, Awaits(u)
          PROVE  Awaits(u)'
      <3>1. /\ spc[u] = "meta" => Head(down) # MetaAck(u)
            /\ spc[u] = "chunk" => Head(down) # ChunkAck(u, idx[u] + 1)
        BY <2>1 DEF Awaited, AwaitedMeta, AwaitedChunk, MetaAck, ChunkAck
      <3>2. /\ spc[u] = "meta" /\ InDown(MetaAck(u)) => InDown(MetaAck(u))'
            /\ spc[u] = "chunk" /\ InDown(ChunkAck(u, idx[u] + 1)) =>
                 InDown(ChunkAck(u, idx[u] + 1))'
        <4>1. PICK f : f = ChunkAck(u, idx[u] + 1)
          OBVIOUS
        <4>2. spc[u] = "chunk" /\ InDown(f) => InDown(f)'
          BY <1>0, <2>1, <3>1, <4>1, DeliverKeeps
        <4> QED
          BY <1>0, <1>1, <2>1, <3>1, <4>1, <4>2, DeliverKeeps DEF InDown
      <3>3. /\ MetaOut(u)' <=> MetaOut(u)
            /\ Home(u)' <=> Home(u)
        BY <1>1, <2>1, <2>2 DEF MetaOut, Home
      <3>4. In(1, Chunk(u, idx[u] + 1))' <=> In(1, Chunk(u, idx[u] + 1))
        <4>1. PICK f : f = Chunk(u, idx[u] + 1)
          OBVIOUS
        <4> QED
          BY <1>1, <2>2, <4>1 DEF In
      <3> QED
        BY <1>1, <2>3, <3>2, <3>3, <3>4 DEF Awaits
    <2> QED
      BY <2>1, <2>3 DEF Served, OneConn
  <1> QED
    BY <1>2, <1>3, <1>4, <1>5 DEF SocketMoves

\* The META of the running call t is acknowledged.
Settled(t) ==
  Sending(t) /\ Home(t) /\ (spc[t] = "meta" => InDown(MetaAck(t)))

\* A step of the server that brings what a call waits for nearer to it.
LEMMA ServedMoves ==
  ASSUME TypeInv, GoLine, Served, UNCHANGED <<spc, idx, link, conn, drops>>,
         \A f : InDown(f) => InDown(f)',
         drops = 0 => \A t \in Transfers : Awaits(t) =>
           /\ spc[t] = "meta" /\ MetaOut(t) =>
                MetaOut(t)' \/ (InDown(MetaAck(t)) /\ Home(t))'
           /\ Settled(t) => Home(t)'
           /\ spc[t] = "chunk" /\ In(1, Chunk(t, idx[t] + 1)) =>
                \/ In(1, Chunk(t, idx[t] + 1))'
                \/ InDown(ChunkAck(t, idx[t] + 1))'
  PROVE  Served'
  <1> SUFFICES ASSUME drops = 0
               PROVE  OneConn' /\ \A t \in Transfers : Awaits(t)'
    BY DEF Served
  <1>1. OneConn /\ \A t \in Transfers : Awaits(t)
    BY ServedTypes
  <1>2. ASSUME NEW t \in Transfers
        PROVE  Awaits(t)'
    <2>1. Awaits(t)
      BY <1>1
    <2>2. PICK f : f = ChunkAck(t, idx[t] + 1)
      OBVIOUS
    <2>3. InDown(ChunkAck(t, idx[t] + 1)) => InDown(ChunkAck(t, idx[t] + 1))'
      BY <2>2 DEF InDown
    <2>4. InDown(MetaAck(t)) => InDown(MetaAck(t))'
      OBVIOUS
    <2> QED
      BY <2>1, <2>3, <2>4 DEF Awaits, Settled, Sending
  <1> QED
    BY <1>1, <1>2 DEF OneConn

\* A handler that answers the frame it takes, if a call waits for that, and
\* leaves the connection to the call that has it.
LEMMA ServedTake ==
  ASSUME TypeInv, GoLine, Served, NEW c \in Conns, NEW kind, Take(c, kind),
         UNCHANGED drops, creating \subseteq creating',
         \A f : InDown(f) => InDown(f)',
         drops = 0 => \A t \in Transfers : Awaits(t) =>
           /\ Head(up[c]) = Meta(t) => MetaOut(t)'
           /\ Settled(t) => Home(t)'
           /\ spc[t] = "chunk" /\ Head(up[c]) = Chunk(t, idx[t] + 1) =>
                InDown(ChunkAck(t, idx[t] + 1))'
  PROVE  Served'
  <1>0. PhoneTypeOK
    BY GoTypes
  <1>1. UNCHANGED <<spc, idx, link, conn, drops>>
    BY DEF Take, TakeFrame
  <1>2. PICK g : g = Head(up[c])
    OBVIOUS
  <1>3. \A b, f : In(b, f) => In(b, f)' \/ f = g
    BY <1>0, <1>2, TakeKeeps
  <1>4. ASSUME drops = 0, NEW t \in Transfers, Awaits(t)
        PROVE  /\ MetaOut(t) => MetaOut(t)'
               /\ spc[t] = "chunk" /\ In(1, Chunk(t, idx[t] + 1)) =>
                    \/ In(1, Chunk(t, idx[t] + 1))'
                    \/ InDown(ChunkAck(t, idx[t] + 1))'
    <2>1. MetaOut(t) => MetaOut(t)'
      BY <1>2, <1>3, <1>4 DEF MetaOut
    <2>2. PICK f : f = Chunk(t, idx[t] + 1)
      OBVIOUS
    <2>3. In(1, f) => In(1, f)' \/ f = g
      BY <1>3
    <2>4. In(1, f)' => In(1, Chunk(t, idx[t] + 1))'
      BY <1>1, <2>2 DEF In
    <2> QED
      BY <1>2, <1>4, <2>1, <2>2, <2>3, <2>4
  <1> QED
    BY <1>1, <1>4, ServedMoves

\* A running call that has its connection has no other call's frame there.
LEMMA HomeAlone ==
  ASSUME TypeInv, GoLine, Served, drops = 0, NEW t \in Transfers,
         Settled(t)
  PROVE  /\ \A f : In(1, f) => f = Auth \/ f = Chunk(t, idx[t] + 1)
         /\ \A h \in creating : h.c # 1
         /\ stream[t] # "none"
  <1>1. conn = 1 /\ 1 \in Conns
    BY ServedTypes DEF Settled, Home
  <1>2. CASE spc[t] \in {"reading", "chunk"}
    BY <1>1, <1>2 DEF GoLine, InLine, Quiet, OwnsInv, Owns
  <1>3. CASE spc[t] = "meta"
    <2>1. PICK f : f = MetaAck(t)
      OBVIOUS
    <2>2. InDown(f) /\ f.kind = "metaAck" /\ f.t = t
      BY <1>3, <2>1 DEF MetaAck, Settled
    <2> QED
      BY <1>1, <1>3, <2>2 DEF GoLine, InLine, Acks, OwnsInv, Owns
  <1> QED
    BY <1>2, <1>3 DEF Settled, Sending

\* Every handler and continuation of the server does.
LEMMA ServedServer ==
  ASSUME TypeInv, GoLine, Served, AuthPrecedesFrames, GoReceiveStep
  PROVE  Served'
  <1>0. PhoneTypeOK /\ idx \in [Transfers -> Nat] /\ NONE \notin Transfers
    BY GoTypes, LineTypes
  <1>1. ASSUME NEW c \in Conns, NEW kind, Take(c, kind), drops = 0
        PROVE  /\ c = 1 /\ conn = 1 /\ link = "up" /\ UNCHANGED link
               /\ kind # "auth" => c \in authed
               /\ \A t \in Transfers : Settled(t) => kind \in {"auth", "chunk"}
    <2>1. PICK f : f = Head(up[c]) /\ f.kind = kind /\ In(c, f) /\ c <= conn
      BY <1>1, GoTypes, TakeCalm DEF GoLine
    <2>2. c = 1 /\ conn = 1 /\ link = "up"
      BY <1>1, <2>1, ServedTypes
    <2>3. kind # "auth" => c \in authed
      BY <1>1, <2>1 DEF AuthPrecedesFrames, Take, TakeFrame
    <2>4. ASSUME NEW t \in Transfers, Settled(t)
          PROVE  kind \in {"auth", "chunk"}
      <3>1. f = Auth \/ f = Chunk(t, idx[t] + 1)
        BY <1>1, <2>1, <2>2, <2>4, HomeAlone
      <3> QED
        BY <2>1, <3>1 DEF Auth, Chunk
    <2> QED
      BY <1>1, <2>2, <2>3, <2>4 DEF Take, TakeFrame
  <1>2. ASSUME NEW c \in Conns, GoAuth(c)
        PROVE  Served'
    <2>1. /\ Take(c, "auth") /\ UNCHANGED <<drops, down, active, creating>>
          /\ UNCHANGED link
      BY <1>2 DEF GoAuth, Read, Take, TakeFrame
    <2>2. Head(up[c]).kind = "auth"
      BY <2>1 DEF Take, TakeFrame
    <2>3. \A t, k : Head(up[c]) # Meta(t) /\ Head(up[c]) # Chunk(t, k)
      BY <2>2 DEF Meta, Chunk
    <2>4. /\ \A t : Settled(t) => Home(t)'
          /\ \A f : InDown(f) => InDown(f)'
      BY <2>1 DEF Settled, Home, InDown
    <2> QED
      BY <2>1, <2>3, <2>4, ServedTake
  <1>3. ASSUME NEW c \in Conns, GoMeta(c)
        PROVE  Served'
    <2>1. /\ Take(c, "meta") /\ UNCHANGED <<drops, down, active>>
          /\ UNCHANGED link
      BY <1>3 DEF GoMeta, Read, Take, TakeFrame, receiverVars
    <2>2. Head(up[c]).kind = "meta"
      BY <2>1 DEF Take, TakeFrame
    <2>3. \A t, k : Head(up[c]) # Chunk(t, k)
      BY <2>2 DEF Chunk
    <2>4. PICK h : h = [t |-> Head(up[c]).t, c |-> c, n |-> 0,
                        free |-> FALSE]
      OBVIOUS
    <2>5. /\ creating \subseteq creating'
          /\ drops = 0 => h \in creating'
      BY <1>1, <1>3, <2>1, <2>4 DEF GoMeta
    <2>6. ASSUME drops = 0, NEW t \in Transfers, Head(up[c]) = Meta(t)
          PROVE  MetaOut(t)'
      BY <2>4, <2>5, <2>6 DEF MetaOut, Meta
    <2>7. /\ \A t : Settled(t) => Home(t)'
          /\ \A f : InDown(f) => InDown(f)'
      BY <2>1 DEF Settled, Home, InDown
    <2> QED
      BY <2>1, <2>3, <2>5, <2>6, <2>7, ServedTake
  <1>4. ASSUME NEW c \in Conns, GoDropChunk(c)
        PROVE  Served'
    <2>1. /\ Take(c, "chunk") /\ UNCHANGED <<drops, down, active, creating>>
          /\ UNCHANGED link
          /\ ~ (c \in authed /\ active[c] \in {t \in Transfers :
                                                 stream[t] = "open"})
      BY <1>4
      DEF GoDropChunk, Read, Take, TakeFrame, goVars, receiverVars
    <2>2. Head(up[c]).kind = "chunk"
      BY <2>1 DEF Take, TakeFrame
    <2>3. \A t : Head(up[c]) # Meta(t)
      BY <2>2 DEF Meta
    <2>4. ASSUME NEW t \in Transfers, drops = 0, Awaits(t), spc[t] = "chunk"
          PROVE  FALSE
      <3>1. active[c] = t /\ c \in authed
        BY <1>1, <2>1, <2>4 DEF Awaits, Home
      <3>2. stream[t] = "open"
        BY <2>4 DEF GoLine, InLine, Quiet
      <3> QED
        BY <2>1, <3>1, <3>2
    <2>5. /\ \A t : Settled(t) => Home(t)'
          /\ \A f : InDown(f) => InDown(f)'
      BY <2>1 DEF Settled, Home, InDown
    <2> QED
      BY <2>1, <2>3, <2>4, <2>5, ServedTake
  <1>5. ASSUME NEW c \in Conns, GoWriteChunk(c)
        PROVE  Served'
    <2>1. PICK u \in Transfers :
            /\ active[c] = u /\ stream[u] = "open" /\ Write(c, u)
            /\ Reply(c, <<ChunkAck(u, Received(u) + 1)>>)
      BY <1>5 DEF GoWriteChunk
    <2>2. /\ Take(c, "chunk") /\ UNCHANGED <<drops, active, creating>>
          /\ UNCHANGED link
      BY <1>5 DEF GoWriteChunk, Read, Take, TakeFrame
    <2>3. Head(up[c]).kind = "chunk"
      BY <2>2 DEF Take, TakeFrame
    <2>4. \A t : Head(up[c]) # Meta(t)
      BY <2>3 DEF Meta
    <2>5. PICK g : g = ChunkAck(u, Received(u) + 1)
      OBVIOUS
    <2>6. g \in Frames
      BY <2>5, GoTypes, FrameTypes
    <2>7. /\ \A f : InDown(f) => InDown(f)'
          /\ c = conn /\ link = "up" => InDown(g)'
      BY <1>0, <2>1, <2>5, <2>6, ReplyKeeps
    <2>8. ASSUME NEW t \in Transfers, drops = 0, Awaits(t), spc[t] = "chunk",
                 Head(up[c]) = Chunk(t, idx[t] + 1)
          PROVE  InDown(ChunkAck(t, idx[t] + 1))'
      <3>1. active[1] = t /\ c = 1 /\ conn = 1 /\ link = "up"
        BY <1>1, <2>2, <2>8 DEF Awaits, Home
      <3>2. u = t /\ InDown(g)'
        BY <2>1, <2>7, <3>1
      <3>3. In(1, Chunk(t, idx[t] + 1))
        BY <2>2, <2>8, <3>1, GoTypes, TakeCalm DEF GoLine
      <3>4. written[t] = OwnPrefix(t, idx[t])
        <4>1. PICK k \in Nat : k = idx[t] + 1
          BY <1>0
        <4> QED
          BY <2>8, <3>3, <4>1 DEF GoLine, InLine, ChunksInv
      <3>5. Received(t) = idx[t]
        BY <1>0, <3>4, PrefixLen DEF Received
      <3>6. g = ChunkAck(t, idx[t] + 1) /\ UNCHANGED idx
        BY <2>2, <2>5, <3>2, <3>5 DEF Take
      <3> QED
        BY <3>2, <3>6 DEF InDown
    <2>9. \A t : Settled(t) => Home(t)'
      BY <2>2 DEF Settled, Home
    <2> QED
      BY <2>2, <2>4, <2>7, <2>8, <2>9, ServedTake
  <1>6. ASSUME NEW c \in Conns, GoEnd(c)
        PROVE  Served'
    <2>1. Take(c, "end") /\ UNCHANGED <<drops, creating>>
      BY <1>6 DEF GoEnd, Read, Take, TakeFrame
    <2>2. Head(up[c]).kind = "end" /\ Head(up[c]).t \in Transfers
      BY <1>6, ReadType DEF GoEnd, Read, Take, TakeFrame
    <2>3. \A t, k : Head(up[c]) # Meta(t) /\ Head(up[c]) # Chunk(t, k)
      BY <2>2 DEF Meta, Chunk
    <2>4. \A f : InDown(f) => InDown(f)'
      <3>1. CASE UNCHANGED down
        BY <3>1 DEF InDown
      <3>2. CASE Reply(c, <<EndAck(Head(up[c]).t)>>)
        BY <1>0, <2>2, <3>2, FrameTypes, ReplyKeeps
      <3> QED
        BY <1>6, <3>1, <3>2 DEF GoEnd
    <2>5. \A t \in Transfers : drops = 0 => ~ Settled(t)
      BY <1>1, <2>1
    <2> QED
      BY <2>1, <2>3, <2>4, <2>5, ServedTake
  <1>7. ASSUME NEW h \in creating, Stats(h)
        PROVE  Served'
    <2>1. /\ UNCHANGED <<spc, idx, link, conn, drops, active, down>>
          /\ UNCHANGED <<pending, up>>
      BY <1>7 DEF Stats, PhoneRests, receiverVars
    <2>2. PICK g \in CreateCalls : /\ g.t = h.t
                                  /\ creating' = (creating \ {h}) \cup {g}
      BY <1>7 DEF Stats
    <2>3. creating' = (creating \ {h}) \cup {g} /\ g.t = h.t
      BY <2>2
    <2>4. \A b, f : In(b, f) <=> In(b, f)'
      BY <2>1, UnchangedStays, StaysIn
    <2>5. \A t : MetaOut(t) => MetaOut(t)'
      BY <2>3, <2>4 DEF MetaOut
    <2>6. \A t : In(1, Chunk(t, idx[t] + 1)) => In(1, Chunk(t, idx[t] + 1))'
      BY <2>1 DEF In, Has, At, Box
    <2>7. \A t : Settled(t) => Home(t)'
      BY <2>1 DEF Settled, Home
    <2> QED
      BY <2>1, <2>5, <2>6, <2>7, ServedMoves DEF InDown
  <1>8. ASSUME NEW h \in creating, CreateAndRegister(h)
        PROVE  Served'
    <2>0. h.t \in Transfers /\ h.c \in Conns /\ h.c <= conn
      BY <1>8, GoTypes DEF GoLine, CreatingInv, CallInv
    <2>1. /\ UNCHANGED <<spc, idx, link, conn, drops>>
          /\ UNCHANGED <<pending, up>>
          /\ active' = [active EXCEPT ![h.c] = h.t]
          /\ creating' = creating \ {h}
          /\ Reply(h.c, <<MetaAck(h.t)>>)
      BY <1>8 DEF CreateAndRegister, Working
    <2>2. /\ \A f : InDown(f) => InDown(f)'
          /\ h.c = conn /\ link = "up" => InDown(MetaAck(h.t))'
      BY <1>0, <2>0, <2>1, FrameTypes, ReplyKeeps
    <2>3. drops = 0 => h.c = 1 /\ conn = 1 /\ link = "up"
      BY <2>0, ServedTypes
    <2>4. drops = 0 => InDown(MetaAck(h.t))' /\ Home(h.t)'
      BY <2>0, <2>1, <2>2, <2>3, GoTypes DEF Home, ReceiverTypeOK
    <2>5. \A b, f : In(b, f) <=> In(b, f)'
      BY <2>1, UnchangedStays, StaysIn
    <2>6. \A t : t # h.t => (MetaOut(t) => MetaOut(t)')
      BY <2>1, <2>5 DEF MetaOut
    <2>7. \A t : In(1, Chunk(t, idx[t] + 1)) => In(1, Chunk(t, idx[t] + 1))'
      BY <2>1 DEF In, Has, At, Box
    <2>8. \A t \in Transfers : drops = 0 => ~ Settled(t)
      BY <2>3, HomeAlone
    <2>9. ASSUME drops = 0, NEW t \in Transfers, MetaOut(t)
          PROVE  MetaOut(t)' \/ (InDown(MetaAck(t)) /\ Home(t))'
      BY <2>4, <2>6, <2>9
    <2> QED
      BY <2>1, <2>2, <2>7, <2>8, <2>9, ServedMoves
  <1> QED
    BY <1>2, <1>3, <1>4, <1>5, <1>6, <1>7, <1>8, StatSteps
    DEF GoReceiveStep, GoHandler

\* Every step of the system does.
LEMMA ServedStep ==
  ASSUME ~ Overlap, TypeInv, GoLine, AuthPrecedesFrames, Served, [Next]_vars
  PROVE  Served'
  <1>1. CASE \E t \in Transfers : PhoneStep(t)
    BY <1>1, ServedPhone DEF PhoneStep, PhoneMoves, goVars
  <1>2. CASE SocketStep
    BY <1>2, ServedSocket DEF SocketStep, SocketMoves, goVars
  <1>3. CASE GoReceiveStep
    BY <1>3, ServedServer
  <1>4. CASE UNCHANGED vars
    <2>1. UNCHANGED <<spc, idx, link, conn, drops, pending, up, down>>
          /\ UNCHANGED <<active, creating>>
      BY <1>4 DEF vars, phoneVars, socketVars, goVars, receiverVars
    <2> QED
      BY <2>1
      DEF Served, OneConn, Awaits, MetaOut, Home, In, InDown, Has, At, Box
  <1> QED
    BY <1>1, <1>2, <1>3, <1>4 DEF Next

\* Of sends that do not overlap: while no connection has broken, what a call
\* waits for is on its way, although calls have given up and their handlers
\* are still at work: no handler of the Go server drops a frame of a later
\* call, or takes its connection away.  (The Node server's do.)
THEOREM GoNoStranded == ~ Overlap => (Spec => []NoStrandedSend)
  <1> SUFFICES ASSUME ~ Overlap
               PROVE  Spec => []NoStrandedSend
    OBVIOUS
  <1>1. Init => Served
    BY DEF Init, PhoneInit, SocketInit, Served, OneConn, Awaits
  <1>2. /\ TypeInv /\ GoLine /\ AuthPrecedesFrames /\ Served /\ [Next]_vars
        => Served'
    BY ServedStep
  <1>3. TypeInv /\ GoLine /\ Served => NoStrandedSend
    <2> SUFFICES ASSUME TypeInv, GoLine, Served, drops = 0,
                        NEW t \in Transfers
                 PROVE  AnswerInChannels(t) \/ \E h \in creating : h.t = t
      BY DEF NoStrandedSend
    <2>1. /\ Awaits(t) /\ PhoneTypeOK
          /\ spc[t] = "chunk" => 1 \in Conns
      BY ServedTypes, GoTypes DEF Awaits, Home
    <2>2. \A b, f : In(b, f) =>
            IF b = 0 THEN InFlight(pending, f)
            ELSE b \in Conns /\ InFlight(up[b], f)
      BY <2>1, InType DEF In, Has, At, Box, Boxes, InFlight
    <2>3. \A f : InDown(f) => InFlight(down, f)
      BY DEF InDown, InFlight
    <2>4. CASE spc[t] = "meta"
      BY <2>1, <2>2, <2>3, <2>4 DEF Awaits, MetaOut, AnswerInChannels
    <2>5. CASE spc[t] = "chunk"
      <3>1. PICK f : f = Chunk(t, idx[t] + 1)
        OBVIOUS
      <3>2. In(1, f) => \E c \in Conns : InFlight(up[c], f)
        BY <2>2
      <3>3. PICK g : g = ChunkAck(t, idx[t] + 1)
        OBVIOUS
      <3>4. InDown(g) => InFlight(down, g)
        BY <2>3
      <3> QED
        BY <2>1, <2>5, <3>1, <3>2, <3>3, <3>4 DEF Awaits, AnswerInChannels
    <2>6. CASE spc[t] \notin {"meta", "chunk"}
      BY <2>6 DEF AnswerInChannels
    <2> QED
      BY <2>4, <2>5, <2>6
  <1>4. Spec => [](TypeInv /\ GoLine)
    BY GoOneSend
  <1>5. Spec => []AuthPrecedesFrames
    BY AuthFirst
  <1> QED
    BY <1>1, <1>2, <1>3, <1>4, <1>5, PTL DEF Spec
=============================================================================
