--------------------------- MODULE Sending_proofs ---------------------------
(***************************************************************************)
(* What holds of a phone that sends files, whichever server receives them: *)
(* lemmas about the phone's steps, and about the effects a server's step   *)
(* may have on what the two share.  PhoneToNode_proofs and PhoneToGo_proofs*)
(* show that the steps of their server have no other effects.              *)
(*                                                                         *)
(* The first half holds however many calls run at a time.  The second is   *)
(* about calls of sendFile that start only once the one before has         *)
(* returned or thrown (Overlap FALSE), and its invariant is InLine.        *)
(***************************************************************************)
EXTENDS Receiver, SequenceTheorems, TLAPS

USE DEF Conns, SocketTypes

\* That idx never passes NumChunks rests on where each call stands.
IdxInv ==
  \A t \in Transfers :
    /\ spc[t] = "meta" => idx[t] = 0
    /\ spc[t] \in {"reading", "chunk"} => idx[t] < NumChunks[t]

IdleInv == \A t \in Transfers : spc[t] = "idle" => idx[t] = 0

PhoneInv == PhoneTypeOK /\ IdxBounded /\ IdxInv /\ IdleInv

\* The steps of the phone's calls, and those of its socket.
PhoneMoves(t) ==
  \/ StartSend(t) \/ SendChunk(t) \/ ReadFails(t) \/ Timeout(t)
  \/ MetaAcked(t) \/ ChunkAcked(t)
SocketMoves ==
  /\ Connect \/ Drop \/ NoticeClose \/ IgnoreFrame
  /\ UNCHANGED <<spc, idx>>
\* What a continuation of the server leaves alone.
PhoneRests == UNCHANGED <<spc, idx, link, conn, drops, pending, up>>

----------------------------------------------------------------------------
(* Frames and channels. *)

\* Every frame the protocol builds is a frame.
LEMMA FrameTypes ==
  /\ Auth \in Frames
  /\ \A t \in Transfers :
       /\ Meta(t) \in Frames
       /\ End(t) \in Frames
       /\ MetaAck(t) \in Frames
       /\ EndAck(t) \in Frames
       /\ \A k \in Nat : Chunk(t, k) \in Frames /\ ChunkAck(t, k) \in Frames
  BY DEF Frames, Auth, Meta, End, MetaAck, EndAck, Chunk, ChunkAck

\* A frame that is not AUTH names a transfer, and AUTH is of its own kind.
LEMMA FrameFields ==
  ASSUME NEW f \in Frames, f.kind # "auth"
  PROVE  f.t \in Transfers /\ f.k \in Nat
  BY DEF Frames, Auth

\* _send and sendBinary keep the queue and the channels sequences of frames.
LEMMA SendType ==
  ASSUME PhoneTypeOK, NEW f \in Frames, Send(f)
  PROVE  /\ pending' \in Seq(Frames)
         /\ up' \in [Conns -> Seq(Frames)]
  <1>1. CASE link = "up"
    <2>1. up[conn] \in Seq(Frames)
      BY <1>1 DEF PhoneTypeOK
    <2>2. Append(up[conn], f) \in Seq(Frames)
      BY <2>1, AppendProperties
    <2> QED
      BY <1>1, <2>2 DEF Send, PhoneTypeOK
  <1>2. CASE link = "dead"
    BY <1>2 DEF Send, PhoneTypeOK
  <1>3. CASE link = "down"
    <2>1. Append(pending, f) \in Seq(Frames)
      BY AppendProperties DEF PhoneTypeOK
    <2> QED
      BY <1>3, <2>1 DEF Send, PhoneTypeOK
  <1>4. link \in {"up", "dead", "down"}
    BY DEF PhoneTypeOK
  <1> QED
    BY <1>1, <1>2, <1>3, <1>4

\* sendBinary does, too.
LEMMA SendBinaryType ==
  ASSUME PhoneTypeOK, NEW f \in Frames, SendBinary(f)
  PROVE  /\ pending' \in Seq(Frames)
         /\ up' \in [Conns -> Seq(Frames)]
  <1>1. CASE link = "up"
    <2>1. up[conn] \in Seq(Frames)
      BY <1>1 DEF PhoneTypeOK
    <2>2. Append(up[conn], f) \in Seq(Frames)
      BY <2>1, AppendProperties
    <2> QED
      BY <1>1, <2>2 DEF SendBinary, PhoneTypeOK
  <1> QED
    BY <1>1 DEF SendBinary, PhoneTypeOK

\* So does a reply of the server.
LEMMA ReplyType ==
  ASSUME PhoneTypeOK, NEW c, NEW fs \in Seq(Frames), Reply(c, fs)
  PROVE  down' \in Seq(Frames)
  BY DEF Reply, PhoneTypeOK

\* A handler takes one frame off its connection and leaves the phone alone.
LEMMA TakeType ==
  ASSUME PhoneInv, NEW c \in Conns, NEW kind, Take(c, kind),
         down' \in Seq(Frames)
  PROVE  /\ PhoneInv'
         /\ up[c] # <<>> /\ Head(up[c]) \in Frames
         /\ Head(up[c]).kind = kind
  <1>1. up[c] \in Seq(Frames) /\ up[c] # <<>>
    BY DEF PhoneInv, PhoneTypeOK, Take, TakeFrame
  <1>2. Head(up[c]) \in Frames /\ Tail(up[c]) \in Seq(Frames)
    BY <1>1, HeadTailProperties
  <1>3. up' \in [Conns -> Seq(Frames)]
    BY <1>2 DEF Take, TakeFrame, PhoneInv, PhoneTypeOK
  <1> QED
    BY <1>2, <1>3
    DEF Take, TakeFrame, PhoneInv, PhoneTypeOK, IdxInv, IdleInv,
        IdxBounded

\* A continuation of the server leaves the phone alone.
LEMMA RestType ==
  ASSUME PhoneInv, PhoneRests, down' \in Seq(Frames)
  PROVE  PhoneInv'
  BY DEF PhoneRests, PhoneInv, PhoneTypeOK, IdxInv, IdleInv, IdxBounded

----------------------------------------------------------------------------
(* The phone's steps. *)

\* A step of one call that puts it in a state fitting its count of ACKs.
LEMMA PhoneUpdate ==
  ASSUME PhoneInv, NEW t \in Transfers, NEW s \in SendStates,
         NEW n \in 0 .. NumChunks[t],
         spc' = [spc EXCEPT ![t] = s],
         idx' = [idx EXCEPT ![t] = n],
         s \in {"idle", "meta"} => n = 0,
         s \in {"reading", "chunk"} => n < NumChunks[t],
         pending' \in Seq(Frames), up' \in [Conns -> Seq(Frames)],
         down' \in Seq(Frames), UNCHANGED <<link, conn, drops>>
  PROVE  PhoneInv'
  <1>2. PhoneTypeOK'
    BY PhoneAssumption DEF PhoneInv, PhoneTypeOK
  <1>3. \A u \in Transfers : idx'[u] <= NumChunks[u]
    BY PhoneAssumption DEF PhoneInv, PhoneTypeOK, IdxBounded
  <1>4. IdxInv' /\ IdleInv'
    BY DEF PhoneInv, PhoneTypeOK, IdxInv, IdleInv, IdxBounded
  <1> QED
    BY <1>2, <1>3, <1>4 DEF PhoneInv, IdxBounded

\* Proceed: reading the next chunk, or FILE_END after the last one.
LEMMA ProceedType ==
  ASSUME PhoneInv, NEW t \in Transfers, NEW n \in 0 .. NumChunks[t],
         Proceed(t, n), idx' = [idx EXCEPT ![t] = n],
         down' \in Seq(Frames), UNCHANGED <<link, conn, drops>>
  PROVE  PhoneInv'
  <1>0. PhoneTypeOK
    BY DEF PhoneInv
  <1>1. CASE n < NumChunks[t]
    <2>1. spc' = [spc EXCEPT ![t] = "reading"] /\ UNCHANGED <<up, pending>>
      BY <1>1, PhoneAssumption DEF Proceed
    <2> QED
      BY <1>0, <1>1, <2>1, PhoneUpdate DEF SendStates, PhoneTypeOK
  <1>2. CASE n >= NumChunks[t]
    <2>1. spc' = [spc EXCEPT ![t] = "done"] /\ Send(End(t))
      BY <1>2, PhoneAssumption DEF Proceed
    <2>2. pending' \in Seq(Frames) /\ up' \in [Conns -> Seq(Frames)]
      BY <1>0, <2>1, FrameTypes, SendType
    <2> QED
      BY <2>1, <2>2, PhoneUpdate DEF SendStates
  <1> QED
    BY <1>1, <1>2, PhoneAssumption

\* The call sends its META.
LEMMA StartSendType ==
  ASSUME PhoneInv, NEW t \in Transfers, StartSend(t)
  PROVE  PhoneInv'
  <1>1. PhoneTypeOK /\ idx[t] = 0
    BY DEF PhoneInv, IdleInv, StartSend, PicksFile
  <1>2. pending' \in Seq(Frames) /\ up' \in [Conns -> Seq(Frames)]
    BY <1>1, FrameTypes, SendType DEF StartSend
  <1>3. idx' = [idx EXCEPT ![t] = 0] /\ down' \in Seq(Frames)
    BY <1>1 DEF StartSend, PhoneTypeOK
  <1>4. 0 \in 0 .. NumChunks[t] /\ "meta" \in SendStates
    BY PhoneAssumption DEF SendStates
  <1>5. spc' = [spc EXCEPT ![t] = "meta"] /\ UNCHANGED <<link, conn, drops>>
    BY DEF StartSend
  <1> QED
    BY <1>2, <1>3, <1>4, <1>5, PhoneUpdate

\* The call sends a chunk.
LEMMA SendChunkType ==
  ASSUME PhoneInv, NEW t \in Transfers, SendChunk(t)
  PROVE  PhoneInv'
  <1>1. PhoneTypeOK /\ idx[t] \in Nat /\ idx[t] < NumChunks[t]
    BY DEF PhoneInv, PhoneTypeOK, IdxInv, SendChunk
  <1>2. Chunk(t, idx[t] + 1) \in Frames
    BY <1>1, FrameTypes
  <1>3. pending' \in Seq(Frames) /\ up' \in [Conns -> Seq(Frames)]
    BY <1>1, <1>2, SendBinaryType DEF SendChunk
  <1>4. idx' = [idx EXCEPT ![t] = idx[t]] /\ down' \in Seq(Frames)
    BY <1>1 DEF SendChunk, PhoneTypeOK
  <1>5. idx[t] \in 0 .. NumChunks[t] /\ "chunk" \in SendStates
    BY <1>1, PhoneAssumption DEF SendStates
  <1>6. spc' = [spc EXCEPT ![t] = "chunk"] /\ UNCHANGED <<link, conn, drops>>
    BY DEF SendChunk
  <1> QED
    BY <1>1, <1>3, <1>4, <1>5, <1>6, PhoneUpdate

\* A call that throws: its timer fired, or its read was rejected.
LEMMA FailType ==
  ASSUME PhoneInv, NEW t \in Transfers, Timeout(t) \/ ReadFails(t)
  PROVE  PhoneInv'
  <1>1. PhoneTypeOK /\ idx[t] \in 0 .. NumChunks[t]
    BY PhoneAssumption DEF PhoneInv, PhoneTypeOK, IdxBounded
  <1>2. /\ idx' = [idx EXCEPT ![t] = idx[t]]
        /\ spc' = [spc EXCEPT ![t] = "failed"]
    BY <1>1 DEF Timeout, ReadFails, PhoneTypeOK
  <1>3. UNCHANGED <<link, conn, drops, pending, up, down>>
    BY DEF Timeout, ReadFails
  <1> QED
    BY <1>1, <1>2, <1>3, PhoneUpdate DEF SendStates, PhoneTypeOK

\* The call accepts an ACK.
LEMMA AckedType ==
  ASSUME PhoneInv, NEW t \in Transfers, MetaAcked(t) \/ ChunkAcked(t)
  PROVE  PhoneInv'
  <1>1. PhoneTypeOK /\ idx[t] \in 0 .. NumChunks[t] /\ NumChunks[t] \in Nat
    BY PhoneAssumption DEF PhoneInv, PhoneTypeOK, IdxBounded
  <1>2. down' \in Seq(Frames) /\ UNCHANGED <<link, conn, drops>>
    <2>1. down \in Seq(Frames) /\ down # <<>> /\ down' = Tail(down)
      BY <1>1 DEF MetaAcked, ChunkAcked, Deliver, PhoneTypeOK
    <2> QED
      BY <2>1, HeadTailProperties DEF MetaAcked, ChunkAcked, Deliver
  <1>3. CASE MetaAcked(t)
    <2>1. idx[t] = 0 /\ Proceed(t, 0)
      BY <1>3 DEF MetaAcked, AwaitedMeta, PhoneInv, IdxInv
    <2>2. idx' = [idx EXCEPT ![t] = 0]
      BY <1>1, <1>3, <2>1 DEF MetaAcked, PhoneTypeOK
    <2> QED
      BY <1>1, <1>2, <2>1, <2>2, ProceedType
  <1>4. CASE ChunkAcked(t)
    <2>1. idx[t] < NumChunks[t] /\ Proceed(t, idx[t] + 1)
      BY <1>4 DEF ChunkAcked, AwaitedChunk, PhoneInv, IdxInv
    <2>2. idx' = [idx EXCEPT ![t] = idx[t] + 1]
      BY <1>4 DEF ChunkAcked
    <2>3. idx[t] + 1 \in 0 .. NumChunks[t]
      BY <1>1, <2>1
    <2> QED
      BY <1>2, <2>1, <2>2, <2>3, ProceedType
  <1> QED
    BY <1>3, <1>4

\* The socket keeps its types, and what it carries.
LEMMA SocketType ==
  ASSUME PhoneInv, SocketMoves
  PROVE  PhoneInv'
  <1>0. PhoneTypeOK
    BY DEF PhoneInv
  <1>1. UNCHANGED <<spc, idx>>
    BY DEF SocketMoves
  <1>2. PhoneTypeOK'
    <2>1. CASE Connect
      <3>1. <<Auth>> \o pending \in Seq(Frames)
        <4>1. <<Auth>> \in Seq(Frames)
          BY FrameTypes
        <4> QED
          BY <1>0, <4>1, ConcatProperties DEF PhoneTypeOK
      <3>2. conn + 1 \in Conns
        BY <1>0, <2>1, SocketAssumption DEF Connect, PhoneTypeOK
      <3> QED
        BY <1>0, <1>1, <2>1, <3>1, <3>2 DEF Connect, PhoneTypeOK
    <2>2. CASE Drop
      <3>1. conn \in Conns /\ up[conn] \in Seq(Frames) /\ down \in Seq(Frames)
        BY <1>0, <2>2 DEF Drop, PhoneTypeOK
      <3>2. \A s \in Seq(Frames) : \A n \in 0 .. Len(s) :
              SubSeq(s, 1, n) \in Seq(Frames)
        BY SubSeqProperties, LenProperties
      <3>3. up' \in [Conns -> Seq(Frames)]
        <4>1. PICK n \in 0 .. Len(up[conn]) :
                up' = [up EXCEPT ![conn] = SubSeq(@, 1, n)]
          BY <2>2 DEF Drop
        <4>2. SubSeq(up[conn], 1, n) \in Seq(Frames)
          BY <3>1, <3>2
        <4> QED
          BY <1>0, <4>1, <4>2 DEF PhoneTypeOK
      <3>4. down' \in Seq(Frames)
        BY <2>2, <3>1, <3>2 DEF Drop
      <3>5. drops' \in 0 .. MaxDrops
        BY <1>0, <2>2, SocketAssumption DEF Drop, PhoneTypeOK
      <3> QED
        BY <1>0, <1>1, <2>2, <3>1, <3>3, <3>4, <3>5 DEF Drop, PhoneTypeOK
    <2>3. CASE NoticeClose
      <3>1. <<>> \in Seq(Frames)
        BY EmptySeq
      <3> QED
        BY <1>0, <1>1, <2>3, <3>1 DEF NoticeClose, PhoneTypeOK
    <2>4. CASE IgnoreFrame
      <3>1. down' \in Seq(Frames)
        BY <1>0, <2>4, HeadTailProperties DEF IgnoreFrame, Deliver, PhoneTypeOK
      <3> QED
        BY <1>0, <2>4, <3>1 DEF IgnoreFrame, Deliver, PhoneTypeOK
    <2> QED
      BY <2>1, <2>2, <2>3, <2>4 DEF SocketMoves
  <1> QED
    BY <1>0, <1>1, <1>2 DEF PhoneInv, IdxInv, IdleInv, IdxBounded

\* Every step of the phone keeps its types.
LEMMA PhoneMovesType ==
  ASSUME PhoneInv, NEW t \in Transfers, PhoneMoves(t)
  PROVE  PhoneInv'
  BY StartSendType, SendChunkType, AckedType, FailType DEF PhoneMoves

\* The phone starts with its types.
LEMMA PhoneInvInit ==
  ASSUME PhoneInit
  PROVE  PhoneInv
  <1>1. PhoneTypeOK
    BY PhoneAssumption, SocketAssumption, EmptySeq
    DEF PhoneInit, SocketInit, PhoneTypeOK, SendStates
  <1>2. IdxInv /\ IdleInv /\ IdxBounded
    BY PhoneAssumption DEF PhoneInit, IdxInv, IdleInv, IdxBounded
  <1> QED
    BY <1>1, <1>2 DEF PhoneInv

----------------------------------------------------------------------------
(* AUTH first. *)

\* A connection yet to be authenticated has AUTH in front, or has nothing to
\* deliver and never will: it is not open yet or was lost with everything on
\* it.  AuthPrecedesFrames alone says nothing of an empty channel, which the
\* next frame sent would enter first.
AuthInv ==
  \A c \in Conns :
    c \notin authed =>
      \/ up[c] # <<>> /\ Head(up[c]).kind = "auth"
      \/ up[c] = <<>> /\ (c = conn => link # "up")

\* What sending does to a channel that already starts with AUTH.
LEMMA SendKeepsHead ==
  ASSUME PhoneInv, AuthInv, NEW f \in Frames, Send(f) \/ SendBinary(f),
         UNCHANGED <<authed, conn, link>>
  PROVE  AuthInv'
  <1> SUFFICES ASSUME NEW c \in Conns, c \notin authed
               PROVE  \/ up'[c] # <<>> /\ Head(up'[c]).kind = "auth"
                      \/ up'[c] = <<>> /\ (c = conn => link # "up")
    BY DEF AuthInv
  <1>1. /\ up \in [Conns -> Seq(Frames)]
        /\ up[c] \in Seq(Frames)
        /\ link \in {"up", "dead", "down"}
    BY DEF PhoneInv, PhoneTypeOK
  <1>2. CASE UNCHANGED up
    BY <1>2 DEF AuthInv
  <1>3. CASE link = "up" /\ up' = [up EXCEPT ![conn] = Append(@, f)]
    <2>1. CASE c = conn
      <3>1. up[c] # <<>> /\ Head(up[c]).kind = "auth"
        BY <1>3, <2>1 DEF AuthInv
      <3>2. up'[c] = Append(up[c], f)
        BY <1>1, <1>3, <2>1
      <3>3. Append(up[c], f) # <<>> /\ Head(Append(up[c], f)) = Head(up[c])
        BY <1>1, <3>1, AppendProperties, LenProperties, EmptySeq
      <3> QED
        BY <3>1, <3>2, <3>3
    <2>2. CASE c # conn
      BY <1>1, <1>3, <2>2 DEF AuthInv
    <2> QED
      BY <2>1, <2>2
  <1> QED
    BY <1>1, <1>2, <1>3 DEF Send, SendBinary

\* A step that neither sends, nor receives, nor touches the socket.
LEMMA AuthInvUnchanged ==
  ASSUME AuthInv, UNCHANGED <<up, authed, conn, link>>
  PROVE  AuthInv'
  BY DEF AuthInv

\* The phone's calls only add behind it.
LEMMA PhoneKeepsAuthInv ==
  ASSUME PhoneInv, AuthInv, NEW t \in Transfers, PhoneMoves(t),
         UNCHANGED authed
  PROVE  AuthInv'
  <1>1. UNCHANGED <<authed, conn, link>>
    BY DEF PhoneMoves, StartSend, SendChunk, ReadFails, Timeout, MetaAcked,
           ChunkAcked, Deliver
  <1>2. CASE Send(Meta(t)) \/ Send(End(t))
    BY <1>1, <1>2, FrameTypes, SendKeepsHead
  <1>3. CASE SendBinary(Chunk(t, idx[t] + 1))
    <2>1. Chunk(t, idx[t] + 1) \in Frames
      BY FrameTypes DEF PhoneInv, PhoneTypeOK
    <2> QED
      BY <1>1, <1>3, <2>1, SendKeepsHead
  <1>4. CASE UNCHANGED up
    BY <1>1, <1>4, AuthInvUnchanged
  <1> QED
    BY <1>2, <1>3, <1>4
    DEF PhoneMoves, StartSend, SendChunk, ReadFails, Timeout, MetaAcked,
        ChunkAcked, Proceed

\* A new socket starts with AUTH, a broken one loses the end of its channel.
LEMMA SocketKeepsAuthInv ==
  ASSUME PhoneInv, AuthInv, SocketMoves, UNCHANGED authed
  PROVE  AuthInv'
  <1>0. PhoneTypeOK /\ UNCHANGED authed
    BY DEF PhoneInv
  <1>1. CASE Connect
    <2> SUFFICES ASSUME NEW c \in Conns, c \notin authed
                 PROVE  \/ up'[c] # <<>> /\ Head(up'[c]).kind = "auth"
                        \/ up'[c] = <<>> /\ (c = conn' => link' # "up")
      BY <1>0 DEF AuthInv
    <2>1. CASE c = conn + 1
      <3>1. <<Auth>> \in Seq(Frames) /\ pending \in Seq(Frames)
        BY <1>0, FrameTypes DEF PhoneTypeOK
      <3>2. up'[c] = <<Auth>> \o pending
        BY <1>0, <1>1, <2>1 DEF Connect, PhoneTypeOK
      <3>3. /\ Len(<<Auth>> \o pending) = 1 + Len(pending)
            /\ (<<Auth>> \o pending)[1] = Auth
            /\ <<Auth>> \o pending \in Seq(Frames)
        BY <3>1, ConcatProperties, LenProperties
      <3>4. <<Auth>> \o pending # <<>>
        BY <3>1, <3>3, LenProperties, EmptySeq
      <3>5. Head(<<Auth>> \o pending) = Auth
        BY <3>3
      <3> QED
        BY <3>2, <3>4, <3>5 DEF Auth
    <2>2. CASE c # conn + 1
      BY <1>0, <1>1, <2>2 DEF Connect, PhoneTypeOK, AuthInv
    <2> QED
      BY <2>1, <2>2
  <1>2. CASE Drop
    <2> SUFFICES ASSUME NEW c \in Conns, c \notin authed
                 PROVE  \/ up'[c] # <<>> /\ Head(up'[c]).kind = "auth"
                        \/ up'[c] = <<>> /\ (c = conn' => link' # "up")
      BY <1>0 DEF AuthInv
    <2>1. PICK n \in 0 .. Len(up[conn]) :
            up' = [up EXCEPT ![conn] = SubSeq(@, 1, n)]
      BY <1>2 DEF Drop
    <2>2. link' = "dead" /\ conn' = conn
      BY <1>2 DEF Drop
    <2>3. CASE c = conn
      <3>1. up[c] \in Seq(Frames) /\ up'[c] = SubSeq(up[c], 1, n)
        BY <1>0, <2>1, <2>3 DEF PhoneTypeOK
      <3>2. n \in 0 .. Len(up[c])
        BY <2>1, <2>3
      <3>3. CASE n = 0
        <4>1. SubSeq(up[c], 1, n) = <<>>
          BY <3>1, <3>3, SubSeqEmpty
        <4> QED
          BY <2>2, <3>1, <4>1
      <3>4. CASE n # 0
        <4>1. up[c] # <<>>
          BY <3>1, <3>2, <3>4, EmptySeq
        <4>2. Head(up[c]).kind = "auth"
          BY <4>1 DEF AuthInv
        <4>3. /\ Len(SubSeq(up[c], 1, n)) = n
              /\ SubSeq(up[c], 1, n) \in Seq(Frames)
              /\ SubSeq(up[c], 1, n)[1] = up[c][1]
          BY <3>1, <3>2, <3>4, SubSeqProperties, LenProperties
        <4>4. SubSeq(up[c], 1, n) # <<>>
          BY <3>4, <4>3, EmptySeq
        <4>5. Head(SubSeq(up[c], 1, n)) = Head(up[c])
          BY <3>1, <4>1, <4>3, <4>4, SMT
        <4> QED
          BY <3>1, <4>2, <4>4, <4>5
      <3> QED
        BY <3>3, <3>4
    <2>4. CASE c # conn
      BY <1>0, <2>1, <2>2, <2>4 DEF PhoneTypeOK, AuthInv
    <2> QED
      BY <2>3, <2>4
  <1>3. CASE NoticeClose
    BY <1>0, <1>3 DEF NoticeClose, AuthInv
  <1>4. CASE IgnoreFrame
    BY <1>0, <1>4, AuthInvUnchanged DEF IgnoreFrame, Deliver
  <1> QED
    BY <1>1, <1>2, <1>3, <1>4 DEF SocketMoves

\* Taking a frame off an authenticated connection, or AUTH off any.
LEMMA TakeKeepsAuthInv ==
  ASSUME PhoneInv, AuthInv, NEW c \in Conns, NEW kind, Take(c, kind),
         authed \subseteq authed', c \in authed'
  PROVE  AuthInv'
  BY DEF PhoneInv, PhoneTypeOK, Take, TakeFrame, AuthInv

\* Until AUTH was taken no other frame is.
LEMMA TakeOtherKeepsAuthInv ==
  ASSUME PhoneInv, AuthInv, NEW c \in Conns, NEW kind, kind # "auth",
         Take(c, kind), UNCHANGED authed
  PROVE  AuthInv'
  <1>1. up[c] # <<>> /\ Head(up[c]).kind = kind
    BY DEF Take, TakeFrame
  <1>2. c \in authed
    BY <1>1 DEF AuthInv
  <1> QED
    BY <1>2, TakeKeepsAuthInv

\* No channel carries anything at the start.
LEMMA AuthInvInit ==
  ASSUME PhoneInit, ReceiverInit
  PROVE  AuthInv
  BY DEF PhoneInit, SocketInit, AuthInv

----------------------------------------------------------------------------
(* The frames on their way to the PC, and what a step does to their places. *)

\* Box 0 is the queue of the phone, box c the channel of connection c.
Boxes     == 0 .. MaxConns
Box(b)    == IF b = 0 THEN pending ELSE up[b]
Has(b, i) == b \in Boxes /\ i \in 1 .. Len(Box(b))
At(b, i)  == Box(b)[i]

\* Frame f is put behind what box d holds.
Puts(d, f) ==
  \E n \in Nat :
    /\ \A b, i : Has(b, i)' <=> Has(b, i) \/ (b = d /\ i = n)
    /\ \A b, i : Has(b, i) => At(b, i)' = At(b, i) /\ (b = d => i < n)
    /\ At(d, n)' = f
\* The boxes stay as they are.
Stays ==
  \A b, i : /\ Has(b, i)' <=> Has(b, i)
            /\ Has(b, i) => At(b, i)' = At(b, i)
\* The first frame of box c is taken.
Takes(c) ==
  /\ Has(c, 1)
  /\ \A b, i : b # c => /\ Has(b, i)' <=> Has(b, i)
                        /\ Has(b, i) => At(b, i)' = At(b, i)
  /\ \A i : Has(c, i)' =>
       i \in Nat /\ Has(c, i + 1) /\ At(c, i)' = At(c, i + 1)
\* Boxes lose what is behind some place.
Cuts ==
  \A b, i : Has(b, i)' => Has(b, i) /\ At(b, i)' = At(b, i)
\* Box c takes AUTH and then all that box 0 holds.
Opens(c) ==
  /\ \A i : ~ Has(0, i)'
  /\ \A i : Has(c, i)' =>
       \/ i = 1 /\ At(c, i)' = Auth
       \/ i \in Nat \ {1} /\ Has(0, i - 1) /\ At(c, i)' = At(0, i - 1)
  /\ \A b, i : b \notin {0, c} => /\ Has(b, i)' <=> Has(b, i)
                                  /\ Has(b, i) => At(b, i)' = At(b, i)

\* What the boxes hold are frames.
LEMMA BoxType ==
  ASSUME PhoneTypeOK
  PROVE  /\ \A b \in Boxes : Box(b) \in Seq(Frames)
         /\ \A b, i : Has(b, i) =>
              b \in Boxes /\ i \in Nat \ {0} /\ At(b, i) \in Frames
  <1>1. \A b \in Boxes : Box(b) \in Seq(Frames)
    BY SocketAssumption DEF PhoneTypeOK, Boxes, Box
  <1>2. ASSUME NEW b, NEW i, Has(b, i)
        PROVE  b \in Boxes /\ i \in Nat \ {0} /\ At(b, i) \in Frames
    <2>1. Box(b) \in Seq(Frames) /\ i \in 1 .. Len(Box(b))
      BY <1>1, <1>2 DEF Has
    <2> QED
      BY <1>2, <2>1, ElementOfSeq, LenProperties DEF Has, At
  <1> QED
    BY <1>1, <1>2

\* The number of a connection is that of a box.
LEMMA ConnBox ==
  \A c \in Conns : c \in Boxes /\ c # 0
  BY SocketAssumption DEF Boxes

\* A connection whose channel is empty has no place.
LEMMA EmptyBox ==
  ASSUME PhoneTypeOK, NEW b \in Boxes
  PROVE  Box(b) = <<>> <=> \A i : ~ Has(b, i)
  <1>1. Box(b) \in Seq(Frames) /\ Len(Box(b)) \in Nat
    BY BoxType, LenProperties
  <1>2. Box(b) = <<>> <=> Len(Box(b)) = 0
    BY <1>1, EmptySeq
  <1>3. (\A i : i \notin 1 .. Len(Box(b))) <=> Len(Box(b)) = 0
    <2>1. Len(Box(b)) # 0 => 1 \in 1 .. Len(Box(b))
      BY <1>1
    <2> QED
      BY <1>1, <2>1
  <1> QED
    BY <1>2, <1>3 DEF Has

\* Appending to a box puts a frame there.
LEMMA AppendPuts ==
  ASSUME PhoneTypeOK, NEW d \in Boxes, NEW f \in Frames,
         Box(d)' = Append(Box(d), f),
         \A b \in Boxes \ {d} : Box(b)' = Box(b)
  PROVE  Puts(d, f)
  <1>0. Box(d) \in Seq(Frames)
    BY BoxType
  <1>1. PICK n \in Nat : n = Len(Box(d)) + 1
    BY <1>0, LenProperties
  <1>2. /\ Len(Append(Box(d), f)) = n
        /\ \A i \in 1 .. Len(Box(d)) : Append(Box(d), f)[i] = Box(d)[i]
        /\ Append(Box(d), f)[n] = f
    BY <1>0, <1>1, AppendProperties
  <1>3. \A b, i : Has(b, i)' <=> Has(b, i) \/ (b = d /\ i = n)
    BY <1>0, <1>1, <1>2, LenProperties DEF Has
  <1>4. \A b, i : Has(b, i) => At(b, i)' = At(b, i) /\ (b = d => i < n)
    BY <1>0, <1>1, <1>2, LenProperties DEF Has, At
  <1>5. At(d, n)' = f
    BY <1>2 DEF At
  <1> QED
    BY <1>3, <1>4, <1>5 DEF Puts

\* Where queue and channels stay as they are.
LEMMA UnchangedStays ==
  ASSUME UNCHANGED <<pending, up>>
  PROVE  Stays
  <1>1. \A b : Box(b)' = Box(b)
    BY DEF Box
  <1> QED
    BY <1>1 DEF Stays, Has, At

\* _send: an open socket or the queue takes the frame, a dead socket loses it.
LEMMA SendPuts ==
  ASSUME PhoneTypeOK, NEW f \in Frames, Send(f), UNCHANGED conn
  PROVE  \/ link = "up" /\ Puts(conn, f)
         \/ link = "down" /\ Puts(0, f)
         \/ link = "dead" /\ Stays
  <1>1. CASE link = "up" /\ up' = [up EXCEPT ![conn] = Append(@, f)]
             /\ UNCHANGED pending
    <2>1. PICK d \in Conns : d = conn
      BY <1>1 DEF PhoneTypeOK
    <2>2. up' = [up EXCEPT ![d] = Append(up[d], f)]
      BY <1>1, <2>1
    <2>3. d \in Boxes /\ d # 0
      BY ConnBox
    <2>4. /\ Box(d)' = Append(Box(d), f)
          /\ \A b \in Boxes \ {d} : Box(b)' = Box(b)
      BY <1>1, <2>2, <2>3, SocketAssumption DEF Box, Boxes, PhoneTypeOK
    <2>5. Puts(d, f)
      BY <2>3, <2>4, AppendPuts
    <2> QED
      BY <1>1, <2>1, <2>5 DEF Puts
  <1>2. CASE link = "down" /\ pending' = Append(pending, f) /\ UNCHANGED up
    <2>1. 0 \in Boxes
      BY SocketAssumption DEF Boxes
    <2>2. /\ Box(0)' = Append(Box(0), f)
          /\ \A b \in Boxes \ {0} : Box(b)' = Box(b)
      BY <1>2 DEF Box
    <2> QED
      BY <1>2, <2>1, <2>2, AppendPuts
  <1>3. CASE link = "dead" /\ UNCHANGED <<up, pending>>
    BY <1>3, UnchangedStays
  <1> QED
    BY <1>1, <1>2, <1>3 DEF Send

\* sendBinary: an open socket takes the frame, and nobody else does.
LEMMA SendBinaryPuts ==
  ASSUME PhoneTypeOK, NEW f \in Frames, SendBinary(f), UNCHANGED conn
  PROVE  \/ link = "up" /\ Puts(conn, f)
         \/ link # "up" /\ Stays
  <1>1. CASE link = "up"
    <2>1. PICK d \in Conns : d = conn
      BY <1>1 DEF PhoneTypeOK
    <2>2. up' = [up EXCEPT ![d] = Append(up[d], f)] /\ UNCHANGED pending
      BY <1>1, <2>1 DEF SendBinary
    <2>3. d \in Boxes /\ d # 0
      BY ConnBox
    <2>4. /\ Box(d)' = Append(Box(d), f)
          /\ \A b \in Boxes \ {d} : Box(b)' = Box(b)
      BY <2>2, <2>3, SocketAssumption DEF Box, Boxes, PhoneTypeOK
    <2>5. Puts(d, f)
      BY <2>3, <2>4, AppendPuts
    <2> QED
      BY <1>1, <2>1, <2>5 DEF Puts
  <1>2. CASE link # "up"
    BY <1>2, UnchangedStays DEF SendBinary
  <1> QED
    BY <1>1, <1>2

\* A handler's frame was the first of its connection.
LEMMA TakeTakes ==
  ASSUME PhoneTypeOK, NEW c \in Conns, NEW kind, Take(c, kind)
  PROVE  /\ Takes(c) /\ At(c, 1) = Head(up[c]) /\ At(c, 1).kind = kind
         /\ c \in Boxes /\ c # 0
  <1>1. /\ Box(c) = up[c] /\ Box(c) \in Seq(Frames) /\ Box(c) # <<>>
        /\ c \in Boxes /\ c # 0
    BY ConnBox, BoxType DEF Take, TakeFrame, Box
  <1>2. /\ Box(c)' = Tail(Box(c))
        /\ \A b \in Boxes \ {c} : Box(b)' = Box(b)
    BY <1>1, SocketAssumption DEF Take, TakeFrame, Box, Boxes, PhoneTypeOK
  <1>3. /\ Len(Box(c)) \in Nat /\ Len(Tail(Box(c))) = Len(Box(c)) - 1
        /\ \A i \in 1 .. Len(Tail(Box(c))) : Tail(Box(c))[i] = Box(c)[i + 1]
        /\ Len(Box(c)) > 0
    BY <1>1, HeadTailProperties, LenProperties, EmptySeq
  <1>4. Has(c, 1) /\ At(c, 1) = Head(up[c])
    BY <1>1, <1>3 DEF Has, At
  <1>5. \A b, i : b # c => /\ Has(b, i)' <=> Has(b, i)
                           /\ Has(b, i) => At(b, i)' = At(b, i)
    BY <1>1, <1>2 DEF Has, At
  <1>6. \A i : Has(c, i)' =>
          i \in Nat /\ Has(c, i + 1) /\ At(c, i)' = At(c, i + 1)
    BY <1>1, <1>2, <1>3 DEF Has, At
  <1> QED
    BY <1>1, <1>4, <1>5, <1>6 DEF Takes, Take, TakeFrame

\* onopen empties the queue into the new channel, behind AUTH.
LEMMA ConnectOpens ==
  ASSUME PhoneTypeOK, Connect, NEW c, c = conn + 1
  PROVE  Opens(c) /\ c \in Conns
  <1>1. /\ c \in Conns /\ c \in Boxes /\ c # 0 /\ 0 \in Boxes
        /\ pending \in Seq(Frames)
    BY SocketAssumption DEF Connect, PhoneTypeOK, Boxes
  <1>2. /\ Box(c)' = <<Auth>> \o pending /\ Box(0)' = <<>>
        /\ \A b \in Boxes \ {0, c} : Box(b)' = Box(b)
    BY <1>1, SocketAssumption DEF Connect, Box, Boxes, PhoneTypeOK
  <1>3. \A i : ~ Has(0, i)'
    BY <1>2, EmptySeq DEF Has
  <1>4. ASSUME NEW i, Has(c, i)'
        PROVE  \/ i = 1 /\ At(c, i)' = Auth
               \/ i \in Nat \ {1} /\ Has(0, i - 1) /\ At(c, i)' = At(0, i - 1)
    <2>1. <<Auth>> \in Seq(Frames) /\ Len(<<Auth>>) = 1 /\ <<Auth>>[1] = Auth
      BY FrameTypes
    <2>2. /\ Len(<<Auth>> \o pending) = Len(<<Auth>>) + Len(pending)
          /\ \A j \in 1 .. Len(<<Auth>>) + Len(pending) :
               (<<Auth>> \o pending)[j] =
                 IF j <= Len(<<Auth>>) THEN <<Auth>>[j]
                 ELSE pending[j - Len(<<Auth>>)]
      BY <1>1, <2>1, ConcatProperties
    <2>3. Len(pending) \in Nat /\ i \in 1 .. 1 + Len(pending)
      BY <1>1, <1>2, <1>4, <2>1, <2>2, LenProperties DEF Has
    <2>4. At(c, i)' = IF i <= 1 THEN Auth ELSE pending[i - 1]
      BY <1>2, <2>1, <2>2, <2>3 DEF At
    <2> QED
      BY <1>1, <2>3, <2>4 DEF Has, At, Box
  <1>5. \A b, i : b \notin {0, c} => /\ Has(b, i)' <=> Has(b, i)
                                     /\ Has(b, i) => At(b, i)' = At(b, i)
    BY <1>1, <1>2 DEF Has, At
  <1> QED
    BY <1>1, <1>3, <1>4, <1>5 DEF Opens

\* A broken connection loses the end of its channel.
LEMMA DropCuts ==
  ASSUME PhoneTypeOK, Drop
  PROVE  Cuts
  <1>1. conn \in Conns /\ up[conn] \in Seq(Frames)
    BY DEF Drop, PhoneTypeOK
  <1>2. PICK n \in 0 .. Len(up[conn]) :
          up' = [up EXCEPT ![conn] = SubSeq(@, 1, n)]
    BY DEF Drop
  <1>3. PICK d \in Conns : d = conn
    BY <1>1
  <1>4. /\ Len(SubSeq(up[d], 1, n)) = n /\ Len(up[d]) \in Nat
        /\ \A i \in 1 .. n : SubSeq(up[d], 1, n)[i] = up[d][i]
    BY <1>1, <1>2, <1>3, SubSeqProperties, LenProperties
  <1>5. d \in Boxes /\ d # 0
    BY ConnBox
  <1>6. /\ Box(d)' = SubSeq(Box(d), 1, n)
        /\ \A b \in Boxes : b # d => Box(b)' = Box(b)
    BY <1>2, <1>3, <1>5, SocketAssumption DEF Drop, Box, Boxes, PhoneTypeOK
  <1>7. Box(d) = up[d] /\ n \in 0 .. Len(up[d])
    BY <1>2, <1>3, <1>5 DEF Box
  <1> QED
    BY <1>4, <1>6, <1>7 DEF Cuts, Has, At


----------------------------------------------------------------------------
(* No chunk twice. *)

\* The chunks the calls have sent so far.  A call that failed may have sent
\* the chunk after the last one acknowledged.
Sent(t, k) ==
  /\ k \in Nat
  /\ \/ k <= idx[t]
     \/ k = idx[t] + 1 /\ spc[t] \in {"chunk", "failed"}

Carried(b, i) == Has(b, i) /\ At(b, i).kind = "chunk"

\* A chunk that was sent is in one place: on its way, written, or lost.
ChunkOnce ==
  /\ \A b, i : Carried(b, i) =>
       At(b, i).t \in Transfers /\ Sent(At(b, i).t, At(b, i).k)
  /\ \A u \in Transfers : \A n \in DOMAIN written[u] :
       /\ written[u][n][1] \in Transfers
       /\ Sent(written[u][n][1], written[u][n][2])
  /\ \A b, i, d, j :
       Carried(b, i) /\ Carried(d, j) /\ At(b, i) = At(d, j) => b = d /\ i = j
  /\ \A b, i : Carried(b, i) =>
       \A u \in Transfers : \A n \in DOMAIN written[u] :
         written[u][n] # <<At(b, i).t, At(b, i).k>>
  /\ NoChunkWrittenTwice

\* The place a frame had before the first one of box c was taken.
LEMMA TakesFrom ==
  ASSUME NEW c, Takes(c), NEW b, NEW i, Has(b, i)'
  PROVE  \E k : /\ Has(b, k) /\ At(b, i)' = At(b, k)
               /\ IF b = c THEN i \in Nat /\ k = i + 1 ELSE k = i
  <1>1. CASE b = c
    <2>1. i \in Nat /\ Has(b, i + 1) /\ At(b, i)' = At(b, i + 1)
      BY <1>1 DEF Takes
    <2> QED
      BY <1>1, <2>1
  <1>2. CASE b # c
    <2>1. Has(b, i) /\ At(b, i)' = At(b, i)
      BY <1>2 DEF Takes
    <2> QED
      BY <1>2, <2>1
  <1> QED
    BY <1>1, <1>2

\* Taking a frame keeps the places of two others apart.
LEMMA TakesApart ==
  ASSUME NEW c, Takes(c), NEW b, NEW i, Has(b, i)',
         NEW d, NEW j, Has(d, j)'
  PROVE  \E k, l : /\ Has(b, k) /\ At(b, i)' = At(b, k)
                   /\ Has(d, l) /\ At(d, j)' = At(d, l)
                   /\ b = d => (i = j <=> k = l)
  <1>1. PICK k : /\ Has(b, k) /\ At(b, i)' = At(b, k)
                 /\ IF b = c THEN i \in Nat /\ k = i + 1 ELSE k = i
    BY TakesFrom
  <1>2. PICK l : /\ Has(d, l) /\ At(d, j)' = At(d, l)
                 /\ IF d = c THEN j \in Nat /\ l = j + 1 ELSE l = j
    BY TakesFrom
  <1>3. b = d => (i = j <=> k = l)
    BY <1>1, <1>2
  <1> QED
    BY <1>1, <1>2, <1>3

\* The place a frame other than AUTH had before connection c was opened.
LEMMA OpensFrom ==
  ASSUME NEW c, Opens(c), NEW b, NEW i, Has(b, i)', At(b, i)' # Auth
  PROVE  \E a, k : /\ Has(a, k) /\ At(b, i)' = At(a, k)
                   /\ IF b = c THEN a = 0 /\ i \in Nat /\ k = i - 1
                      ELSE a = b /\ k = i /\ a # 0
  <1>1. CASE b = c
    BY <1>1 DEF Opens
  <1>2. CASE b # c
    <2>1. Has(b, i) /\ At(b, i)' = At(b, i) /\ b # 0
      BY <1>2 DEF Opens
    <2> QED
      BY <1>2, <2>1
  <1> QED
    BY <1>1, <1>2

\* So does opening a connection, but for AUTH.
LEMMA OpensApart ==
  ASSUME NEW c, Opens(c), NEW b, NEW i, Has(b, i)', At(b, i)' # Auth,
         NEW d, NEW j, Has(d, j)', At(d, j)' # Auth
  PROVE  \E a, k, e, l :
           /\ Has(a, k) /\ At(b, i)' = At(a, k)
           /\ Has(e, l) /\ At(d, j)' = At(e, l)
           /\ (b = d /\ i = j) <=> (a = e /\ k = l)
  <1>1. PICK a, k : /\ Has(a, k) /\ At(b, i)' = At(a, k)
                    /\ IF b = c THEN a = 0 /\ i \in Nat /\ k = i - 1
                       ELSE a = b /\ k = i /\ a # 0
    BY OpensFrom
  <1>2. PICK e, l : /\ Has(e, l) /\ At(d, j)' = At(e, l)
                    /\ IF d = c THEN e = 0 /\ j \in Nat /\ l = j - 1
                       ELSE e = d /\ l = j /\ e # 0
    BY OpensFrom
  <1>3. (b = d /\ i = j) <=> (a = e /\ k = l)
    BY <1>1, <1>2
  <1> QED
    BY <1>1, <1>2, <1>3

\* A step that sends no chunk and writes none.
LEMMA OnceNothingNew ==
  ASSUME ChunkOnce, UNCHANGED written,
         \A t \in Transfers : \A k : Sent(t, k) => Sent(t, k)',
         \/ Stays \/ Cuts
         \/ \E c : Takes(c) \/ Opens(c)
         \/ \E d, f : f.kind # "chunk" /\ Puts(d, f)
  PROVE  ChunkOnce'
  <1>1. CASE Stays \/ Cuts
    BY <1>1 DEF ChunkOnce, Carried, Stays, Cuts, NoChunkWrittenTwice
  <1>2. ASSUME NEW c, Takes(c)
        PROVE  ChunkOnce'
    BY <1>2, TakesApart DEF ChunkOnce, Carried, NoChunkWrittenTwice
  <1>3. ASSUME NEW c, Opens(c)
        PROVE  ChunkOnce'
    <2>1. \A b, i : Carried(b, i)' => Has(b, i)' /\ At(b, i)' # Auth
      BY DEF Carried, Auth
    <2>2. ASSUME NEW b, NEW i, Carried(b, i)'
          PROVE  \E a, k : Carried(a, k) /\ At(b, i)' = At(a, k)
      BY <1>3, <2>1, <2>2, OpensApart DEF Carried
    <2>3. ASSUME NEW b, NEW i, Carried(b, i)', NEW d, NEW j, Carried(d, j)',
                 At(b, i)' = At(d, j)'
          PROVE  b = d /\ i = j
      <3>1. PICK a, k, e, l :
              /\ Has(a, k) /\ At(b, i)' = At(a, k)
              /\ Has(e, l) /\ At(d, j)' = At(e, l)
              /\ (b = d /\ i = j) <=> (a = e /\ k = l)
        BY <1>3, <2>1, <2>3, OpensApart
      <3>2. Carried(a, k) /\ Carried(e, l) /\ At(a, k) = At(e, l)
        BY <2>3, <3>1 DEF Carried
      <3> QED
        BY <3>1, <3>2 DEF ChunkOnce
    <2> QED
      BY <2>2, <2>3 DEF ChunkOnce, NoChunkWrittenTwice
  <1>4. ASSUME NEW d, NEW f, f.kind # "chunk", Puts(d, f)
        PROVE  ChunkOnce'
    BY <1>4 DEF ChunkOnce, Carried, Puts, NoChunkWrittenTwice
  <1> QED
    BY <1>1, <1>2, <1>3, <1>4

\* A step that sends a new chunk.
LEMMA OnceSent ==
  ASSUME ChunkOnce, UNCHANGED written,
         \A t \in Transfers : \A k : Sent(t, k) => Sent(t, k)',
         NEW c, NEW u \in Transfers, NEW n,
         Puts(c, Chunk(u, n)), ~ Sent(u, n), Sent(u, n)'
  PROVE  ChunkOnce'
  BY DEF ChunkOnce, Carried, Puts, NoChunkWrittenTwice, Chunk

\* What a call has sent it has sent.
LEMMA SentStays ==
  ASSUME PhoneInv, NEW t \in Transfers, PhoneMoves(t)
  PROVE  \A u \in Transfers : \A k : Sent(u, k) => Sent(u, k)'
  <1>0. /\ spc \in [Transfers -> SendStates] /\ idx \in [Transfers -> Nat]
    BY DEF PhoneInv, PhoneTypeOK
  <1> SUFFICES ASSUME NEW u \in Transfers, NEW k, Sent(u, k)
               PROVE  Sent(u, k)'
    OBVIOUS
  <1>1. CASE SendChunk(t) \/ StartSend(t)
    BY <1>0, <1>1 DEF SendChunk, StartSend, PicksFile, Sent
  <1>2. CASE ReadFails(t) \/ Timeout(t)
    BY <1>0, <1>2 DEF ReadFails, Timeout, Sent
  <1>3. CASE MetaAcked(t)
    BY <1>0, <1>3 DEF MetaAcked, AwaitedMeta, Proceed, Sent
  <1>4. CASE ChunkAcked(t)
    <2>1. /\ spc[t] = "chunk" /\ idx' = [idx EXCEPT ![t] = idx[t] + 1]
          /\ \E s \in SendStates : spc' = [spc EXCEPT ![t] = s]
      BY <1>4 DEF ChunkAcked, AwaitedChunk, Proceed, SendStates
    <2>2. idx[t] \in Nat /\ idx'[t] = idx[t] + 1
      BY <1>0, <2>1
    <2>3. CASE u = t
      <3>1. k \in Nat /\ (k <= idx[t] \/ k = idx[t] + 1)
        BY <2>3 DEF Sent
      <3>2. k <= idx'[t]
        BY <2>2, <3>1
      <3> QED
        BY <2>3, <3>1, <3>2 DEF Sent
    <2>4. CASE u # t
      <3>1. idx'[u] = idx[u] /\ spc'[u] = spc[u]
        BY <1>0, <2>1, <2>4
      <3> QED
        BY <3>1 DEF Sent
    <2> QED
      BY <2>3, <2>4
  <1> QED
    BY <1>1, <1>2, <1>3, <1>4 DEF PhoneMoves

\* The phone's calls: a chunk is sent only while it was not sent before.
LEMMA OncePhone ==
  ASSUME PhoneInv, ChunkOnce, NEW t \in Transfers, PhoneMoves(t),
         UNCHANGED written
  PROVE  ChunkOnce'
  <1>0. PhoneTypeOK /\ idx[t] \in Nat
    BY DEF PhoneInv, PhoneTypeOK
  <1>1. \A u \in Transfers : \A k : Sent(u, k) => Sent(u, k)'
    BY SentStays
  <1>2. CASE SendChunk(t)
    <2>1. PICK n \in Nat : n = idx[t] + 1
      BY <1>0
    <2>2. Chunk(t, n) \in Frames
      BY FrameTypes
    <2>3. ~ Sent(t, n) /\ Sent(t, n)'
      BY <1>0, <1>2, <2>1 DEF Sent, SendChunk, PhoneTypeOK
    <2>4. Stays \/ Puts(conn, Chunk(t, n))
      BY <1>0, <1>2, <2>1, <2>2, SendBinaryPuts DEF SendChunk
    <2>5. PICK c : c = conn
      OBVIOUS
    <2>6. conn' = c
      BY <1>2, <2>5 DEF SendChunk
    <2>7. Stays \/ Puts(c, Chunk(t, n))
      BY <2>4, <2>5, <2>6 DEF Puts
    <2> QED
      BY <1>1, <2>3, <2>7, OnceNothingNew, OnceSent
  <1>3. ASSUME NEW f \in Frames, f.kind # "chunk", Send(f), UNCHANGED conn
        PROVE  ChunkOnce'
    <2>1. PICK c : c = conn
      OBVIOUS
    <2>2. Puts(c, f) \/ Puts(0, f) \/ Stays
      BY <1>0, <1>3, <2>1, SendPuts DEF Puts
    <2> QED
      BY <1>1, <1>3, <2>2, OnceNothingNew
  <1>4. CASE UNCHANGED <<pending, up>>
    BY <1>1, <1>4, UnchangedStays, OnceNothingNew
  <1>5. CASE Send(Meta(t)) \/ Send(End(t))
    <2>1. UNCHANGED conn
      BY DEF PhoneMoves, StartSend, SendChunk, ReadFails, Timeout, MetaAcked,
             ChunkAcked, Deliver
    <2> QED
      BY <1>3, <1>5, <2>1, FrameTypes DEF Meta, End
  <1> QED
    BY <1>2, <1>4, <1>5
    DEF PhoneMoves, StartSend, ReadFails, Timeout, MetaAcked, ChunkAcked,
        Proceed


\* The socket moves, cuts or leaves alone what was sent.
LEMMA OnceSocket ==
  ASSUME PhoneInv, ChunkOnce, SocketMoves, UNCHANGED written
  PROVE  ChunkOnce'
  <1>0. PhoneTypeOK
    BY DEF PhoneInv
  <1>1. \A u \in Transfers : \A k : Sent(u, k) => Sent(u, k)'
    BY DEF SocketMoves, Sent
  <1>2. CASE Connect
    <2>1. PICK c : c = conn + 1
      OBVIOUS
    <2>2. Opens(c)
      BY <1>0, <1>2, <2>1, ConnectOpens
    <2> QED
      BY <1>1, <2>2, OnceNothingNew
  <1>3. CASE Drop
    BY <1>0, <1>1, <1>3, DropCuts, OnceNothingNew
  <1>4. CASE NoticeClose \/ IgnoreFrame
    <2>1. UNCHANGED <<pending, up>>
      BY <1>4 DEF NoticeClose, IgnoreFrame
    <2> QED
      BY <1>1, <2>1, UnchangedStays, OnceNothingNew
  <1> QED
    BY <1>2, <1>3, <1>4 DEF SocketMoves

\* A handler that writes nothing.
LEMMA OnceTake ==
  ASSUME PhoneInv, ChunkOnce, NEW c \in Conns, NEW kind, Take(c, kind),
         UNCHANGED written
  PROVE  ChunkOnce'
  <1>1. Takes(c)
    BY TakeTakes DEF PhoneInv
  <1>2. \A u \in Transfers : \A k : Sent(u, k) => Sent(u, k)'
    BY DEF Take, Sent
  <1> QED
    BY <1>1, <1>2, OnceNothingNew

\* A continuation that writes nothing.
LEMMA OnceRest ==
  ASSUME ChunkOnce, PhoneRests, UNCHANGED written
  PROVE  ChunkOnce'
  <1>1. \A u \in Transfers : \A k : Sent(u, k) => Sent(u, k)'
    BY DEF PhoneRests, Sent
  <1> QED
    BY <1>1, UnchangedStays, OnceNothingNew DEF PhoneRests

\* Writing the chunk at the head of a connection.
LEMMA WriteAdds ==
  ASSUME PhoneTypeOK, ReceiverTypeOK, NEW c \in Conns, NEW u \in Transfers,
         Take(c, "chunk"), Write(c, u)
  PROVE  \E m \in Nat :
           /\ m = Len(written[u]) + 1
           /\ written'[u] = Append(written[u], <<At(c, 1).t, At(c, 1).k>>)
           /\ DOMAIN written'[u] = DOMAIN written[u] \cup {m}
           /\ m \notin DOMAIN written[u]
           /\ written'[u][m] = <<At(c, 1).t, At(c, 1).k>>
           /\ \A n \in DOMAIN written[u] : written'[u][n] = written[u][n]
           /\ \A v \in Transfers \ {u} : written'[v] = written[v]
  <1> DEFINE w == <<At(c, 1).t, At(c, 1).k>>
  <1>1. At(c, 1) = Head(up[c]) /\ At(c, 1).kind = "chunk" /\ Has(c, 1)
    BY TakeTakes DEF Takes
  <1>2. At(c, 1) \in Frames
    BY <1>1, BoxType
  <1>3. w \in Chunks
    BY <1>1, <1>2, FrameFields DEF Chunks
  <1>4. written[u] \in Seq(Chunks) /\ Len(written[u]) \in Nat
    BY LenProperties DEF ReceiverTypeOK
  <1>5. written' = [written EXCEPT ![u] = Append(written[u], w)]
    BY <1>1 DEF Write
  <1> HIDE DEF w
  <1>6. written'[u] = Append(written[u], w)
        /\ \A v \in Transfers \ {u} : written'[v] = written[v]
    BY <1>5 DEF ReceiverTypeOK
  <1>7. /\ Append(written[u], w) \in Seq(Chunks)
        /\ Len(Append(written[u], w)) = Len(written[u]) + 1
        /\ \A i \in 1 .. Len(written[u]) :
             Append(written[u], w)[i] = written[u][i]
        /\ Append(written[u], w)[Len(written[u]) + 1] = w
    BY <1>3, <1>4, AppendProperties
  <1>8. /\ DOMAIN written[u] = 1 .. Len(written[u])
        /\ DOMAIN Append(written[u], w) = 1 .. (Len(written[u]) + 1)
    BY <1>4, <1>7, LenProperties
  <1>9. PICK m \in Nat : m = Len(written[u]) + 1
    BY <1>4
  <1>10. /\ DOMAIN written'[u] = DOMAIN written[u] \cup {m}
         /\ m \notin DOMAIN written[u]
         /\ written'[u][m] = w
         /\ \A n \in DOMAIN written[u] : written'[u][n] = written[u][n]
    BY <1>4, <1>6, <1>7, <1>8, <1>9
  <1> QED
    BY <1>6, <1>9, <1>10 DEF w

\* A handler that writes its chunk: it was on its way, and is so no more.
LEMMA OnceWrite ==
  ASSUME PhoneInv, ReceiverTypeOK, ChunkOnce, NEW c \in Conns,
         NEW u \in Transfers, Take(c, "chunk"), Write(c, u)
  PROVE  ChunkOnce'
  <1> DEFINE w == <<At(c, 1).t, At(c, 1).k>>
  <1>1. Takes(c) /\ Carried(c, 1)
    BY TakeTakes DEF PhoneInv, Takes, Carried
  <1>2. PICK m \in Nat :
          /\ DOMAIN written'[u] = DOMAIN written[u] \cup {m}
          /\ m \notin DOMAIN written[u]
          /\ written'[u][m] = w
          /\ \A n \in DOMAIN written[u] : written'[u][n] = written[u][n]
          /\ \A v \in Transfers \ {u} : written'[v] = written[v]
    BY WriteAdds DEF PhoneInv
  <1>3. \A v \in Transfers : \A k : Sent(v, k)' <=> Sent(v, k)
    BY DEF Take, Sent
  <1>4. \A v \in Transfers : \A n \in DOMAIN written[v] : written[v][n] # w
    BY <1>1 DEF ChunkOnce
  <1>5. ASSUME NEW v \in Transfers, NEW n \in DOMAIN written'[v]
        PROVE  \/ n \in DOMAIN written[v] /\ written'[v][n] = written[v][n]
               \/ v = u /\ n = m /\ written'[v][n] = w
    BY <1>2, <1>5
  <1>6. w[1] \in Transfers /\ Sent(w[1], w[2])
    BY <1>1 DEF ChunkOnce
  <1>7. ASSUME NEW b, NEW i, Carried(b, i)'
        PROVE  \E k : /\ Carried(b, k) /\ At(b, i)' = At(b, k)
                     /\ ~ (b = c /\ k = 1)
    <2>1. PICK k : /\ Has(b, k) /\ At(b, i)' = At(b, k)
                   /\ IF b = c THEN i \in Nat /\ k = i + 1 ELSE k = i
      BY <1>1, <1>7, TakesFrom DEF Carried
    <2>2. b = c => i # 0
      BY <1>7, SMT DEF Carried, Has
    <2> QED
      BY <1>7, <2>1, <2>2 DEF Carried
  <1>8. \A b, i : Carried(b, i)' =>
          At(b, i)'.t \in Transfers /\ Sent(At(b, i).t, At(b, i).k)'
    BY <1>3, <1>7 DEF ChunkOnce
  <1>9. \A v \in Transfers : \A n \in DOMAIN written'[v] :
          /\ written'[v][n][1] \in Transfers
          /\ Sent(written[v][n][1], written[v][n][2])'
    <2> SUFFICES ASSUME NEW v \in Transfers, NEW n \in DOMAIN written'[v]
                 PROVE  /\ written'[v][n][1] \in Transfers
                        /\ Sent(written[v][n][1], written[v][n][2])'
      OBVIOUS
    <2>1. PICK t \in Transfers, k \in Nat :
            written'[v][n][1] = t /\ written'[v][n][2] = k /\ Sent(t, k)
      BY <1>5, <1>6 DEF ChunkOnce, Sent
    <2> QED
      BY <1>3, <2>1 DEF Sent
  <1>10. \A b, i, d, j :
           Carried(b, i)' /\ Carried(d, j)' /\ At(b, i)' = At(d, j)'
             => b = d /\ i = j
    <2> SUFFICES ASSUME NEW b, NEW i, Carried(b, i)', NEW d, NEW j,
                        Carried(d, j)', At(b, i)' = At(d, j)'
                 PROVE  b = d /\ i = j
      OBVIOUS
    <2>1. PICK k, l : /\ Has(b, k) /\ At(b, i)' = At(b, k)
                      /\ Has(d, l) /\ At(d, j)' = At(d, l)
                      /\ b = d => (i = j <=> k = l)
      BY <1>1, TakesApart DEF Carried
    <2>2. Carried(b, k) /\ Carried(d, l) /\ At(b, k) = At(d, l)
      BY <2>1 DEF Carried
    <2> QED
      BY <2>1, <2>2 DEF ChunkOnce
  <1>11. \A b, i : Carried(b, i)' =>
           \A v \in Transfers : \A n \in DOMAIN written'[v] :
             written'[v][n] # <<At(b, i)'.t, At(b, i)'.k>>
    <2> SUFFICES ASSUME NEW b, NEW i, Carried(b, i)', NEW v \in Transfers,
                        NEW n \in DOMAIN written'[v],
                        written'[v][n] = <<At(b, i)'.t, At(b, i)'.k>>
                 PROVE  FALSE
      OBVIOUS
    <2>1. PICK k : /\ Carried(b, k) /\ At(b, i)' = At(b, k)
                   /\ ~ (b = c /\ k = 1)
      BY <1>7
    <2>2. CASE n \in DOMAIN written[v] /\ written'[v][n] = written[v][n]
      BY <2>1, <2>2 DEF ChunkOnce
    <2>3. CASE written'[v][n] = w
      <3>1. At(b, k).t = At(c, 1).t /\ At(b, k).k = At(c, 1).k
        BY <2>1, <2>3
      <3>2. At(b, k) \in Frames /\ At(c, 1) \in Frames
        BY <1>1, <2>1, BoxType DEF Carried, PhoneInv
      <3>3. At(b, k) = At(c, 1)
        BY <1>1, <2>1, <3>1, <3>2 DEF Frames, Auth, Carried
      <3> QED
        BY <1>1, <2>1, <3>3 DEF ChunkOnce
    <2> QED
      BY <1>5, <2>2, <2>3
  <1>12. NoChunkWrittenTwice'
    <2> SUFFICES ASSUME NEW v \in Transfers, NEW x \in Transfers,
                        NEW n \in DOMAIN written'[v],
                        NEW l \in DOMAIN written'[x],
                        written'[v][n] = written'[x][l]
                 PROVE  v = x /\ n = l
      BY DEF NoChunkWrittenTwice
    <2>1. CASE /\ n \in DOMAIN written[v] /\ written'[v][n] = written[v][n]
               /\ l \in DOMAIN written[x] /\ written'[x][l] = written[x][l]
      <3>1. NoChunkWrittenTwice /\ written[v][n] = written[x][l]
        BY <2>1 DEF ChunkOnce
      <3> QED
        BY <2>1, <3>1 DEF NoChunkWrittenTwice
    <2> HIDE DEF w
    <2> QED
      BY <1>4, <1>5, <2>1
  <1> QED
    BY <1>8, <1>9, <1>10, <1>11, <1>12 DEF ChunkOnce

\* At the start nothing is sent.
LEMMA OnceInit ==
  ASSUME PhoneInit, ReceiverInit
  PROVE  ChunkOnce
  <1>1. \A b \in Boxes : Box(b) = <<>>
    BY SocketAssumption DEF PhoneInit, SocketInit, Box, Boxes
  <1>2. \A b, i : ~ Has(b, i)
    BY <1>1, EmptySeq DEF Has
  <1>3. \A u \in Transfers : DOMAIN written[u] = {}
    BY EmptySeq DEF ReceiverInit
  <1> QED
    BY <1>2, <1>3 DEF ChunkOnce, Carried, NoChunkWrittenTwice

----------------------------------------------------------------------------
(* One send at a time.                                                      *)
(*                                                                          *)
(* What a call leaves behind when it gives up is what makes this hard: its  *)
(* META, a chunk or FILE_END may still be in the queue or on a connection,  *)
(* its handler at work and its ACKs under way while the next call runs.     *)

\* Frame f is in box b, or on its way to the phone.
In(b, f)  == \E i : Has(b, i) /\ At(b, i) = f
InDown(f) == \E i \in 1 .. Len(down) : down[i] = f

\* A chunk of t that is handled on connection c is written to the file of t,
\* or to that of a call that gave up, or to none.
Tolerated(t, c) == active[c] \in {t, NONE} \/ spc[active[c]] = "failed"

OneSender == \A t, u \in Transfers : Sending(t) /\ Sending(u) => t = u

\* The queue is used only while the phone knows it is offline, and then
\* nothing reaches it; a connection to come has carried nothing.
Channels ==
  /\ link # "down" => \A f : ~ In(0, f)
  /\ link = "down" => \A f : ~ InDown(f)
  /\ \A c \in Conns : c > conn => active[c] = NONE /\ \A f : ~ In(c, f)

\* What a frame on its way says of its transfer.
MetasInv ==
  \A b : \A t \in Transfers : In(b, Meta(t)) =>
    spc[t] \in {"meta", "failed"} /\ stream[t] = "none"
ChunksInv ==
  \A b : \A t \in Transfers : \A k \in Nat : In(b, Chunk(t, k)) =>
    /\ b \in Conns /\ Tolerated(t, b)
    /\ spc[t] \in {"chunk", "failed"}
    /\ k = idx[t] + 1 /\ k <= NumChunks[t]
    /\ spc[t] = "chunk" => written[t] = OwnPrefix(t, idx[t])
EndsInv ==
  \A b : \A t \in Transfers : In(b, End(t)) =>
    spc[t] = "done" /\ stream[t] = "open"

\* Where frames are: none twice but AUTH, nothing behind the META of a
\* running call, no two chunks in one box, only AUTH before a chunk.
FrameOnce ==
  \A b, i, d, j :
    Has(b, i) /\ Has(d, j) /\ At(b, i) = At(d, j) /\ At(b, i) # Auth
      => b = d /\ i = j
MetaIsLast ==
  \A t \in Transfers : spc[t] = "meta" =>
    \A b, i : Has(b, i) /\ At(b, i) = Meta(t) => ~ Has(b, i + 1)
ChunkAlone ==
  \A b, i, j : Carried(b, i) /\ Carried(b, j) => i = j
ChunkFirst ==
  \A b, i, j : Carried(b, i) /\ Has(b, j) /\ j < i => At(b, j) = Auth
Places == FrameOnce /\ MetaIsLast /\ ChunkAlone /\ ChunkFirst

\* Once its META is acknowledged a call has the newest connection to itself.
Quiet ==
  \A t \in Transfers : spc[t] \in {"reading", "chunk"} =>
    /\ stream[t] = "open"
    /\ \A f : ~ In(0, f)
    /\ \A c : c = conn =>
         /\ c \in Conns /\ Tolerated(t, c)
         /\ \A f : In(c, f) =>
              f = Auth \/ (spc[t] = "chunk" /\ f = Chunk(t, idx[t] + 1))

\* What an ACK on its way says.
Acks ==
  /\ \A t \in Transfers : \A f : InDown(f) /\ f.kind = "metaAck" /\ f.t = t =>
       /\ stream[t] # "none"
       /\ spc[t] = "meta" =>
            \A c : c = conn => Tolerated(t, c) /\ \A g : ~ In(c, g)
  /\ \A t \in Transfers : \A k \in Nat :
       InDown(ChunkAck(t, k)) => k <= Len(written[t])

\* How the file of t stands to the call of t.
FilesInv ==
  \A t \in Transfers :
    /\ stream[t] # "none" => spc[t] # "idle"
    /\ stream[t] = "open" => t \in transfers
    /\ stream[t] \in {"ending", "closed"} => spc[t] = "done"
    /\ stream[t] = "none" => written[t] = <<>>
    /\ spc[t] \in {"idle", "meta"} => written[t] = <<>>
    /\ spc[t] = "reading" => written[t] = OwnPrefix(t, idx[t])
    /\ spc[t] = "chunk" => \/ written[t] = OwnPrefix(t, idx[t])
                           \/ written[t] = OwnPrefix(t, idx[t] + 1)
    /\ spc[t] = "done" => written[t] = OwnPrefix(t, NumChunks[t])
ActiveInv ==
  \A c \in Conns : active[c] # NONE => stream[active[c]] # "none"

InLine ==
  /\ OneSender /\ Channels /\ MetasInv /\ ChunksInv /\ EndsInv /\ Places
  /\ Quiet /\ Acks /\ FilesInv /\ ActiveInv

\* What a server may assume of a META it has taken from connection h.c until
\* it opens the file of h.t.
CallInv(h) ==
  /\ spc[h.t] \in {"meta", "failed"}
  /\ stream[h.t] = "none"
  /\ \A b : ~ In(b, Meta(h.t))
  /\ h.c <= conn
  /\ spc[h.t] = "meta" => \A f : ~ In(h.c, f)

----------------------------------------------------------------------------
(* Frames in boxes. *)

\* What a box holds is a frame.
LEMMA InType ==
  ASSUME PhoneTypeOK, NEW b, NEW f, In(b, f)
  PROVE  b \in Boxes /\ f \in Frames
  BY BoxType DEF In

\* Putting a frame.
LEMMA PutsIn ==
  ASSUME NEW d, NEW g, Puts(d, g), NEW b, NEW f, In(b, f)'
  PROVE  In(b, f) \/ (b = d /\ f = g)
  BY DEF Puts, In

\* A step that leaves the boxes alone.
LEMMA StaysIn ==
  ASSUME Stays, NEW b, NEW f
  PROVE  In(b, f)' <=> In(b, f)
  BY DEF Stays, In

\* Cutting boxes.
LEMMA CutsIn ==
  ASSUME Cuts, NEW b, NEW f, In(b, f)'
  PROVE  In(b, f)
  BY DEF Cuts, In

\* Taking a frame: other than AUTH, it is nowhere any more.
LEMMA TakesIn ==
  ASSUME NEW c, Takes(c), FrameOnce, NEW b, NEW f, In(b, f)'
  PROVE  In(b, f) /\ (f = At(c, 1) => f = Auth)
  <1>1. PICK i : Has(b, i)' /\ At(b, i)' = f
    BY DEF In
  <1>2. PICK k : /\ Has(b, k) /\ At(b, i)' = At(b, k)
                 /\ IF b = c THEN i \in Nat /\ k = i + 1 ELSE k = i
    BY <1>1, TakesFrom
  <1>3. b = c => k # 1
    BY <1>1, <1>2, SMT DEF Has
  <1>4. Has(c, 1)
    BY DEF Takes
  <1> QED
    BY <1>1, <1>2, <1>3, <1>4 DEF In, FrameOnce

\* Opening a connection.
LEMMA OpensIn ==
  ASSUME NEW c, Opens(c), NEW b, NEW f, In(b, f)'
  PROVE  /\ b # 0
         /\ b = c => f = Auth \/ In(0, f)
         /\ b # c => In(b, f)
  <1>1. PICK i : Has(b, i)' /\ At(b, i)' = f
    BY DEF In
  <1>2. b # 0
    BY <1>1 DEF Opens
  <1>3. CASE b = c
    BY <1>1, <1>2, <1>3 DEF Opens, In
  <1>4. CASE b # c
    BY <1>1, <1>2, <1>4 DEF Opens, In
  <1> QED
    BY <1>2, <1>3, <1>4

\* Frames of two kinds differ, and so do those of two transfers.
LEMMA FramesDiffer ==
  /\ \A t : Meta(t) # Auth /\ End(t) # Auth
  /\ \A t, k : Chunk(t, k) # Auth
  /\ \A t, u : Meta(t) # End(u)
  /\ \A t, u, k : Meta(t) # Chunk(u, k) /\ End(t) # Chunk(u, k)
  /\ \A t, u : Meta(t) = Meta(u) => t = u
  /\ \A t, u : End(t) = End(u) => t = u
  /\ \A t, u, k, l : Chunk(t, k) = Chunk(u, l) => t = u /\ k = l
  BY DEF Meta, Chunk, End, Auth

\* ACKs, too.
LEMMA AcksDiffer ==
  /\ \A t, u : MetaAck(t) # EndAck(u)
  /\ \A t, u, k : MetaAck(t) # ChunkAck(u, k) /\ EndAck(t) # ChunkAck(u, k)
  /\ \A t, u : MetaAck(t) = MetaAck(u) => t = u
  /\ \A t, u, k, l : ChunkAck(t, k) = ChunkAck(u, l) => t = u /\ k = l
  BY DEF MetaAck, ChunkAck, EndAck

----------------------------------------------------------------------------
(* Places. *)

\* Steps that put nothing.
LEMMA PlacesFewer ==
  ASSUME Places, Stays \/ Cuts \/ \E c : Takes(c),
         \A t \in Transfers : spc'[t] = "meta" =>
           spc[t] = "meta" \/ \A b : ~ In(b, Meta(t))
  PROVE  Places'
  <1>1. CASE Stays \/ Cuts
    BY <1>1
    DEF Places, FrameOnce, MetaIsLast, ChunkAlone, ChunkFirst, Carried, Stays,
        Cuts, In, Meta
  <1>2. ASSUME NEW c, Takes(c)
        PROVE  Places'
    <2>1. FrameOnce'
      BY <1>2, TakesApart DEF Places, FrameOnce
    <2>2. ChunkAlone'
      BY <1>2, TakesApart DEF Places, ChunkAlone, Carried
    <2>4. ChunkFirst'
      <3> SUFFICES ASSUME NEW b, NEW i, NEW j, Carried(b, i)', Has(b, j)',
                          j < i
                   PROVE  At(b, j)' = Auth
        BY DEF ChunkFirst, Auth
      <3>1. PICK k : /\ Has(b, k) /\ At(b, i)' = At(b, k)
                     /\ IF b = c THEN i \in Nat /\ k = i + 1 ELSE k = i
        BY <1>2, TakesFrom DEF Carried
      <3>2. PICK l : /\ Has(b, l) /\ At(b, j)' = At(b, l)
                     /\ IF b = c THEN j \in Nat /\ l = j + 1 ELSE l = j
        BY <1>2, TakesFrom
      <3>3. l < k
        BY <3>1, <3>2
      <3> QED
        BY <3>1, <3>2, <3>3 DEF Places, ChunkFirst, Carried
    <2>3. MetaIsLast'
      <3> SUFFICES ASSUME NEW t \in Transfers, spc'[t] = "meta",
                          NEW b, NEW i, Has(b, i)', At(b, i)' = Meta(t),
                          Has(b, i + 1)'
                   PROVE  FALSE
        BY DEF MetaIsLast, Meta
      <3>1. PICK k : /\ Has(b, k) /\ At(b, i)' = At(b, k)
                     /\ IF b = c THEN i \in Nat /\ k = i + 1 ELSE k = i
        BY <1>2, TakesFrom
      <3>2. PICK l : /\ Has(b, l)
                     /\ IF b = c THEN i + 1 \in Nat /\ l = i + 1 + 1
                        ELSE l = i + 1
        BY <1>2, TakesFrom
      <3>3. Has(b, k + 1)
        BY <3>1, <3>2
      <3> QED
        BY <3>1, <3>3 DEF Places, MetaIsLast, In
    <2> QED
      BY <2>1, <2>2, <2>3, <2>4 DEF Places
  <1> QED
    BY <1>1, <1>2

\* A step that puts a frame that is nowhere, while no call has sent META but
\* the one whose META it may be, a chunk only where nothing but AUTH is.
LEMMA PlacesPuts ==
  ASSUME Places, NEW d, NEW g, Puts(d, g), \A b : ~ In(b, g),
         \A t \in Transfers : spc'[t] = "meta" => g = Meta(t),
         g.kind = "chunk" => \A f : In(d, f) => f = Auth
  PROVE  Places'
  <1>1. PICK n \in Nat :
          /\ \A b, i : Has(b, i)' <=> Has(b, i) \/ (b = d /\ i = n)
          /\ \A b, i : Has(b, i) => At(b, i)' = At(b, i) /\ (b = d => i < n)
          /\ At(d, n)' = g
    BY DEF Puts
  <1>2. FrameOnce'
    BY <1>1 DEF Places, FrameOnce, In
  <1>3. ChunkAlone'
    BY <1>1 DEF Places, ChunkAlone, Carried, In, Auth
  <1>4. MetaIsLast'
    <2> SUFFICES ASSUME NEW t \in Transfers, spc'[t] = "meta",
                        NEW b, NEW i, Has(b, i)', At(b, i)' = g,
                        Has(b, i + 1)'
                 PROVE  FALSE
      BY DEF MetaIsLast, Meta
    <2>1. b = d /\ i = n
      BY <1>1 DEF In
    <2>2. Has(d, n + 1)
      BY <1>1, <2>1
    <2> QED
      BY <1>1, <2>2
  <1>5. ChunkFirst'
    <2> SUFFICES ASSUME NEW b, NEW i, NEW j, Carried(b, i)', Has(b, j)', j < i
                 PROVE  At(b, j)' = Auth
      BY DEF ChunkFirst, Auth
    <2>1. CASE Has(b, i)
      <3>0. i \in Nat
        BY <2>1, SMT DEF Has
      <3>1. Has(b, j)
        BY <1>1, <2>1, <3>0
      <3> QED
        BY <1>1, <2>1, <3>1 DEF Places, ChunkFirst, Carried
    <2>2. CASE ~ Has(b, i)
      <3>1. b = d /\ i = n /\ g.kind = "chunk" /\ Has(b, j)
        BY <1>1, <2>2 DEF Carried
      <3> QED
        BY <1>1, <3>1 DEF In
    <2> QED
      BY <2>1, <2>2
  <1> QED
    BY <1>2, <1>3, <1>4, <1>5 DEF Places

\* Opening a connection while no chunk is queued.
LEMMA PlacesOpens ==
  ASSUME Places, NEW c, Opens(c), UNCHANGED spc,
         \A f : In(0, f) => f.kind # "chunk"
  PROVE  Places'
  <1>1. FrameOnce'
    BY OpensApart DEF Places, FrameOnce
  <1>2. ChunkAlone'
    <2> SUFFICES ASSUME NEW b, NEW i, NEW j, Carried(b, i)', Carried(b, j)'
                 PROVE  i = j
      BY DEF ChunkAlone
    <2>1. At(b, i)' # Auth /\ At(b, j)' # Auth
      BY DEF Carried, Auth
    <2>2. PICK a, k, e, l : /\ Has(a, k) /\ At(b, i)' = At(a, k)
                            /\ Has(e, l) /\ At(b, j)' = At(e, l)
                            /\ IF b = c THEN a = 0 /\ e = 0 ELSE a = e
                            /\ i = j <=> k = l
      <3>1. PICK a, k : /\ Has(a, k) /\ At(b, i)' = At(a, k)
                        /\ IF b = c THEN a = 0 /\ i \in Nat /\ k = i - 1
                           ELSE a = b /\ k = i /\ a # 0
        BY <2>1, OpensFrom DEF Carried
      <3>2. PICK e, l : /\ Has(e, l) /\ At(b, j)' = At(e, l)
                        /\ IF b = c THEN e = 0 /\ j \in Nat /\ l = j - 1
                           ELSE e = b /\ l = j /\ e # 0
        BY <2>1, OpensFrom DEF Carried
      <3>3. i = j <=> k = l
        BY <3>1, <3>2
      <3> QED
        BY <3>1, <3>2, <3>3
    <2>3. Carried(a, k) /\ Carried(e, l) /\ a = e
      BY <2>2 DEF Carried
    <2> QED
      BY <2>2, <2>3 DEF Places, ChunkAlone
  <1>3. MetaIsLast'
    <2> SUFFICES ASSUME NEW t \in Transfers, spc[t] = "meta",
                        NEW b, NEW i, Has(b, i)', At(b, i)' = Meta(t),
                        Has(b, i + 1)'
                 PROVE  FALSE
      BY DEF MetaIsLast, Meta
    <2>1. At(b, i)' # Auth
      BY DEF Meta, Auth
    <2>2. PICK a, k : /\ Has(a, k) /\ At(b, i)' = At(a, k)
                      /\ IF b = c THEN a = 0 /\ i \in Nat /\ k = i - 1
                         ELSE a = b /\ k = i /\ a # 0
      BY <2>1, OpensFrom
    <2>3. CASE b = c
      <3>1. i \in Nat /\ i # 0
        BY <2>2, <2>3, SMT DEF Has
      <3>2. i + 1 # 1 /\ i + 1 - 1 = k + 1
        BY <2>2, <2>3, <3>1
      <3>3. Has(0, k + 1)
        BY <2>3, <3>2 DEF Opens
      <3> QED
        BY <2>2, <2>3, <3>3 DEF Places, MetaIsLast
    <2>4. CASE b # c
      <3>1. Has(b, i + 1)
        BY <2>2, <2>4 DEF Opens
      <3> QED
        BY <2>2, <2>4, <3>1 DEF Places, MetaIsLast
    <2> QED
      BY <2>3, <2>4
  <1>4. ChunkFirst'
    <2> SUFFICES ASSUME NEW b, NEW i, NEW j, Carried(b, i)', Has(b, j)', j < i
                 PROVE  At(b, j)' = Auth
      BY DEF ChunkFirst, Auth
    <2>1. PICK a, k : /\ Has(a, k) /\ At(b, i)' = At(a, k)
                      /\ IF b = c THEN a = 0 /\ i \in Nat /\ k = i - 1
                         ELSE a = b /\ k = i /\ a # 0
      BY OpensFrom DEF Carried, Auth
    <2>2. a # 0
      BY <2>1 DEF Carried, In
    <2>3. b # c /\ Has(b, j) /\ At(b, j)' = At(b, j)
      BY <2>1, <2>2 DEF Opens
    <2> QED
      BY <2>1, <2>3 DEF Places, ChunkFirst, Carried
  <1> QED
    BY <1>1, <1>2, <1>3, <1>4 DEF Places

----------------------------------------------------------------------------
(* Frames on their way to the phone, and the contents of files. *)

\* The phone takes the first.
LEMMA DeliverDown ==
  ASSUME PhoneTypeOK, Deliver
  PROVE  /\ InDown(Head(down)) /\ link # "down"
         /\ \A f : InDown(f)' => InDown(f)
  <1>1. /\ down \in Seq(Frames) /\ down # <<>> /\ down' = Tail(down)
        /\ link # "down"
    BY DEF Deliver, PhoneTypeOK
  <1>2. /\ Len(down) \in Nat /\ Len(down) > 0 /\ Head(down) = down[1]
        /\ Len(Tail(down)) = Len(down) - 1
        /\ \A i \in 1 .. Len(Tail(down)) : Tail(down)[i] = down[i + 1]
    BY <1>1, HeadTailProperties, LenProperties, EmptySeq
  <1>3. InDown(Head(down))
    <2>1. 1 \in 1 .. Len(down)
      BY <1>2
    <2> QED
      BY <1>2, <2>1 DEF InDown
  <1>4. ASSUME NEW f, InDown(f)'
        PROVE  InDown(f)
    <2>1. PICK i \in 1 .. Len(Tail(down)) : Tail(down)[i] = f
      BY <1>1, <1>4 DEF InDown
    <2>2. i + 1 \in 1 .. Len(down) /\ down[i + 1] = f
      BY <1>2, <2>1
    <2> QED
      BY <2>2 DEF InDown
  <1> QED
    BY <1>1, <1>3, <1>4

\* A reply gets through only while its connection is up.
LEMMA ReplyDown ==
  ASSUME PhoneTypeOK, NEW c, NEW g \in Frames, Reply(c, <<g>>),
         NEW f, InDown(f)'
  PROVE  InDown(f) \/ (f = g /\ c = conn /\ link = "up")
  <1>1. CASE UNCHANGED down
    BY <1>1 DEF InDown
  <1>2. CASE c = conn /\ link = "up" /\ down' = down \o <<g>>
    <2>1. down \in Seq(Frames) /\ <<g>> \in Seq(Frames) /\ Len(down) \in Nat
      BY LenProperties DEF PhoneTypeOK
    <2>2. down \o <<g>> = Append(down, g)
      BY <2>1, AppendIsConcat
    <2>3. /\ Len(Append(down, g)) = Len(down) + 1
          /\ \A i \in 1 .. Len(down) : Append(down, g)[i] = down[i]
          /\ Append(down, g)[Len(down) + 1] = g
      BY <2>1, AppendProperties
    <2>4. PICK i \in 1 .. Len(Append(down, g)) : Append(down, g)[i] = f
      BY <1>2, <2>2 DEF InDown
    <2> QED
      BY <1>2, <2>1, <2>3, <2>4 DEF InDown
  <1> QED
    BY <1>1, <1>2 DEF Reply

\* What a step adds behind the frames on their way to the phone.
LEMMA ConcatDown ==
  ASSUME PhoneTypeOK, NEW fs \in Seq(Frames), down' = down \o fs,
         NEW f, InDown(f)'
  PROVE  InDown(f) \/ \E i \in 1 .. Len(fs) : fs[i] = f
  <1>1. down \in Seq(Frames) /\ Len(down) \in Nat /\ Len(fs) \in Nat
    BY LenProperties DEF PhoneTypeOK
  <1>2. /\ Len(down \o fs) = Len(down) + Len(fs)
        /\ \A i \in 1 .. Len(down) + Len(fs) :
             (down \o fs)[i] = IF i <= Len(down) THEN down[i]
                               ELSE fs[i - Len(down)]
    BY <1>1, ConcatProperties
  <1>3. PICK i \in 1 .. Len(down \o fs) : (down \o fs)[i] = f
    BY DEF InDown
  <1>4. CASE i <= Len(down)
    BY <1>1, <1>2, <1>3, <1>4 DEF InDown
  <1>5. CASE i > Len(down)
    <2>1. i - Len(down) \in 1 .. Len(fs) /\ fs[i - Len(down)] = f
      BY <1>1, <1>2, <1>3, <1>5
    <2> QED
      BY <2>1
  <1> QED
    BY <1>1, <1>3, <1>4, <1>5

\* A broken connection delivers a prefix.
LEMMA DropDown ==
  ASSUME PhoneTypeOK, Drop, NEW f, InDown(f)'
  PROVE  InDown(f)
  <1>1. down \in Seq(Frames) /\ Len(down) \in Nat
    BY LenProperties DEF PhoneTypeOK
  <1>2. PICK m \in 0 .. Len(down) : down' = SubSeq(down, 1, m)
    BY DEF Drop
  <1>3. /\ Len(SubSeq(down, 1, m)) = m
        /\ \A i \in 1 .. m : SubSeq(down, 1, m)[i] = down[i]
    BY <1>1, <1>2, SubSeqProperties
  <1>4. PICK i \in 1 .. Len(SubSeq(down, 1, m)) : SubSeq(down, 1, m)[i] = f
    BY <1>2 DEF InDown
  <1> QED
    BY <1>1, <1>2, <1>3, <1>4 DEF InDown

\* A prefix of n chunks has n chunks.
LEMMA PrefixLen ==
  ASSUME NEW t \in Transfers, NEW n \in Nat
  PROVE  OwnPrefix(t, n) \in Seq(Chunks) /\ Len(OwnPrefix(t, n)) = n
  <1>1. OwnPrefix(t, n) \in [1 .. n -> Chunks]
    BY DEF OwnPrefix, Chunks
  <1>2. OwnPrefix(t, n) \in Seq(Chunks)
    BY <1>1, SeqDef
  <1>3. DOMAIN OwnPrefix(t, n) = 1 .. n
    BY DEF OwnPrefix
  <1> QED
    BY <1>2, <1>3, LenProperties

\* The prefix of no chunks is the empty file.
LEMMA PrefixZero ==
  ASSUME NEW t \in Transfers
  PROVE  OwnPrefix(t, 0) = <<>>
  BY PrefixLen, EmptySeq

\* The next chunk makes the next prefix.
LEMMA PrefixGrows ==
  ASSUME NEW t \in Transfers, NEW n \in Nat
  PROVE  Append(OwnPrefix(t, n), <<t, n + 1>>) = OwnPrefix(t, n + 1)
  <1> DEFINE s == Append(OwnPrefix(t, n), <<t, n + 1>>)
             p == OwnPrefix(t, n + 1)
  <1>1. /\ OwnPrefix(t, n) \in Seq(Chunks) /\ Len(OwnPrefix(t, n)) = n
        /\ p \in Seq(Chunks) /\ Len(p) = n + 1
    BY PrefixLen
  <1>2. <<t, n + 1>> \in Chunks
    BY DEF Chunks
  <1>3. /\ s \in Seq(Chunks) /\ Len(s) = n + 1
        /\ \A i \in 1 .. n : s[i] = OwnPrefix(t, n)[i]
        /\ s[n + 1] = <<t, n + 1>>
    BY <1>1, <1>2, AppendProperties
  <1>4. /\ \A i \in 1 .. n : OwnPrefix(t, n)[i] = <<t, i>>
        /\ \A i \in 1 .. n + 1 : p[i] = <<t, i>>
    BY DEF OwnPrefix
  <1>5. ASSUME NEW i \in 1 .. n + 1
        PROVE  s[i] = p[i]
    <2>1. p[i] = <<t, i>>
      BY <1>4
    <2> HIDE DEF s, p
    <2>2. CASE i = n + 1
      BY <1>3, <2>1, <2>2
    <2>3. CASE i # n + 1
      BY <1>3, <1>4, <2>1, <2>3
    <2> QED
      BY <2>2, <2>3
  <1> HIDE DEF s, p
  <1> QED
    BY <1>1, <1>3, <1>5, SeqEqual DEF s, p

----------------------------------------------------------------------------
(* The phone's steps. *)

\* Frame f goes to the open socket or, while the phone knows it has none, to
\* the queue; or nowhere.
Goes(f) ==
  \/ Stays
  \/ \E c : /\ \/ link = "up" /\ c = conn
               \/ link = "down" /\ c = 0
            /\ Puts(c, f)

\* _send and sendBinary do no more.
LEMMA SendGoes ==
  ASSUME PhoneTypeOK, NEW f \in Frames, UNCHANGED conn,
         Send(f) \/ SendBinary(f)
  PROVE  Goes(f)
  <1>1. PICK c : c = conn
    OBVIOUS
  <1>2. Puts(conn, f) => Puts(c, f)
    BY <1>1 DEF Puts
  <1> QED
    BY <1>1, <1>2, SendPuts, SendBinaryPuts DEF Goes

\* Where frames are after that.
LEMMA GoesIn ==
  ASSUME NEW g, Goes(g), NEW b, NEW f, In(b, f)'
  PROVE  \/ In(b, f)
         \/ f = g /\ link = "up" /\ b = conn
         \/ f = g /\ link = "down" /\ b = 0
  BY PutsIn, StaysIn DEF Goes

\* The types every proof below starts from.
LEMMA LineTypes ==
  ASSUME PhoneInv, ReceiverTypeOK
  PROVE  /\ spc \in [Transfers -> SendStates] /\ idx \in [Transfers -> Nat]
         /\ conn \in 0 .. MaxConns /\ (link # "down" => conn \in Conns)
         /\ link \in {"up", "dead", "down"}
         /\ active \in [Conns -> Transfers \cup {NONE}]
         /\ stream \in [Transfers -> {"none", "open", "ending", "closed"}]
         /\ written \in [Transfers -> Seq(Chunks)]
         /\ NumChunks \in [Transfers -> Nat] /\ NONE \notin Transfers
         /\ MaxConns \in Nat
         /\ PhoneTypeOK
  BY PhoneAssumption, SocketAssumption
  DEF PhoneInv, PhoneTypeOK, ReceiverTypeOK

\* The queue stays empty while the phone sees a socket.
LEMMA GoesChannels ==
  ASSUME PhoneInv, ReceiverTypeOK, Channels, NEW g, Goes(g),
         UNCHANGED <<link, conn, active>>,
         \A f : InDown(f)' => InDown(f)
  PROVE  Channels'
  BY GoesIn, LineTypes DEF Channels

\* A call starts.
LEMMA LineStartSend ==
  ASSUME PhoneInv, ReceiverTypeOK, InLine, NEW t \in Transfers,
         StartSend(t), ~ Overlap, UNCHANGED receiverVars
  PROVE  InLine'
  <1>0. /\ spc \in [Transfers -> SendStates] /\ idx \in [Transfers -> Nat]
        /\ active \in [Conns -> Transfers \cup {NONE}]
        /\ PhoneTypeOK
    BY LineTypes
  <1>1. /\ spc[t] = "idle" /\ \A u \in Transfers : ~ Sending(u)
        /\ spc' = [spc EXCEPT ![t] = "meta"]
        /\ UNCHANGED <<idx, link, conn, down>>
        /\ UNCHANGED <<active, stream, transfers, written>>
    BY DEF StartSend, PicksFile, receiverVars
  <1>2. /\ spc'[t] = "meta"
        /\ \A u \in Transfers : u # t => spc'[u] = spc[u]
        /\ \A u \in Transfers : ~ (spc[u] \in {"meta", "reading", "chunk"})
    BY <1>0, <1>1 DEF Sending
  <1>3. Goes(Meta(t))
    BY <1>0, <1>1, FrameTypes, SendGoes DEF StartSend
  <1>4. \A b, f : In(b, f)' => In(b, f) \/ f = Meta(t)
    BY <1>3, GoesIn
  <1>5. \A b : ~ In(b, Meta(t))
    BY <1>1 DEF InLine, MetasInv
  <1>6. \A f : InDown(f)' <=> InDown(f)
    BY <1>1 DEF InDown
  <1>7. OneSender'
    BY <1>2 DEF OneSender, Sending
  <1>8. Channels'
    BY <1>1, <1>3, <1>6, GoesChannels DEF InLine
  <1>9. MetasInv'
    BY <1>1, <1>2, <1>4, FramesDiffer DEF InLine, MetasInv, FilesInv
  <1>10. \A u \in Transfers, c \in Conns : Tolerated(u, c) => Tolerated(u, c)'
    BY <1>0, <1>1, <1>2 DEF Tolerated
  <1>11. ChunksInv'
    <2> SUFFICES ASSUME NEW b, NEW u \in Transfers, NEW k \in Nat,
                        In(b, Chunk(u, k))'
                 PROVE  /\ b \in Conns /\ Tolerated(u, b)'
                        /\ spc'[u] \in {"chunk", "failed"}
                        /\ k = idx'[u] + 1 /\ k <= NumChunks[u]
                        /\ spc'[u] = "chunk"
                             => written'[u] = OwnPrefix(u, idx'[u])
      BY <1>1 DEF ChunksInv
    <2>1. In(b, Chunk(u, k))
      BY <1>4, FramesDiffer
    <2> QED
      BY <1>1, <1>2, <1>10, <2>1 DEF InLine, ChunksInv
  <1>12. EndsInv'
    BY <1>1, <1>2, <1>4, FramesDiffer DEF InLine, EndsInv
  <1>13. Places'
    <2>1. ASSUME NEW c, Puts(c, Meta(t))
          PROVE  Places'
      BY <1>2, <1>5, <2>1, PlacesPuts DEF InLine, Meta
    <2> QED
      BY <1>2, <1>3, <1>5, <2>1, PlacesFewer DEF Goes, InLine
  <1>14. Quiet'
    BY <1>2 DEF Quiet
  <1>15. Acks'
    BY <1>1, <1>2, <1>6 DEF InLine, Acks, FilesInv
  <1>16. FilesInv'
    BY <1>1, <1>2 DEF InLine, FilesInv
  <1>17. ActiveInv'
    BY <1>1 DEF InLine, ActiveInv
  <1> QED
    BY <1>7, <1>8, <1>9, <1>11, <1>12, <1>13, <1>14, <1>15, <1>16, <1>17
    DEF InLine

\* A call sends its chunk: nothing else of a call at work is on its way.
LEMMA LineSendChunk ==
  ASSUME PhoneInv, ReceiverTypeOK, InLine, NEW t \in Transfers,
         SendChunk(t), UNCHANGED receiverVars
  PROVE  InLine'
  <1>0. /\ spc \in [Transfers -> SendStates] /\ idx \in [Transfers -> Nat]
        /\ active \in [Conns -> Transfers \cup {NONE}]
        /\ PhoneTypeOK
    BY LineTypes
  <1>1. /\ spc[t] = "reading"
        /\ spc' = [spc EXCEPT ![t] = "chunk"]
        /\ UNCHANGED <<idx, link, conn, down>>
        /\ UNCHANGED <<active, stream, transfers, written>>
    BY DEF SendChunk, receiverVars
  <1>2. /\ spc'[t] = "chunk"
        /\ \A u \in Transfers : u # t => spc'[u] = spc[u]
        /\ \A u \in Transfers : u # t =>
             ~ (spc[u] \in {"meta", "reading", "chunk"})
    BY <1>0, <1>1 DEF Sending, InLine, OneSender
  <1> DEFINE n == idx[t] + 1
  <1>3. PICK f : f = Chunk(t, n)
    OBVIOUS
  <1>4. f \in Frames /\ n \in Nat /\ n <= NumChunks[t] /\ f.kind = "chunk"
    <2>1. n \in Nat /\ n <= NumChunks[t]
      BY <1>0, <1>1, LineTypes DEF PhoneInv, IdxInv
    <2> QED
      BY <1>3, <2>1, FrameTypes DEF Chunk
  <1>5. Goes(f) /\ (link # "up" => Stays)
    BY <1>0, <1>1, <1>3, <1>4, SendGoes, SendBinaryPuts DEF SendChunk
  <1>6. \A b, g : In(b, g)' => In(b, g) \/ (g = f /\ b = conn /\ link = "up")
    BY <1>5, GoesIn, StaysIn
  <1>7. \A b : ~ In(b, f)
    BY <1>1, <1>3, <1>4 DEF InLine, ChunksInv
  <1>8. \A g : InDown(g)' <=> InDown(g)
    BY <1>1 DEF InDown
  <1>9. /\ stream[t] = "open" /\ \A g : ~ In(0, g)
        /\ conn \in Conns /\ Tolerated(t, conn)
        /\ \A g : In(conn, g) => g = Auth
    BY <1>1 DEF InLine, Quiet
  <1>10. written[t] = OwnPrefix(t, idx[t])
    BY <1>1 DEF InLine, FilesInv
  <1>11. OneSender'
    BY <1>2 DEF OneSender, Sending
  <1>12. Channels'
    BY <1>1, <1>5, <1>8, GoesChannels DEF InLine
  <1>13. MetasInv'
    BY <1>1, <1>2, <1>3, <1>6, FramesDiffer DEF InLine, MetasInv
  <1>14. \A u \in Transfers, c \in Conns : Tolerated(u, c) => Tolerated(u, c)'
    BY <1>0, <1>1, <1>2 DEF Tolerated
  <1>15. ChunksInv'
    <2> SUFFICES ASSUME NEW b, NEW u \in Transfers, NEW k \in Nat,
                        In(b, Chunk(u, k))'
                 PROVE  /\ b \in Conns /\ Tolerated(u, b)'
                        /\ spc'[u] \in {"chunk", "failed"}
                        /\ k = idx[u] + 1 /\ k <= NumChunks[u]
                        /\ spc'[u] = "chunk"
                             => written[u] = OwnPrefix(u, idx[u])
      BY <1>1 DEF ChunksInv
    <2>1. CASE In(b, Chunk(u, k))
      <3>1. u # t
        BY <1>1, <2>1 DEF InLine, ChunksInv
      <3> QED
        BY <1>2, <1>14, <2>1, <3>1 DEF InLine, ChunksInv
    <2>2. CASE u = t /\ k = n /\ b = conn
      BY <1>2, <1>4, <1>9, <1>10, <1>14, <2>2
    <2> QED
      BY <1>3, <1>6, <2>1, <2>2, FramesDiffer
  <1>16. EndsInv'
    BY <1>1, <1>2, <1>3, <1>6, FramesDiffer DEF InLine, EndsInv
  <1>17. Places'
    <2>1. ASSUME NEW c, Puts(c, f), link = "up", c = conn
          PROVE  Places'
      BY <1>2, <1>4, <1>7, <1>9, <2>1, PlacesPuts DEF InLine, Auth
    <2>2. CASE Stays
      BY <1>2, <2>2, PlacesFewer DEF InLine
    <2> QED
      BY <1>5, <2>1, <2>2 DEF Goes
  <1>18. Quiet'
    <2> SUFFICES ASSUME NEW g, NEW c, c = conn
                 PROVE  /\ stream[t] = "open" /\ ~ In(0, g)'
                        /\ c \in Conns /\ Tolerated(t, c)'
                        /\ In(c, g)' => g = Auth \/ g = Chunk(t, idx[t] + 1)
      BY <1>1, <1>2 DEF Quiet
    <2> QED
      BY <1>3, <1>6, <1>9, <1>14, ConnBox
  <1>19. Acks'
    BY <1>1, <1>2, <1>8 DEF InLine, Acks
  <1>20. FilesInv'
    BY <1>1, <1>2, <1>9, <1>10 DEF InLine, FilesInv
  <1>21. ActiveInv'
    BY <1>1 DEF InLine, ActiveInv
  <1> QED
    BY <1>11, <1>12, <1>13, <1>15, <1>16, <1>17, <1>18, <1>19, <1>20, <1>21
    DEF InLine

\* A call gives up: what it has sent stays where it is, and is tolerated.
LEMMA LineFail ==
  ASSUME PhoneInv, ReceiverTypeOK, InLine, NEW t \in Transfers,
         Timeout(t) \/ ReadFails(t), UNCHANGED receiverVars
  PROVE  InLine'
  <1>0. /\ spc \in [Transfers -> SendStates] /\ idx \in [Transfers -> Nat]
        /\ active \in [Conns -> Transfers \cup {NONE}]
        /\ PhoneTypeOK
    BY LineTypes
  <1>1. /\ spc[t] \in {"meta", "reading", "chunk"}
        /\ spc' = [spc EXCEPT ![t] = "failed"]
        /\ UNCHANGED <<idx, link, conn, down, pending, up>>
        /\ UNCHANGED <<active, stream, transfers, written>>
    BY DEF Timeout, ReadFails, receiverVars
  <1>2. /\ spc'[t] = "failed"
        /\ \A u \in Transfers : u # t => spc'[u] = spc[u]
    BY <1>0, <1>1
  <1>3. Stays
    BY <1>1, UnchangedStays
  <1>4. /\ \A b, f : In(b, f)' <=> In(b, f)
        /\ \A f : InDown(f)' <=> InDown(f)
    BY <1>1, <1>3, StaysIn DEF InDown
  <1>5. \A u \in Transfers, c \in Conns : Tolerated(u, c) => Tolerated(u, c)'
    BY <1>0, <1>1, <1>2 DEF Tolerated
  <1>6. OneSender'
    BY <1>1, <1>2 DEF InLine, OneSender, Sending
  <1>7. Channels'
    BY <1>1, <1>4 DEF InLine, Channels
  <1>8. MetasInv' /\ EndsInv'
    BY <1>1, <1>2, <1>4 DEF InLine, MetasInv, EndsInv
  <1>9. ChunksInv'
    BY <1>1, <1>2, <1>4, <1>5 DEF InLine, ChunksInv
  <1>10. Places'
    BY <1>2, <1>3, PlacesFewer DEF InLine
  <1>11. Quiet'
    BY <1>1, <1>2, <1>4, <1>5 DEF InLine, Quiet
  <1>12. Acks'
    <2>1. \A f : InDown(f) => conn \in Conns
      BY LineTypes DEF InLine, Channels
    <2> QED
      BY <1>1, <1>2, <1>4, <1>5, <2>1 DEF InLine, Acks
  <1>13. FilesInv'
    BY <1>1, <1>2 DEF InLine, FilesInv
  <1>14. ActiveInv'
    BY <1>1 DEF InLine, ActiveInv
  <1> QED
    BY <1>6, <1>7, <1>8, <1>9, <1>10, <1>11, <1>12, <1>13, <1>14 DEF InLine

\* The ACK a call waits for tells it that its last frame has arrived: nothing
\* of the call is on its way, and its file is what it should be.
LEMMA AckedFacts ==
  ASSUME PhoneInv, ReceiverTypeOK, InLine, NEW t \in Transfers,
         MetaAcked(t) \/ ChunkAcked(t)
  PROVE  \E n \in 0 .. NumChunks[t] :
           /\ n = 0 \/ n = idx[t] + 1
           /\ Proceed(t, n) /\ idx' = [idx EXCEPT ![t] = n]
           /\ written[t] = OwnPrefix(t, n)
           /\ spc[t] \in {"meta", "chunk"} /\ stream[t] = "open"
           /\ conn \in Conns /\ Tolerated(t, conn)
           /\ \A f : ~ In(0, f) /\ (In(conn, f) => f = Auth)
           /\ \A b : /\ ~ In(b, Meta(t)) /\ ~ In(b, End(t))
                     /\ \A k \in Nat : ~ In(b, Chunk(t, k))
  <1>0. /\ spc \in [Transfers -> SendStates] /\ idx \in [Transfers -> Nat]
        /\ PhoneTypeOK /\ NumChunks[t] \in Nat
        /\ stream[t] \in {"none", "open", "ending", "closed"}
        /\ link # "down" => conn \in Conns
    BY LineTypes
  <1>1. InDown(Head(down)) /\ link # "down" /\ Head(down) \in Frames
    <2>1. down \in Seq(Frames) /\ down # <<>> /\ Deliver
      BY <1>0 DEF MetaAcked, ChunkAcked, Deliver, PhoneTypeOK
    <2> QED
      BY <1>0, <2>1, DeliverDown, HeadTailProperties
  <1>2. \A f : ~ In(0, f)
    BY <1>1 DEF InLine, Channels
  <1>3. CASE MetaAcked(t)
    <2>1. /\ spc[t] = "meta" /\ Head(down).kind = "metaAck"
          /\ Head(down).t = t /\ Proceed(t, 0) /\ idx' = idx
      BY <1>3 DEF MetaAcked, AwaitedMeta
    <2>3. idx[t] = 0 /\ idx' = [idx EXCEPT ![t] = 0]
      BY <1>0, <2>1 DEF PhoneInv, IdxInv
    <2>4. /\ stream[t] # "none" /\ Tolerated(t, conn)
          /\ \A f : ~ In(conn, f)
      BY <1>1, <2>1 DEF InLine, Acks
    <2>5. stream[t] = "open" /\ written[t] = OwnPrefix(t, 0)
      BY <1>0, <2>1, <2>4, PrefixZero DEF InLine, FilesInv
    <2>6. \A b : /\ ~ In(b, Meta(t)) /\ ~ In(b, End(t))
                 /\ \A k \in Nat : ~ In(b, Chunk(t, k))
      BY <2>1, <2>4 DEF InLine, MetasInv, EndsInv, ChunksInv
    <2> QED
      BY <1>0, <1>1, <1>2, <2>1, <2>3, <2>4, <2>5, <2>6
  <1>4. CASE ChunkAcked(t)
    <2> DEFINE n == idx[t] + 1
    <2>1. /\ spc[t] = "chunk" /\ Head(down).kind = "chunkAck"
          /\ Head(down).t = t /\ Head(down).k = n
          /\ Proceed(t, n) /\ idx' = [idx EXCEPT ![t] = n]
      BY <1>4 DEF ChunkAcked, AwaitedChunk
    <2>2. n \in Nat /\ n \in 0 .. NumChunks[t]
      BY <1>0, <2>1 DEF PhoneInv, IdxInv
    <2>3. Head(down) = ChunkAck(t, n)
      BY <1>1, <2>1 DEF Frames, Auth, ChunkAck
    <2>4. n <= Len(written[t])
      BY <1>1, <2>2, <2>3 DEF InLine, Acks
    <2>5. written[t] # OwnPrefix(t, idx[t])
      BY <1>0, <2>2, <2>4, PrefixLen
    <2>6. written[t] = OwnPrefix(t, n)
      BY <2>1, <2>5 DEF InLine, FilesInv
    <2>7. /\ stream[t] = "open" /\ conn \in Conns /\ Tolerated(t, conn)
          /\ \A f : In(conn, f) => f = Auth \/ f = Chunk(t, n)
      BY <2>1 DEF InLine, Quiet
    <2>8. \A b : /\ ~ In(b, Meta(t)) /\ ~ In(b, End(t))
                 /\ \A k \in Nat : ~ In(b, Chunk(t, k))
      BY <2>1, <2>5 DEF InLine, MetasInv, EndsInv, ChunksInv
    <2>9. \A f : In(conn, f) => f = Auth
      BY <2>2, <2>7, <2>8
    <2> QED
      BY <1>2, <2>1, <2>2, <2>6, <2>7, <2>8, <2>9
  <1> QED
    BY <1>3, <1>4

\* A call accepts its ACK and goes on to the next chunk, or to FILE_END.
LEMMA LineAcked ==
  ASSUME PhoneInv, ReceiverTypeOK, InLine, NEW t \in Transfers,
         MetaAcked(t) \/ ChunkAcked(t), UNCHANGED receiverVars
  PROVE  InLine'
  <1>0. /\ spc \in [Transfers -> SendStates] /\ idx \in [Transfers -> Nat]
        /\ active \in [Conns -> Transfers \cup {NONE}]
        /\ PhoneTypeOK /\ NumChunks \in [Transfers -> Nat]
    BY LineTypes
  <1>1. PICK n \in 0 .. NumChunks[t] :
           /\ n = 0 \/ n = idx[t] + 1
           /\ Proceed(t, n) /\ idx' = [idx EXCEPT ![t] = n]
           /\ written[t] = OwnPrefix(t, n)
           /\ spc[t] \in {"meta", "chunk"} /\ stream[t] = "open"
           /\ conn \in Conns /\ Tolerated(t, conn)
           /\ \A f : ~ In(0, f) /\ (In(conn, f) => f = Auth)
           /\ \A b : /\ ~ In(b, Meta(t)) /\ ~ In(b, End(t))
                     /\ \A k \in Nat : ~ In(b, Chunk(t, k))
    BY AckedFacts
  <1>2. /\ Deliver /\ UNCHANGED <<link, conn>>
        /\ UNCHANGED <<active, stream, transfers, written>>
    BY DEF MetaAcked, ChunkAcked, Deliver, receiverVars
  <1>3. PICK s \in {"reading", "done"} :
          /\ spc' = [spc EXCEPT ![t] = s]
          /\ s = "reading" => n < NumChunks[t]
          /\ s = "done" => n = NumChunks[t]
          /\ Goes(End(t)) /\ (s = "reading" => Stays)
    <2>1. CASE n < NumChunks[t]
      <3>1. spc' = [spc EXCEPT ![t] = "reading"] /\ UNCHANGED <<up, pending>>
        BY <1>0, <1>1, <2>1 DEF Proceed
      <3> QED
        BY <2>1, <3>1, UnchangedStays DEF Goes
    <2>2. CASE n = NumChunks[t]
      <3>1. spc' = [spc EXCEPT ![t] = "done"] /\ Send(End(t))
        BY <1>0, <1>1, <2>2 DEF Proceed
      <3> QED
        BY <1>0, <1>2, <2>2, <3>1, FrameTypes, SendGoes
    <2> QED
      BY <1>0, <2>1, <2>2
  <1>4. /\ spc'[t] = s /\ idx'[t] = n
        /\ \A u \in Transfers : u # t => spc'[u] = spc[u] /\ idx'[u] = idx[u]
        /\ \A u \in Transfers : u # t =>
             ~ (spc[u] \in {"meta", "reading", "chunk"})
    BY <1>0, <1>1, <1>3 DEF Sending, InLine, OneSender
  <1>5. \A b, g : In(b, g)' => \/ In(b, g)
                               \/ g = End(t) /\ s = "done"
    BY <1>3, GoesIn, StaysIn
  <1>6. \A g : InDown(g)' => InDown(g)
    BY <1>0, <1>2, DeliverDown
  <1>7. \A u \in Transfers, c \in Conns : Tolerated(u, c) => Tolerated(u, c)'
    BY <1>0, <1>1, <1>2, <1>4 DEF Tolerated
  <1>8. OneSender'
    BY <1>4 DEF OneSender, Sending
  <1>9. Channels'
    BY <1>2, <1>3, <1>6, GoesChannels DEF InLine
  <1>10. MetasInv'
    BY <1>1, <1>2, <1>4, <1>5, FramesDiffer DEF InLine, MetasInv
  <1>11. ChunksInv'
    <2> SUFFICES ASSUME NEW b, NEW u \in Transfers, NEW k \in Nat,
                        In(b, Chunk(u, k))'
                 PROVE  /\ b \in Conns /\ Tolerated(u, b)'
                        /\ spc'[u] \in {"chunk", "failed"}
                        /\ k = idx'[u] + 1 /\ k <= NumChunks[u]
                        /\ spc'[u] = "chunk"
                             => written[u] = OwnPrefix(u, idx[u])'
      BY <1>2 DEF ChunksInv
    <2>1. In(b, Chunk(u, k))
      BY <1>5, FramesDiffer
    <2>2. u # t
      BY <1>1, <2>1
    <2> QED
      BY <1>4, <1>7, <2>1, <2>2 DEF InLine, ChunksInv
  <1>12. EndsInv'
    BY <1>1, <1>2, <1>4, <1>5, FramesDiffer DEF InLine, EndsInv
  <1>13. Places'
    <2>1. ASSUME NEW c, Puts(c, End(t))
          PROVE  Places'
      BY <1>1, <1>3, <1>4, <2>1, PlacesPuts DEF InLine, End
    <2>2. CASE Stays
      BY <1>3, <1>4, <2>2, PlacesFewer DEF InLine
    <2> QED
      BY <1>3, <2>1, <2>2 DEF Goes
  <1>14. Quiet'
    <2> SUFFICES ASSUME s = "reading", NEW g, NEW c, c = conn
                 PROVE  /\ stream[t] = "open" /\ ~ In(0, g)'
                        /\ c \in Conns /\ Tolerated(t, c)'
                        /\ In(c, g)' => g = Auth
      BY <1>2, <1>3, <1>4 DEF Quiet
    <2> QED
      BY <1>1, <1>5, <1>7
  <1>15. Acks'
    BY <1>2, <1>3, <1>4, <1>6 DEF InLine, Acks
  <1>16. FilesInv'
    BY <1>1, <1>2, <1>3, <1>4 DEF InLine, FilesInv
  <1>17. ActiveInv'
    BY <1>2 DEF InLine, ActiveInv
  <1> QED
    BY <1>8, <1>9, <1>10, <1>11, <1>12, <1>13, <1>14, <1>15, <1>16, <1>17
    DEF InLine

\* The socket: a new connection starts with AUTH and what was queued, a
\* broken one keeps what had arrived.
LEMMA LineConnect ==
  ASSUME PhoneInv, ReceiverTypeOK, InLine, Connect, UNCHANGED <<spc, idx>>,
         UNCHANGED <<active, stream, transfers, written>>
  PROVE  InLine'
  <1>0. /\ spc \in [Transfers -> SendStates] /\ idx \in [Transfers -> Nat]
        /\ active \in [Conns -> Transfers \cup {NONE}]
        /\ PhoneTypeOK /\ conn \in 0 .. MaxConns /\ MaxConns \in Nat
    BY LineTypes
  <1>1. PICK c : c = conn + 1
    OBVIOUS
  <1>2. /\ link = "down" /\ link' = "up" /\ conn' = c /\ UNCHANGED down
        /\ c > conn /\ c \in Conns /\ c # 0 /\ Opens(c)
        /\ UNCHANGED <<spc, idx, active, stream, transfers, written>>
    BY <1>0, <1>1, ConnectOpens DEF Connect
  <1>3. \A b, f : In(b, f)' => /\ b # 0
                               /\ b = c => f = Auth \/ In(0, f)
                               /\ b # c => In(b, f)
    BY <1>2, OpensIn
  <1>4. \A f : ~ InDown(f) /\ ~ InDown(f)'
    BY <1>2 DEF InLine, Channels, InDown
  <1>5. active[c] = NONE /\ \A f : ~ In(c, f)
    BY <1>2 DEF InLine, Channels
  <1>6. \A t \in Transfers : \A b \in Conns :
          Tolerated(t, b)' <=> Tolerated(t, b)
    BY <1>2 DEF Tolerated
  <1>7. OneSender'
    BY <1>2 DEF InLine, OneSender, Sending
  <1>8. Channels'
    BY <1>0, <1>1, <1>2, <1>3, <1>4 DEF InLine, Channels
  <1>9. MetasInv'
    BY <1>2, <1>3, FramesDiffer DEF InLine, MetasInv
  <1>10. \A t \in Transfers : \A k \in Nat : ~ In(0, Chunk(t, k))
    <2>1. 0 \notin Conns
      BY ConnBox
    <2> QED
      BY <2>1 DEF InLine, ChunksInv
  <1>11. ChunksInv'
    BY <1>2, <1>3, <1>6, <1>10, FramesDiffer DEF InLine, ChunksInv
  <1>12. EndsInv'
    BY <1>2, <1>3, FramesDiffer DEF InLine, EndsInv
  <1>13. Places'
    <2>1. ASSUME NEW f, In(0, f)
          PROVE  f.kind # "chunk"
      <3>1. f \in Frames
        BY <1>0, <2>1, InType
      <3>2. f.kind = "chunk" => /\ f = Chunk(f.t, f.k)
                                /\ f.t \in Transfers /\ f.k \in Nat
        BY <3>1 DEF Frames, Auth, Chunk
      <3> QED
        BY <1>10, <2>1, <3>2
    <2> QED
      BY <1>2, <2>1, PlacesOpens DEF InLine
  <1>14. Quiet'
    <2> SUFFICES ASSUME NEW t \in Transfers, spc[t] \in {"reading", "chunk"},
                        NEW f
                 PROVE  /\ stream[t] = "open" /\ ~ In(0, f)'
                        /\ Tolerated(t, c)'
                        /\ In(c, f)' => f = Auth
      BY <1>2 DEF Quiet
    <2>1. stream[t] = "open" /\ \A g : ~ In(0, g)
      BY DEF InLine, Quiet
    <2>2. Tolerated(t, c)
      BY <1>5 DEF Tolerated
    <2> QED
      BY <1>2, <1>3, <1>6, <2>1, <2>2
  <1>15. Acks'
    BY <1>4 DEF Acks
  <1>16. FilesInv' /\ ActiveInv'
    BY <1>2 DEF InLine, FilesInv, ActiveInv
  <1> QED
    BY <1>7, <1>8, <1>9, <1>11, <1>12, <1>13, <1>14, <1>15, <1>16 DEF InLine

\* No call, file or connection changes, and no frame is added.
Calm ==
  /\ UNCHANGED <<spc, idx, conn>>
  /\ Places'
  /\ \A b, f : In(b, f)' => In(b, f)

\* A step that changes the files in no way.
LEMMA LineCalm ==
  ASSUME PhoneInv, ReceiverTypeOK, InLine, Calm, Channels',
         UNCHANGED <<active, stream, transfers, written>>,
         \A f : InDown(f)' =>
           \/ InDown(f)
           \/ \E t \in Transfers : f = ChunkAck(t, Received(t))
  PROVE  InLine'
  <1>1. UNCHANGED <<spc, idx, conn, active, stream, transfers, written>>
    BY DEF Calm
  <1>2. \A b, f : In(b, f)' => In(b, f)
    BY DEF Calm
  <1>3. \A t, c : Tolerated(t, c)' <=> Tolerated(t, c)
    BY <1>1 DEF Tolerated
  <1>4. OneSender' /\ FilesInv' /\ ActiveInv'
    BY <1>1 DEF InLine, OneSender, Sending, FilesInv, ActiveInv
  <1>5. MetasInv' /\ EndsInv'
    BY <1>1, <1>2 DEF InLine, MetasInv, EndsInv
  <1>6. ChunksInv'
    BY <1>1, <1>2, <1>3 DEF InLine, ChunksInv
  <1>7. Quiet'
    BY <1>1, <1>2, <1>3 DEF InLine, Quiet
  <1>8. Acks'
    <2>1. ASSUME NEW t \in Transfers, NEW f, InDown(f)', f.kind = "metaAck",
                 f.t = t
          PROVE  /\ stream'[t] # "none"
                 /\ spc'[t] = "meta" =>
                      \A c : c = conn' =>
                        Tolerated(t, c)' /\ \A g : ~ In(c, g)'
      <3>1. InDown(f)
        BY <2>1 DEF ChunkAck
      <3> QED
        BY <1>1, <1>2, <1>3, <2>1, <3>1 DEF InLine, Acks
    <2>2. ASSUME NEW t \in Transfers, NEW k \in Nat, InDown(ChunkAck(t, k))'
          PROVE  k <= Len(written'[t])
      <3>1. CASE InDown(ChunkAck(t, k))
        BY <1>1, <3>1 DEF InLine, Acks
      <3>2. CASE \E u \in Transfers : ChunkAck(t, k) = ChunkAck(u, Received(u))
        BY <1>1, <3>2, AcksDiffer DEF Received
      <3> QED
        BY <2>2, <3>1, <3>2
    <2> QED
      BY <2>1, <2>2 DEF Acks
  <1> QED
    BY <1>4, <1>5, <1>6, <1>7, <1>8 DEF InLine, Calm

\* The other steps of the socket.
LEMMA LineSocket ==
  ASSUME PhoneInv, ReceiverTypeOK, InLine, SocketMoves, UNCHANGED receiverVars
  PROVE  InLine'
  <1>0. /\ PhoneTypeOK
        /\ UNCHANGED <<spc, idx, active, stream, transfers, written>>
    BY LineTypes DEF SocketMoves, receiverVars
  <1>1. CASE Connect
    BY <1>0, <1>1, LineConnect
  <1>2. CASE Drop
    <2>1. link = "up" /\ link' = "dead" /\ UNCHANGED conn /\ Cuts
      BY <1>0, <1>2, DropCuts DEF Drop
    <2>2. /\ \A b, f : In(b, f)' => In(b, f)
          /\ \A f : InDown(f)' => InDown(f)
      BY <1>0, <1>2, <2>1, CutsIn, DropDown
    <2>3. Places'
      BY <1>0, <2>1, PlacesFewer DEF InLine
    <2>4. Channels'
      BY <1>0, <2>1, <2>2 DEF InLine, Channels
    <2> QED
      BY <1>0, <2>1, <2>2, <2>3, <2>4, LineCalm DEF Calm
  <1>3. CASE NoticeClose
    <2>1. /\ link = "dead" /\ link' = "down" /\ UNCHANGED conn /\ down' = <<>>
          /\ UNCHANGED <<pending, up>>
      BY <1>3 DEF NoticeClose
    <2>2. /\ Stays /\ \A b, f : In(b, f)' => In(b, f)
          /\ \A f : ~ InDown(f)'
      BY <2>1, UnchangedStays, StaysIn, EmptySeq DEF InDown
    <2>3. Places'
      BY <1>0, <2>2, PlacesFewer DEF InLine
    <2>4. Channels'
      BY <1>0, <2>1, <2>2 DEF InLine, Channels
    <2> QED
      BY <1>0, <2>1, <2>2, <2>3, <2>4, LineCalm DEF Calm
  <1>4. CASE IgnoreFrame
    <2>1. Deliver /\ UNCHANGED <<link, conn, pending, up>>
      BY <1>4 DEF IgnoreFrame, Deliver
    <2>2. /\ Stays /\ \A b, f : In(b, f)' => In(b, f)
          /\ \A f : InDown(f)' => InDown(f)
      BY <1>0, <2>1, UnchangedStays, StaysIn, DeliverDown
    <2>3. Places'
      BY <1>0, <2>2, PlacesFewer DEF InLine
    <2>4. Channels'
      BY <1>0, <2>1, <2>2 DEF InLine, Channels
    <2> QED
      BY <1>0, <2>1, <2>2, <2>3, <2>4, LineCalm DEF Calm
  <1> QED
    BY <1>1, <1>2, <1>3, <1>4 DEF SocketMoves

----------------------------------------------------------------------------
(* The server's steps, by their effects. *)

\* A handler's step takes a frame away and does nothing else to the phone.
LEMMA TakeCalm ==
  ASSUME PhoneInv, ReceiverTypeOK, InLine, NEW c \in Conns, NEW kind,
         Take(c, kind)
  PROVE  /\ Calm /\ UNCHANGED link
         /\ c <= conn
         /\ \E f \in Frames :
              /\ f = Head(up[c]) /\ f.kind = kind /\ In(c, f)
              /\ \A b : In(b, f)' => f = Auth
  <1>0. PhoneTypeOK /\ conn \in 0 .. MaxConns /\ MaxConns \in Nat
    BY LineTypes
  <1>1. /\ Takes(c) /\ At(c, 1) = Head(up[c]) /\ At(c, 1).kind = kind
        /\ UNCHANGED <<spc, idx, conn, link>>
    BY <1>0, TakeTakes DEF Take, TakeFrame
  <1>2. Has(c, 1)
    BY <1>1 DEF Takes
  <1>3. PICK f : f = Head(up[c])
    OBVIOUS
  <1>4. In(c, f) /\ f \in Frames /\ f.kind = kind
    <2>1. In(c, f)
      BY <1>1, <1>2, <1>3 DEF In
    <2> QED
      BY <1>0, <1>1, <1>3, <2>1, InType
  <1>5. \A b, g : In(b, g)' => In(b, g) /\ (g = At(c, 1) => g = Auth)
    BY <1>1, TakesIn DEF InLine, Places
  <1>6. \A b : In(b, f)' => f = Auth
    BY <1>1, <1>3, <1>5
  <1>7. Places'
    BY <1>1, PlacesFewer DEF InLine
  <1>8. c <= conn
    BY <1>0, <1>4 DEF InLine, Channels
  <1>9. Calm
    BY <1>1, <1>5, <1>7 DEF Calm
  <1> QED
    BY <1>1, <1>3, <1>4, <1>6, <1>8, <1>9

\* A continuation takes nothing and puts nothing.
LEMMA RestCalm ==
  ASSUME PhoneInv, ReceiverTypeOK, InLine, PhoneRests
  PROVE  Calm /\ UNCHANGED link
  <1>1. Stays /\ UNCHANGED <<spc, idx, conn, link>>
    BY UnchangedStays DEF PhoneRests
  <1>2. Places'
    BY <1>1, PlacesFewer DEF InLine
  <1> QED
    BY <1>1, <1>2, StaysIn DEF Calm

\* The server does nothing with a frame, or acknowledges chunks it has
\* written.
LEMMA LineNoWrite ==
  ASSUME PhoneInv, ReceiverTypeOK, InLine, Calm, UNCHANGED link,
         UNCHANGED <<active, stream, transfers, written>>,
         \A f : InDown(f)' =>
           \/ InDown(f)
           \/ link = "up"
              /\ \E t \in Transfers : f = ChunkAck(t, Received(t))
  PROVE  InLine'
  <1>1. Channels'
    BY DEF InLine, Channels, Calm
  <1> QED
    BY <1>1, LineCalm

\* Chunk k of t, taken from connection c, lands in the file of u: its own,
\* which it extends by one, or that of a call that gave up.
Lands(c, u, t, k) ==
  /\ In(c, Chunk(t, k)) /\ \A b : ~ In(b, Chunk(t, k))'
  /\ k = idx[t] + 1 /\ k <= NumChunks[t]
  /\ spc[t] \in {"chunk", "failed"}
  /\ written'[u] = Append(written[u], <<t, k>>)
  /\ Len(written'[u]) = Len(written[u]) + 1
  /\ \A v \in Transfers \ {u} : written'[v] = written[v]
  /\ \/ spc[u] = "failed"
     \/ /\ u = t /\ spc[u] = "chunk"
        /\ written[u] = OwnPrefix(u, idx[u])
        /\ written'[u] = OwnPrefix(u, idx[u] + 1)

\* So does every chunk the server writes.
LEMMA WriteFacts ==
  ASSUME PhoneInv, ReceiverTypeOK, InLine, NEW c \in Conns,
         NEW u \in Transfers, Take(c, "chunk"), active[c] = u, Write(c, u)
  PROVE  \E t \in Transfers, k \in Nat : Lands(c, u, t, k)
  <1>0. /\ PhoneTypeOK /\ idx \in [Transfers -> Nat]
        /\ written \in [Transfers -> Seq(Chunks)] /\ NONE \notin Transfers
        /\ 0 \notin Conns
    BY LineTypes, ConnBox
  <1>1. PICK f \in Frames :
          /\ f = Head(up[c]) /\ f.kind = "chunk" /\ In(c, f)
          /\ \A b : In(b, f)' => f = Auth
    BY TakeCalm
  <1>2. f.t \in Transfers /\ f.k \in Nat /\ f = Chunk(f.t, f.k)
    BY <1>1, FrameFields DEF Frames, Chunk, Auth
  <1>3. PICK t \in Transfers : t = f.t
    BY <1>2
  <1>4. PICK k \in Nat : k = f.k
    BY <1>2
  <1>5. In(c, Chunk(t, k)) /\ \A b : ~ In(b, Chunk(t, k))'
    <2>1. f = Chunk(t, k) /\ f # Auth
      BY <1>1, <1>2, <1>3, <1>4, FramesDiffer
    <2> QED
      BY <1>1, <2>1
  <1>6. /\ Tolerated(t, c) /\ spc[t] \in {"chunk", "failed"}
        /\ k = idx[t] + 1 /\ k <= NumChunks[t]
        /\ spc[t] = "chunk" => written[t] = OwnPrefix(t, idx[t])
    BY <1>5 DEF InLine, ChunksInv
  <1>7. /\ written'[u] = Append(written[u], <<t, k>>)
        /\ \A v \in Transfers \ {u} : written'[v] = written[v]
    BY <1>0, <1>1, <1>3, <1>4 DEF Write
  <1>8. Len(written'[u]) = Len(written[u]) + 1
    <2>1. <<t, k>> \in Chunks /\ written[u] \in Seq(Chunks)
      BY <1>0 DEF Chunks
    <2> QED
      BY <1>7, <2>1, AppendProperties
  <1>9. u = t \/ spc[u] = "failed"
    BY <1>0, <1>6 DEF Tolerated
  <1>10. ASSUME u = t, spc[u] # "failed"
         PROVE  /\ spc[u] = "chunk"
                /\ written[u] = OwnPrefix(u, idx[u])
                /\ written'[u] = OwnPrefix(u, idx[u] + 1)
    BY <1>0, <1>6, <1>7, <1>10, PrefixGrows
  <1> QED
    BY <1>5, <1>6, <1>7, <1>8, <1>9, <1>10 DEF Lands

\* ... and all the rest is as before.
LEMMA LineWrite ==
  ASSUME PhoneInv, ReceiverTypeOK, InLine, NEW c \in Conns,
         NEW u \in Transfers, Take(c, "chunk"), active[c] = u,
         stream[u] = "open", Write(c, u),
         UNCHANGED <<active, stream, transfers>>,
         UNCHANGED down \/ Reply(c, <<ChunkAck(u, Received(u) + 1)>>)
  PROVE  InLine'
  <1>0. /\ PhoneTypeOK /\ idx \in [Transfers -> Nat]
        /\ written \in [Transfers -> Seq(Chunks)]
    BY LineTypes
  <1>1. /\ UNCHANGED <<spc, idx, conn, link, active, stream, transfers>>
        /\ Places' /\ \A b, f : In(b, f)' => In(b, f)
    BY TakeCalm DEF Calm
  <1>2. PICK t \in Transfers, k \in Nat : Lands(c, u, t, k)
    BY WriteFacts
  <1>3. Len(written[u]) \in Nat
    BY <1>0, LenProperties
  <1>4. \A f : InDown(f)' =>
          \/ InDown(f)
          \/ f = ChunkAck(u, Len(written'[u])) /\ link = "up"
    <2>1. CASE UNCHANGED down
      BY <2>1 DEF InDown
    <2>2. CASE Reply(c, <<ChunkAck(u, Received(u) + 1)>>)
      <3>1. ChunkAck(u, Received(u) + 1) \in Frames
        BY <1>3, FrameTypes DEF Received
      <3> QED
        BY <1>0, <1>2, <2>2, <3>1, ReplyDown DEF Received, Lands
    <2> QED
      BY <2>1, <2>2
  <1>5. \A v \in Transfers, d \in Conns : Tolerated(v, d)' <=> Tolerated(v, d)
    BY <1>1 DEF Tolerated
  <1>6. OneSender' /\ ActiveInv'
    BY <1>1 DEF InLine, OneSender, Sending, ActiveInv
  <1>7. Channels'
    BY <1>1, <1>4 DEF InLine, Channels
  <1>8. MetasInv' /\ EndsInv'
    BY <1>1 DEF InLine, MetasInv, EndsInv
  <1>9. ChunksInv'
    <2> SUFFICES ASSUME NEW b, NEW v \in Transfers, NEW m \in Nat,
                        In(b, Chunk(v, m))'
                 PROVE  /\ b \in Conns /\ Tolerated(v, b)
                        /\ spc[v] \in {"chunk", "failed"}
                        /\ m = idx[v] + 1 /\ m <= NumChunks[v]
                        /\ spc[v] = "chunk"
                             => written'[v] = OwnPrefix(v, idx[v])
      BY <1>1, <1>5 DEF ChunksInv
    <2>1. In(b, Chunk(v, m))
      BY <1>1
    <2>2. /\ b \in Conns /\ Tolerated(v, b)
          /\ spc[v] \in {"chunk", "failed"}
          /\ m = idx[v] + 1 /\ m <= NumChunks[v]
          /\ spc[v] = "chunk" => written[v] = OwnPrefix(v, idx[v])
      BY <2>1 DEF InLine, ChunksInv
    <2>3. spc[v] = "chunk" => v # u
      BY <1>2, <2>2 DEF Lands
    <2> QED
      BY <1>2, <2>2, <2>3 DEF Lands
  <1>10. Quiet'
    BY <1>1, <1>5 DEF InLine, Quiet
  <1>11. Acks'
    <2>1. ASSUME NEW v \in Transfers, NEW f, InDown(f)', f.kind = "metaAck",
                 f.t = v
          PROVE  /\ stream'[v] # "none"
                 /\ spc'[v] = "meta" =>
                      \A d : d = conn' =>
                        Tolerated(v, d)' /\ \A g : ~ In(d, g)'
      <3>1. InDown(f)
        BY <1>4, <2>1 DEF ChunkAck
      <3>2. \A d : Tolerated(v, d)' <=> Tolerated(v, d)
        BY <1>1 DEF Tolerated
      <3> QED
        BY <1>1, <2>1, <3>1, <3>2 DEF InLine, Acks
    <2>2. ASSUME NEW v \in Transfers, NEW m \in Nat, InDown(ChunkAck(v, m))'
          PROVE  m <= Len(written'[v])
      <3>1. CASE InDown(ChunkAck(v, m))
        BY <1>2, <1>3, <3>1 DEF InLine, Acks, Lands
      <3>2. CASE ChunkAck(v, m) = ChunkAck(u, Len(written'[u]))
        BY <1>2, <1>3, <3>2, AcksDiffer DEF Lands
      <3> QED
        BY <1>4, <2>2, <3>1, <3>2
    <2> QED
      BY <2>1, <2>2 DEF Acks
  <1>12. FilesInv'
    BY <1>1, <1>2 DEF InLine, FilesInv, Lands
  <1> QED
    BY <1>1, <1>6, <1>7, <1>8, <1>9, <1>10, <1>11, <1>12 DEF InLine

\* The server opens the file of a META it has taken: the connection's active
\* transfer is, from now on, that of the running call or of one that gave up.
LEMMA LineOpen ==
  ASSUME PhoneInv, ReceiverTypeOK, InLine, PhoneRests,
         NEW t \in Transfers, NEW d \in Conns, NEW h, h.t = t, h.c = d,
         CallInv(h),
         stream' = [stream EXCEPT ![t] = "open"],
         transfers' = transfers \cup {t},
         active' = [active EXCEPT ![d] = t],
         Reply(d, <<MetaAck(t)>>), UNCHANGED written
  PROVE  InLine'
  <1>0. /\ PhoneTypeOK /\ active \in [Conns -> Transfers \cup {NONE}]
        /\ stream \in [Transfers -> {"none", "open", "ending", "closed"}]
        /\ NONE \notin Transfers /\ conn \in 0 .. MaxConns
    BY LineTypes
  <1>1. /\ UNCHANGED <<spc, idx, conn, link, written>>
        /\ Places' /\ \A b, f : In(b, f)' => In(b, f)
    BY RestCalm DEF Calm
  <1>2. /\ spc[t] \in {"meta", "failed"} /\ stream[t] = "none"
        /\ \A b : ~ In(b, Meta(t))
        /\ d <= conn
        /\ spc[t] = "meta" => \A f : ~ In(d, f)
    BY DEF CallInv
  <1>3. /\ stream'[t] = "open" /\ active'[d] = t
        /\ \A u \in Transfers : u # t => stream'[u] = stream[u]
        /\ \A c \in Conns : c # d => active'[c] = active[c]
    BY <1>0
  <1>4. \A f : InDown(f)' =>
          InDown(f) \/ (f = MetaAck(t) /\ d = conn /\ link = "up")
    BY <1>0, FrameTypes, ReplyDown
  <1>5. OneSender'
    BY <1>1 DEF InLine, OneSender, Sending
  <1>6. \A v \in Transfers, c \in Conns :
          Tolerated(v, c) /\ (c = d /\ v # t => spc[t] = "failed")
            => Tolerated(v, c)'
    BY <1>0, <1>1, <1>3 DEF Tolerated
  <1>7. Channels'
    BY <1>0, <1>1, <1>2, <1>3, <1>4 DEF InLine, Channels
  <1>8. MetasInv' /\ EndsInv'
    BY <1>1, <1>2, <1>3 DEF InLine, MetasInv, EndsInv
  <1>9. ChunksInv'
    <2> SUFFICES ASSUME NEW b, NEW v \in Transfers, NEW m \in Nat,
                        In(b, Chunk(v, m))
                 PROVE  /\ b \in Conns /\ Tolerated(v, b)'
                        /\ spc[v] \in {"chunk", "failed"}
                        /\ m = idx[v] + 1 /\ m <= NumChunks[v]
                        /\ spc[v] = "chunk"
                             => written[v] = OwnPrefix(v, idx[v])
      BY <1>1 DEF ChunksInv
    <2>1. b = d => spc[t] = "failed"
      BY <1>2
    <2>2. /\ b \in Conns /\ Tolerated(v, b)
          /\ spc[v] \in {"chunk", "failed"}
          /\ m = idx[v] + 1 /\ m <= NumChunks[v]
          /\ spc[v] = "chunk" => written[v] = OwnPrefix(v, idx[v])
      BY DEF InLine, ChunksInv
    <2> QED
      BY <1>6, <2>1, <2>2
  <1>10. \A v \in Transfers : Sending(v) /\ v # t => spc[t] = "failed"
    BY <1>2 DEF InLine, OneSender, Sending
  <1>11. Quiet'
    <2> SUFFICES ASSUME NEW v \in Transfers, spc[v] \in {"reading", "chunk"},
                        NEW c, c = conn, NEW f
                 PROVE  /\ stream'[v] = "open" /\ ~ In(0, f)'
                        /\ c \in Conns /\ Tolerated(v, c)'
                        /\ In(c, f)' =>
                             \/ f = Auth
                             \/ spc[v] = "chunk" /\ f = Chunk(v, idx[v] + 1)
      BY <1>1 DEF Quiet
    <2>1. v # t /\ spc[t] = "failed"
      BY <1>2, <1>10 DEF Sending
    <2>2. /\ stream[v] = "open" /\ ~ In(0, f)
          /\ c \in Conns /\ Tolerated(v, c)
          /\ In(c, f) => \/ f = Auth
                         \/ spc[v] = "chunk" /\ f = Chunk(v, idx[v] + 1)
      BY DEF InLine, Quiet
    <2> QED
      BY <1>1, <1>3, <1>6, <2>1, <2>2
  <1>12. Acks'
    <2>1. ASSUME NEW v \in Transfers, NEW f, InDown(f)', f.kind = "metaAck",
                 f.t = v
          PROVE  /\ stream'[v] # "none"
                 /\ spc'[v] = "meta" =>
                      \A c : c = conn' =>
                        Tolerated(v, c)' /\ \A g : ~ In(c, g)'
      <3>1. CASE InDown(f)
        <4>1. /\ stream[v] # "none" /\ link # "down"
              /\ spc[v] = "meta" =>
                   \A c : c = conn => Tolerated(v, c) /\ \A g : ~ In(c, g)
          BY <2>1, <3>1 DEF InLine, Acks, Channels
        <4>2. v # t /\ (spc[v] = "meta" => spc[t] = "failed")
          BY <1>2, <1>10, <4>1 DEF Sending
        <4>3. conn \in Conns
          BY <4>1, LineTypes
        <4> QED
          BY <1>1, <1>3, <1>6, <4>1, <4>2, <4>3
      <3>2. CASE f = MetaAck(t) /\ d = conn
        <4>1. v = t
          BY <2>1, <3>2 DEF MetaAck
        <4>2. Tolerated(t, d)'
          BY <1>3 DEF Tolerated
        <4> QED
          BY <1>1, <1>2, <1>3, <3>2, <4>1, <4>2
      <3> QED
        BY <1>4, <2>1, <3>1, <3>2
    <2>2. ASSUME NEW v \in Transfers, NEW m \in Nat, InDown(ChunkAck(v, m))'
          PROVE  m <= Len(written'[v])
      BY <1>1, <1>4, <2>2, AcksDiffer DEF InLine, Acks
    <2> QED
      BY <2>1, <2>2 DEF Acks
  <1>13. FilesInv'
    BY <1>1, <1>2, <1>3 DEF InLine, FilesInv
  <1>14. ActiveInv'
    BY <1>0, <1>3 DEF InLine, ActiveInv
  <1> QED
    BY <1>1, <1>5, <1>7, <1>8, <1>9, <1>11, <1>12, <1>13, <1>14 DEF InLine

\* The server takes the FILE_END of a file, or goes on with it: the file is
\* complete, and connections only lose their active transfer.
LEMMA LineEnd ==
  ASSUME PhoneInv, ReceiverTypeOK, InLine, Calm, UNCHANGED link,
         NEW m \in Transfers, spc[m] = "done", \A b : ~ In(b, End(m))',
         NEW s \in {"ending", "closed"}, stream' = [stream EXCEPT ![m] = s],
         transfers \ {m} \subseteq transfers',
         active' \in [Conns -> Transfers \cup {NONE}],
         \A c \in Conns : active'[c] \in {active[c], NONE},
         \A f : InDown(f)' =>
           InDown(f) \/ (f.kind = "endAck" /\ link = "up"),
         UNCHANGED written
  PROVE  InLine'
  <1>0. stream \in [Transfers -> {"none", "open", "ending", "closed"}]
    BY LineTypes
  <1>1. /\ UNCHANGED <<spc, idx, conn, link, written>>
        /\ Places' /\ \A b, f : In(b, f)' => In(b, f)
    BY DEF Calm
  <1>2. /\ stream'[m] = s
        /\ \A u \in Transfers : u # m => stream'[u] = stream[u]
    BY <1>0
  <1>3. \A v \in Transfers, c \in Conns : Tolerated(v, c) => Tolerated(v, c)'
    BY <1>1 DEF Tolerated
  <1>4. \A f : f.kind # "endAck" /\ InDown(f)' => InDown(f)
    OBVIOUS
  <1>5. OneSender' /\ ActiveInv'
    BY <1>1, <1>2 DEF InLine, OneSender, Sending, ActiveInv
  <1>6. Channels'
    BY <1>1 DEF InLine, Channels
  <1>7. MetasInv' /\ EndsInv'
    BY <1>1, <1>2 DEF InLine, MetasInv, EndsInv
  <1>8. ChunksInv'
    BY <1>1, <1>3 DEF InLine, ChunksInv
  <1>9. Quiet'
    BY <1>1, <1>2, <1>3 DEF InLine, Quiet
  <1>10. Acks'
    <2>1. ASSUME NEW v \in Transfers, NEW f, InDown(f)', f.kind = "metaAck",
                 f.t = v
          PROVE  /\ stream'[v] # "none"
                 /\ spc'[v] = "meta" =>
                      \A c : c = conn' =>
                        Tolerated(v, c)' /\ \A g : ~ In(c, g)'
      <3>1. /\ stream[v] # "none" /\ link # "down"
            /\ spc[v] = "meta" =>
                 \A c : c = conn => Tolerated(v, c) /\ \A g : ~ In(c, g)
        BY <1>4, <2>1 DEF InLine, Acks, Channels
      <3>2. conn \in Conns
        BY <3>1, LineTypes
      <3> QED
        BY <1>1, <1>2, <1>3, <3>1, <3>2
    <2>2. ASSUME NEW v \in Transfers, NEW k \in Nat, InDown(ChunkAck(v, k))'
          PROVE  k <= Len(written'[v])
      <3>1. InDown(ChunkAck(v, k))
        BY <1>4, <2>2 DEF ChunkAck
      <3> QED
        BY <1>1, <3>1 DEF InLine, Acks
    <2> QED
      BY <2>1, <2>2 DEF Acks
  <1>11. FilesInv'
    BY <1>1, <1>2 DEF InLine, FilesInv
  <1> QED
    BY <1>1, <1>5, <1>6, <1>7, <1>8, <1>9, <1>10, <1>11 DEF InLine

----------------------------------------------------------------------------
(* A META between its handler's first step and the opening of its file. *)

\* The handler takes it: it was the last frame of a running call, and no
\* other handler has one of the same call.
LEMMA CallStarts ==
  ASSUME PhoneInv, ReceiverTypeOK, InLine, NEW c \in Conns, Take(c, "meta"),
         UNCHANGED stream, NEW h, h.t = Head(up[c]).t, h.c = c
  PROVE  /\ h.t \in Transfers /\ CallInv(h)'
         /\ \A g : CallInv(g) => g.t # h.t
  <1>0. PhoneTypeOK
    BY LineTypes
  <1>1. PICK f \in Frames :
          /\ f = Head(up[c]) /\ f.kind = "meta" /\ In(c, f)
          /\ \A b : In(b, f)' => f = Auth
    BY TakeCalm
  <1>2. Calm /\ c <= conn
    BY TakeCalm
  <1>3. PICK t \in Transfers : t = f.t
    BY <1>1, FrameFields
  <1>4. f = Meta(t)
    BY <1>1, <1>3 DEF Frames, Meta, Auth
  <1>5. spc[t] \in {"meta", "failed"} /\ stream[t] = "none"
    BY <1>1, <1>4 DEF InLine, MetasInv
  <1>6. \A b : ~ In(b, Meta(t))'
    BY <1>1, <1>4, FramesDiffer
  <1>7. ASSUME spc[t] = "meta", NEW g, In(c, g)'
        PROVE  FALSE
    <2>1. Takes(c) /\ At(c, 1) = Meta(t)
      BY <1>0, <1>1, <1>4, TakeTakes
    <2>2. ~ Has(c, 1 + 1)
      BY <1>7, <2>1 DEF InLine, Places, MetaIsLast, Takes
    <2>3. PICK i : Has(c, i)'
      BY <1>7 DEF In
    <2>4. i \in Nat /\ Has(c, i + 1)
      BY <2>1, <2>3, TakesFrom
    <2>5. i # 0
      BY <2>3, SMT DEF Has
    <2>6. \A j, k : Has(c, k) /\ j \in 1 .. k => Has(c, j)
      BY <1>0, BoxType DEF Has
    <2> QED
      BY <2>2, <2>4, <2>5, <2>6
  <1>8. h.t = t /\ CallInv(h)'
    BY <1>1, <1>2, <1>3, <1>5, <1>6, <1>7 DEF CallInv, Calm
  <1>9. \A g : CallInv(g) => g.t # t
    BY <1>1, <1>4 DEF CallInv
  <1> QED
    BY <1>8, <1>9

\* The phone's calls.
LEMMA CallPhone ==
  ASSUME PhoneInv, ReceiverTypeOK, InLine, ~ Overlap, NEW t \in Transfers,
         PhoneMoves(t), UNCHANGED receiverVars,
         NEW h, h.t \in Transfers, h.c \in Conns, CallInv(h)
  PROVE  CallInv(h)'
  <1>0. /\ spc \in [Transfers -> SendStates] /\ PhoneTypeOK
        /\ idx \in [Transfers -> Nat] /\ NumChunks \in [Transfers -> Nat]
    BY LineTypes
  <1>1. /\ spc[h.t] \in {"meta", "failed"} /\ stream[h.t] = "none"
        /\ \A b : ~ In(b, Meta(h.t))
        /\ h.c <= conn
        /\ spc[h.t] = "meta" => \A f : ~ In(h.c, f)
        /\ UNCHANGED stream
    BY DEF CallInv, receiverVars
  <1>2. CASE StartSend(t)
    <2>1. /\ spc[t] = "idle" /\ spc' = [spc EXCEPT ![t] = "meta"]
          /\ UNCHANGED conn /\ \A u \in Transfers : ~ Sending(u)
      BY <1>2 DEF StartSend, PicksFile
    <2>2. t # h.t /\ spc[h.t] = "failed" /\ spc'[h.t] = "failed"
      BY <1>0, <1>1, <2>1 DEF Sending
    <2>3. Goes(Meta(t))
      BY <1>0, <1>2, FrameTypes, SendGoes DEF StartSend
    <2>4. \A b : ~ In(b, Meta(h.t))'
      BY <1>1, <2>2, <2>3, GoesIn, FramesDiffer
    <2> QED
      BY <1>1, <2>1, <2>2, <2>4 DEF CallInv
  <1>3. CASE SendChunk(t)
    <2>1. /\ spc[t] = "reading" /\ spc' = [spc EXCEPT ![t] = "chunk"]
          /\ UNCHANGED conn
      BY <1>3 DEF SendChunk
    <2>2. t # h.t /\ spc[h.t] = "failed" /\ spc'[h.t] = "failed"
      BY <1>0, <1>1, <2>1 DEF InLine, OneSender, Sending
    <2>3. PICK g : g = Chunk(t, idx[t] + 1)
      OBVIOUS
    <2>4. Goes(g)
      BY <1>0, <1>3, <2>1, <2>3, FrameTypes, SendGoes DEF SendChunk
    <2>5. \A b : ~ In(b, Meta(h.t))'
      BY <1>1, <2>3, <2>4, GoesIn, FramesDiffer
    <2> QED
      BY <1>1, <2>1, <2>2, <2>5 DEF CallInv
  <1>4. CASE Timeout(t) \/ ReadFails(t)
    <2>1. /\ spc' = [spc EXCEPT ![t] = "failed"]
          /\ UNCHANGED <<conn, pending, up>>
      BY <1>4 DEF Timeout, ReadFails
    <2>2. \A b, f : In(b, f)' <=> In(b, f)
      BY <2>1, UnchangedStays, StaysIn
    <2>3. spc'[h.t] \in {spc[h.t], "failed"}
      BY <1>0, <2>1
    <2> QED
      BY <1>1, <2>1, <2>2, <2>3 DEF CallInv
  <1>5. CASE MetaAcked(t) \/ ChunkAcked(t)
    <2>1. PICK n \in 0 .. NumChunks[t] :
             /\ Proceed(t, n) /\ spc[t] \in {"meta", "chunk"}
             /\ stream[t] = "open"
      BY <1>5, AckedFacts
    <2>2. t # h.t /\ spc[h.t] = "failed"
      BY <1>0, <1>1, <2>1 DEF InLine, OneSender, Sending
    <2>3. UNCHANGED conn
      BY <1>5 DEF MetaAcked, ChunkAcked, Deliver
    <2>4. /\ spc'[h.t] = "failed"
          /\ Goes(End(t))
      <3>1. CASE spc' = [spc EXCEPT ![t] = "reading"]
                 /\ UNCHANGED <<up, pending>>
        BY <1>0, <2>2, <3>1, UnchangedStays DEF Goes
      <3>2. CASE spc' = [spc EXCEPT ![t] = "done"] /\ Send(End(t))
        BY <1>0, <2>2, <2>3, <3>2, FrameTypes, SendGoes
      <3> QED
        BY <2>1, <3>1, <3>2 DEF Proceed
    <2>5. \A b : ~ In(b, Meta(h.t))'
      BY <1>1, <2>4, GoesIn, FramesDiffer
    <2> QED
      BY <1>1, <2>3, <2>4, <2>5 DEF CallInv
  <1> QED
    BY <1>2, <1>3, <1>4, <1>5 DEF PhoneMoves

\* A step that moves no frame to a new place, nor touches the file.
LEMMA CallCalm ==
  ASSUME Calm, NEW h, CallInv(h), stream'[h.t] = stream[h.t]
  PROVE  CallInv(h)'
  BY DEF Calm, CallInv

\* The phone's socket: a connection on which a META was handled is not new.
LEMMA CallSocket ==
  ASSUME PhoneInv, ReceiverTypeOK, InLine, SocketMoves,
         UNCHANGED receiverVars, NEW h, h.c \in Conns, CallInv(h)
  PROVE  CallInv(h)'
  <1>0. PhoneTypeOK /\ conn \in 0 .. MaxConns
    BY LineTypes
  <1>1. /\ UNCHANGED <<spc, stream>> /\ h.c <= conn
        /\ \A b : ~ In(b, Meta(h.t))
        /\ spc[h.t] = "meta" => \A f : ~ In(h.c, f)
    BY DEF SocketMoves, receiverVars, CallInv
  <1>2. CASE Connect
    <2>1. PICK c : c = conn + 1
      OBVIOUS
    <2>2. Opens(c) /\ h.c # c /\ h.c <= conn'
      BY <1>0, <1>1, <1>2, <2>1, ConnectOpens DEF Connect
    <2>3. \A b, f : In(b, f)' => b = c \/ In(b, f)
      BY <2>2, OpensIn
    <2>4. \A b : ~ In(b, Meta(h.t))'
      BY <1>1, <2>2, OpensIn, FramesDiffer
    <2> QED
      BY <1>1, <2>2, <2>3, <2>4 DEF CallInv
  <1>3. CASE ~ Connect
    <2>1. /\ UNCHANGED conn /\ \A b, f : In(b, f)' => In(b, f)
      <3>1. CASE Drop
        BY <1>0, <3>1, DropCuts, CutsIn DEF Drop
      <3>2. CASE NoticeClose \/ IgnoreFrame
        <4>1. UNCHANGED <<conn, pending, up>>
          BY <3>2 DEF NoticeClose, IgnoreFrame, Deliver
        <4> QED
          BY <4>1, UnchangedStays, StaysIn
      <3> QED
        BY <1>3, <3>1, <3>2 DEF SocketMoves
    <2> QED
      BY <1>1, <2>1 DEF CallInv
  <1> QED
    BY <1>2, <1>3

----------------------------------------------------------------------------
(* The whole of it. *)

\* Nothing is sent, in flight or open at the start.
LEMMA LineInit ==
  ASSUME PhoneInit, ReceiverInit
  PROVE  InLine
  <1>1. /\ \A t \in Transfers : /\ spc[t] = "idle" /\ stream[t] = "none"
                                /\ written[t] = <<>>
        /\ \A c \in Conns : active[c] = NONE
        /\ down = <<>> /\ pending = <<>> /\ \A c \in Conns : up[c] = <<>>
    BY DEF PhoneInit, SocketInit, ReceiverInit
  <1>2. PhoneTypeOK
    BY PhoneInvInit DEF PhoneInv
  <1>3. \A b, i : ~ Has(b, i)
    <2>1. \A b \in Boxes : Box(b) = <<>>
      BY <1>1 DEF Box, Boxes
    <2>2. ASSUME NEW b, NEW i, Has(b, i)
          PROVE  FALSE
      BY <1>2, <2>1, <2>2, EmptyBox DEF Has
    <2> QED
      BY <2>2
  <1>4. \A b, f : ~ In(b, f)
    BY <1>3 DEF In
  <1>5. \A f : ~ InDown(f)
    BY <1>1, EmptySeq DEF InDown
  <1>6. OneSender /\ Quiet /\ FilesInv /\ ActiveInv
    BY <1>1 DEF OneSender, Sending, Quiet, FilesInv, ActiveInv
  <1>7. Channels /\ MetasInv /\ ChunksInv /\ EndsInv
    BY <1>1, <1>4, <1>5 DEF Channels, MetasInv, ChunksInv, EndsInv
  <1>8. Places
    BY <1>3
    DEF Places, FrameOnce, MetaIsLast, ChunkAlone, ChunkFirst, Carried
  <1>9. Acks
    BY <1>5 DEF Acks
  <1> QED
    BY <1>6, <1>7, <1>8, <1>9 DEF InLine

\* A step of the phone's calls.
LEMMA LinePhone ==
  ASSUME PhoneInv, ReceiverTypeOK, InLine, ~ Overlap, NEW t \in Transfers,
         PhoneMoves(t), UNCHANGED receiverVars
  PROVE  InLine'
  BY LineStartSend, LineSendChunk, LineFail, LineAcked DEF PhoneMoves

\* What InLine says of each property.
LEMMA LineFiles ==
  ASSUME PhoneInv, InLine
  PROVE  AckedMeansWritten /\ DoneMeansComplete
  <1>1. ASSUME NEW t \in Transfers, Sending(t)
        PROVE  \/ written[t] = OwnPrefix(t, idx[t])
               \/ written[t] = OwnPrefix(t, idx[t] + 1)
    BY <1>1, PrefixZero DEF InLine, FilesInv, Sending, PhoneInv, IdxInv
  <1> QED
    BY <1>1 DEF InLine, FilesInv, AckedMeansWritten, DoneMeansComplete

\* ChunkAlone is about every box, OneChunkInFlight about connections.
LEMMA LineChunks ==
  ASSUME PhoneInv, InLine
  PROVE  OneChunkInFlight
  <1> SUFFICES ASSUME NEW c \in Conns, NEW i \in 1 .. Len(up[c]),
                      NEW j \in 1 .. Len(up[c]),
                      up[c][i].kind = "chunk", up[c][j].kind = "chunk"
               PROVE  i = j
    BY DEF OneChunkInFlight
  <1>1. Box(c) = up[c] /\ c \in Boxes
    BY ConnBox DEF Box
  <1>2. Carried(c, i) /\ Carried(c, j)
    BY <1>1 DEF Carried, Has, At
  <1> QED
    BY <1>2 DEF InLine, Places, ChunkAlone

----------------------------------------------------------------------------
(* The steps of FileCopy. *)

\* The state of FileCopy, as Receiver maps it.
Status == [t \in Transfers |-> IF Sending(t) THEN "sending" ELSE spc[t]]
Closed == {t \in Transfers : stream[t] = "closed"}
CopyStep == [Copy!Next]_(Copy!copyVars)

\* Nothing FileCopy speaks of changes.
LEMMA CopyRests ==
  ASSUME UNCHANGED <<Status, written, Closed>>
  PROVE  CopyStep
  BY DEF CopyStep, Copy!copyVars, Status, Closed

\* A call that stays where it is, or goes on from one chunk to the next, and
\* files that are not closed.
LEMMA CopySame ==
  ASSUME UNCHANGED written, UNCHANGED Closed,
         \A t \in Transfers :
           spc'[t] = spc[t] \/ (Sending(t) /\ Sending(t)')
  PROVE  CopyStep
  <1>1. UNCHANGED Status
    BY DEF Status, Sending
  <1> QED
    BY <1>1, CopyRests

\* A step of one call, seen from FileCopy.
LEMMA StatusOne ==
  ASSUME PhoneInv, NEW t \in Transfers, NEW s \in SendStates,
         spc' = [spc EXCEPT ![t] = s]
  PROVE  Status' = [Status EXCEPT ![t] =
                      IF s \in {"meta", "reading", "chunk"} THEN "sending"
                      ELSE s]
  BY DEF Status, Sending, PhoneInv, PhoneTypeOK

\* The phone's calls start, fail and succeed.
LEMMA CopyPhone ==
  ASSUME PhoneInv, ReceiverTypeOK, InLine, NEW t \in Transfers,
         PhoneMoves(t), UNCHANGED receiverVars
  PROVE  CopyStep
  <1>0. /\ spc \in [Transfers -> SendStates] /\ PhoneTypeOK
        /\ idx \in [Transfers -> Nat] /\ NumChunks[t] \in Nat
    BY LineTypes
  <1>1. UNCHANGED <<written, Closed>>
    BY DEF receiverVars, Closed
  <1>2. CASE StartSend(t)
    <2>1. spc[t] = "idle" /\ spc' = [spc EXCEPT ![t] = "meta"]
      BY <1>2 DEF StartSend, PicksFile
    <2>2. Status' = [Status EXCEPT ![t] = "sending"]
      BY <2>1, StatusOne DEF SendStates
    <2>3. Status[t] = "idle"
      BY <2>1 DEF Status, Sending
    <2>4. Copy!Start(t)
      BY <1>1, <2>2, <2>3 DEF Copy!Start, Status, Closed
    <2> QED
      BY <2>4 DEF CopyStep, Copy!Next
  <1>3. CASE SendChunk(t)
    <2>1. spc[t] = "reading" /\ spc' = [spc EXCEPT ![t] = "chunk"]
      BY <1>3 DEF SendChunk
    <2> QED
      BY <1>0, <1>1, <2>1, CopySame DEF Sending
  <1>4. CASE Timeout(t) \/ ReadFails(t)
    <2>1. Sending(t) /\ spc' = [spc EXCEPT ![t] = "failed"]
      BY <1>4 DEF Timeout, ReadFails, Sending
    <2>2. Status' = [Status EXCEPT ![t] = "failed"]
      BY <2>1, StatusOne DEF SendStates
    <2>3. Status[t] = "sending"
      BY <2>1 DEF Status
    <2>4. Copy!Fail(t)
      BY <1>1, <2>2, <2>3 DEF Copy!Fail, Status, Closed
    <2> QED
      BY <2>4 DEF CopyStep, Copy!Next
  <1>5. CASE MetaAcked(t) \/ ChunkAcked(t)
    <2>1. PICK n \in 0 .. NumChunks[t] :
            /\ Proceed(t, n) /\ written[t] = OwnPrefix(t, n) /\ Sending(t)
      BY <1>5, AckedFacts DEF Sending
    <2>2. CASE spc' = [spc EXCEPT ![t] = "reading"]
      BY <1>0, <1>1, <2>1, <2>2, CopySame DEF Sending
    <2>3. CASE n >= NumChunks[t] /\ spc' = [spc EXCEPT ![t] = "done"]
      <3>1. Status' = [Status EXCEPT ![t] = "done"]
        BY <2>3, StatusOne DEF SendStates
      <3>2. Status[t] = "sending"
        BY <2>1 DEF Status
      <3>3. n = NumChunks[t]
        BY <1>0, <2>1, <2>3
      <3>4. Copy!Complete(t)
        BY <2>1, <3>3 DEF Copy!Complete, Copy!Prefix, OwnPrefix
      <3>5. Copy!Succeed(t)
        BY <1>1, <3>1, <3>2, <3>4 DEF Copy!Succeed, Status, Closed
      <3> QED
        BY <3>5 DEF CopyStep, Copy!Next
    <2> QED
      BY <2>1, <2>2, <2>3 DEF Proceed
  <1> QED
    BY <1>2, <1>3, <1>4, <1>5 DEF PhoneMoves

\* The socket is no part of FileCopy.
LEMMA CopySocket ==
  ASSUME SocketMoves, UNCHANGED receiverVars
  PROVE  CopyStep
  <1>1. UNCHANGED <<spc, written, Closed>>
    BY DEF SocketMoves, receiverVars, Closed
  <1> QED
    BY <1>1, CopySame

\* A step of the server that neither writes nor closes.
LEMMA CopyCalm ==
  ASSUME UNCHANGED <<spc, written>>,
         \A t \in Transfers : stream'[t] = "closed" <=> stream[t] = "closed"
  PROVE  CopyStep
  BY CopySame DEF Closed

\* The server writes a chunk: the file of a running call grows by its next
\* chunk, that of a call which gave up by any.
LEMMA CopyWrite ==
  ASSUME PhoneInv, ReceiverTypeOK, InLine, NEW c \in Conns,
         NEW u \in Transfers, Take(c, "chunk"), active[c] = u, Write(c, u),
         UNCHANGED stream
  PROVE  CopyStep
  <1>0. /\ idx \in [Transfers -> Nat] /\ NumChunks \in [Transfers -> Nat]
        /\ written \in [Transfers -> Seq(Chunks)]
    BY LineTypes
  <1>1. PICK t \in Transfers, k \in Nat : Lands(c, u, t, k)
    BY WriteFacts
  <1>2. UNCHANGED <<Status, Closed>>
    BY DEF Take, Status, Closed, Sending
  <1>3. written' = [written EXCEPT ![u] = Append(@, <<t, k>>)]
    <2>1. written' = [written EXCEPT ![u] = written'[u]]
      BY <1>0 DEF Write
    <2> QED
      BY <1>0, <1>1, <2>1 DEF Lands
  <1>4. CASE spc[u] = "failed"
    <2>1. Status[u] = "failed"
      BY <1>4 DEF Status, Sending
    <2>2. k \in 1 .. NumChunks[t]
      BY <1>0, <1>1 DEF Lands
    <2>3. Copy!Litter(u)
      BY <1>2, <1>3, <2>1, <2>2 DEF Copy!Litter, Status, Closed
    <2> QED
      BY <2>3 DEF CopyStep, Copy!Next
  <1>5. CASE u = t /\ spc[u] = "chunk" /\ written[u] = OwnPrefix(u, idx[u])
    <2>1. Status[u] = "sending"
      BY <1>5 DEF Status, Sending
    <2>2. Len(written[u]) = idx[u]
      BY <1>0, <1>5, PrefixLen
    <2>3. k = Len(written[u]) + 1 /\ Len(written[u]) < NumChunks[u]
      BY <1>0, <1>1, <1>5, <2>2 DEF Lands
    <2>4. Copy!Grow(u)
      BY <1>2, <1>3, <1>5, <2>1, <2>3 DEF Copy!Grow, Status, Closed
    <2> QED
      BY <2>4 DEF CopyStep, Copy!Next
  <1> QED
    BY <1>1, <1>4, <1>5 DEF Lands

\* The server closes the file of a call that succeeded.
LEMMA CopyClose ==
  ASSUME ReceiverTypeOK, UNCHANGED <<spc, written>>, NEW m \in Transfers,
         spc[m] = "done", stream[m] # "closed",
         stream' = [stream EXCEPT ![m] = "closed"]
  PROVE  CopyStep
  <1>1. Closed' = Closed \cup {m} /\ m \notin Closed
    BY DEF Closed, ReceiverTypeOK
  <1>2. UNCHANGED Status /\ Status[m] = "done"
    BY DEF Status, Sending
  <1>3. Copy!Close(m)
    BY <1>1, <1>2 DEF Copy!Close, Status, Closed
  <1> QED
    BY <1>3 DEF CopyStep, Copy!Next

\* Nothing is copied or closed at the start.
LEMMA CopyInit ==
  ASSUME PhoneInit, ReceiverInit
  PROVE  Copy!Init
  BY DEF Copy!Init, PhoneInit, ReceiverInit, Sending
=============================================================================
