-------------------------- MODULE Receiving_proofs --------------------------
(***************************************************************************)
(* What holds of a phone that receives files, whichever server sends them: *)
(* lemmas about the phone's handlers, about the socket, and about the      *)
(* effects a server's step may have on what it shares with the phone.      *)
(* NodeToPhone_proofs and GoToPhone_proofs show that the steps of their    *)
(* server have no other effects.                                           *)
(***************************************************************************)
EXTENDS PcSend, FiniteSetTheorems, SequenceTheorems, TLAPS

USE DEF Conns, SocketTypes

\* What the PC sends.
Downs ==
  {f \in [kind : {"meta", "chunk", "end"}, t : Transfers, k : Nat] :
     f.kind # "chunk" => f.k = 0}

PhoneTypes == SocketTypes(Frames) /\ ReceiveTypeOK /\ down \in Seq(Downs)

\* That idx never passes NumChunks rests on where each call stands.
IdxInv ==
  \A t \in Transfers :
    /\ spc[t] \in {"idle", "stat", "sent", "meta"} => idx[t] = 0
    /\ spc[t] = "chunk" => idx[t] < NumChunks[t]

CallTypes == PcTypeOK /\ IdxInv

\* The steps of the socket.
SocketMoves == Connect \/ Drop \/ NoticeClose

----------------------------------------------------------------------------
(* Types. *)

\* Every frame the protocol builds is a frame, and those of the PC name a
\* transfer.
LEMMA FrameTypes ==
  /\ Auth \in Frames
  /\ \A t \in Transfers : /\ Meta(t) \in Downs /\ End(t) \in Downs
                          /\ \A k \in Nat : Chunk(t, k) \in Downs
  /\ \A t \in Ids, k \in Nat : Ack(t, k) \in Frames
  BY DEF Frames, Downs, Ids, Auth, Meta, End, Ack, Chunk

\* A frame of the PC's is one of the three.
LEMMA FrameForms ==
  ASSUME NEW f \in Downs
  PROVE  /\ f \in Frames /\ f.t \in Transfers /\ f.k \in Nat
         /\ \/ f.kind = "meta" /\ f = Meta(f.t)
            \/ f.kind = "chunk" /\ f = Chunk(f.t, f.k)
            \/ f.kind = "end" /\ f = End(f.t)
  BY DEF Downs, Frames, Ids, Meta, Chunk, End

\* What is a sequence of the PC's frames is one of frames.
LEMMA DownsAreFrames ==
  ASSUME NEW s \in Seq(Downs)
  PROVE  s \in Seq(Frames)
  <1>1. \A i \in 1 .. Len(s) : s[i] \in Downs
    BY ElementOfSeq
  <1>2. Downs \subseteq Frames
    BY DEF Downs, Frames, Ids
  <1>3. Len(s) \in Nat /\ s = [i \in 1 .. Len(s) |-> s[i]]
    BY LenProperties
  <1> QED
    BY <1>1, <1>2, <1>3, IsASeq

\* _send keeps the queue and the channels sequences of frames.
LEMMA SendType ==
  ASSUME PhoneTypes, NEW f \in Frames, Send(f)
  PROVE  /\ pending' \in Seq(Frames)
         /\ up' \in [Conns -> Seq(Frames)]
  <1>1. CASE link = "up" /\ up' = [up EXCEPT ![conn] = Append(@, f)]
             /\ UNCHANGED pending
    <2>1. up[conn] \in Seq(Frames)
      BY <1>1 DEF PhoneTypes
    <2>2. Append(up[conn], f) \in Seq(Frames)
      BY <2>1, AppendProperties
    <2> QED
      BY <1>1, <2>2 DEF PhoneTypes
  <1>2. CASE UNCHANGED <<up, pending>>
    BY <1>2 DEF PhoneTypes
  <1>3. CASE link = "down" /\ pending' = Append(pending, f) /\ UNCHANGED up
    <2>1. Append(pending, f) \in Seq(Frames)
      BY AppendProperties DEF PhoneTypes
    <2> QED
      BY <1>3, <2>1 DEF PhoneTypes
  <1> QED
    BY <1>1, <1>2, <1>3 DEF Send

\* What the PC sends leaves the channel to the phone one of its frames.
LEMMA ReplyType ==
  ASSUME PhoneTypes, NEW c, NEW f \in Downs, Reply(c, <<f>>)
  PROVE  down' \in Seq(Downs) /\ down' \in Seq(Frames)
  <1>1. down \in Seq(Downs) /\ <<f>> \in Seq(Downs)
    BY DEF PhoneTypes
  <1>2. down \o <<f>> \in Seq(Downs)
    BY <1>1, ConcatProperties
  <1> QED
    BY <1>1, <1>2, DownsAreFrames DEF Reply

\* A frame that reaches the phone is one of the PC's.
LEMMA DeliverType ==
  ASSUME PhoneTypes, Deliver
  PROVE  /\ Head(down) \in Downs
         /\ down' \in Seq(Downs) /\ down' \in Seq(Frames)
  <1>1. down \in Seq(Downs) /\ down # <<>> /\ down' = Tail(down)
    BY DEF PhoneTypes, Deliver
  <1> QED
    BY <1>1, HeadTailProperties, DownsAreFrames

\* The handlers of the phone's frames keep its types.
LEMMA ArrivalType ==
  ASSUME PhoneTypes, FrameArrives
  PROVE  PhoneTypes'
  <1>1. CASE HandleMeta
    <2>1. /\ Deliver /\ Head(down).kind = "meta" /\ UNCHANGED <<up, pending>>
      BY <1>1 DEF HandleMeta, Arrives
    <2>2. PICK t \in Transfers : t = Head(down).t
      BY <2>1, DeliverType DEF Downs
    <2>3. <<>> \in Seq(Chunks)
      BY EmptySeq
    <2>4. ReceiveTypeOK'
      BY <1>1, <2>2, <2>3 DEF HandleMeta, PhoneTypes, ReceiveTypeOK, Ids
    <2> QED
      BY <2>1, <2>4, DeliverType DEF Deliver, PhoneTypes
  <1>2. CASE DropBinary
    <2>1. /\ Deliver /\ UNCHANGED <<up, pending, receiveVars>>
      BY <1>2 DEF DropBinary, Arrives
    <2> QED
      BY <2>1, DeliverType DEF Deliver, PhoneTypes, ReceiveTypeOK, receiveVars
  <1>3. CASE TakeBinary
    <2>1. /\ Deliver /\ UNCHANGED <<up, pending>> /\ cur \in Transfers
      BY <1>3 DEF TakeBinary, Arrives, PhoneTypes, ReceiveTypeOK
    <2>2. <<Head(down).t, Head(down).k>> \in Chunks
      BY <2>1, DeliverType DEF Downs, Chunks
    <2>3. waiting' \subseteq Handlers
      <3>1. ASSUME NEW p \in {"init", "decode"}
            PROVE  [chunk |-> <<Head(down).t, Head(down).k>>, t |-> cur,
                    at |-> p] \in Handlers
        BY <2>1, <2>2 DEF Handlers
      <3>2. waiting \subseteq Handlers
        BY DEF PhoneTypes, ReceiveTypeOK
      <3> QED
        BY <1>3, <3>1, <3>2 DEF TakeBinary
    <2>4. got' \in [Transfers -> Nat]
      BY <1>3, <2>1 DEF TakeBinary, PhoneTypes, ReceiveTypeOK
    <2>5. ReceiveTypeOK'
      BY <1>3, <2>3, <2>4 DEF TakeBinary, PhoneTypes, ReceiveTypeOK
    <2> QED
      BY <2>1, <2>5, DeliverType DEF Deliver, PhoneTypes
  <1>4. CASE HandleEnd
    <2>1. /\ Deliver /\ UNCHANGED <<up, pending>>
      BY <1>4 DEF HandleEnd, Arrives
    <2>2. PICK t \in Transfers : t = Head(down).t
      BY <2>1, DeliverType DEF Downs
    <2>3. UNCHANGED <<cur, receives, init, got, chunks, waiting, disk, saved>>
      BY <1>4 DEF HandleEnd
    <2>4. fin' \in [Transfers -> FinStates]
      BY <1>4, <2>2 DEF HandleEnd, PhoneTypes, ReceiveTypeOK, FinStates
    <2>5. flushing' \in [Transfers -> Seq(Chunks)]
      BY <1>4, <2>2 DEF HandleEnd, PhoneTypes, ReceiveTypeOK
    <2>6. ReceiveTypeOK'
      BY <2>3, <2>4, <2>5 DEF PhoneTypes, ReceiveTypeOK
    <2> QED
      BY <2>1, <2>6, DeliverType DEF Deliver, PhoneTypes
  <1> QED
    BY <1>1, <1>2, <1>3, <1>4 DEF FrameArrives

\* So do what the phone has under way.
LEMMA TaskType ==
  ASSUME PhoneTypes, PhoneTask
  PROVE  PhoneTypes'
  <1>0. ASSUME Background, ReceiveTypeOK',
               pending' \in Seq(Frames), up' \in [Conns -> Seq(Frames)]
        PROVE  PhoneTypes'
    BY <1>0 DEF Background, PhoneTypes
  <1>1. ASSUME NEW t \in Transfers, InitFile(t)
        PROVE  PhoneTypes'
    <2>1. Ack(t, 0) \in Frames
      BY FrameTypes DEF Ids
    <2>2. ReceiveTypeOK'
      <3>1. <<>> \in Seq(Chunks)
        BY EmptySeq
      <3> QED
        BY <1>1, <3>1 DEF InitFile, PhoneTypes, ReceiveTypeOK
    <2> QED
      BY <1>0, <1>1, <2>1, <2>2, SendType DEF InitFile
  <1>2. ASSUME NEW t \in Transfers, Flush(t)
        PROVE  PhoneTypes'
    <2>1. /\ <<>> \in Seq(Chunks) /\ flushing[t] \in Seq(Chunks)
          /\ {"flushed", "unflushed"} \subseteq FinStates
      BY EmptySeq DEF PhoneTypes, ReceiveTypeOK, FinStates
    <2>2. ReceiveTypeOK'
      BY <1>2, <2>1 DEF Flush, PhoneTypes, ReceiveTypeOK
    <2> QED
      BY <1>0, <1>2, <2>2 DEF Flush, PhoneTypes
  <1>3. ASSUME NEW t \in Transfers, Report(t)
        PROVE  PhoneTypes'
    <2>1. /\ disk[Name[t]] \in Seq(Chunks)
          /\ {"saved", "reported"} \subseteq FinStates
      BY DEF PhoneTypes, ReceiveTypeOK, FinStates
    <2>2. ReceiveTypeOK'
      BY <1>3, <2>1 DEF Report, PhoneTypes, ReceiveTypeOK, Ids
    <2> QED
      BY <1>0, <1>3, <2>2 DEF Report, PhoneTypes
  <1>4. ASSUME NEW h \in waiting
        PROVE  /\ h \in Handlers /\ h.t \in Transfers /\ h.chunk \in Chunks
               /\ [h EXCEPT !.at = "decode"] \in Handlers
               /\ [h EXCEPT !.at = "yield"] \in Handlers
               /\ Ack(cur, got[h.t]) \in Frames
    <2>1. h \in Handlers
      BY DEF PhoneTypes, ReceiveTypeOK
    <2>2. cur \in Ids /\ got[h.t] \in Nat
      BY <2>1 DEF PhoneTypes, ReceiveTypeOK, Handlers
    <2>3. Ack(cur, got[h.t]) \in Frames
      BY <2>2, FrameTypes
    <2> QED
      BY <2>1, <2>3 DEF Handlers
  <1>5. ASSUME NEW h \in waiting, InitReady(h)
        PROVE  PhoneTypes'
    <2>1. waiting' \subseteq Handlers
      BY <1>4, <1>5 DEF InitReady, PhoneTypes, ReceiveTypeOK
    <2>2. got' \in [Transfers -> Nat]
      <3>1. PICK t \in Transfers : t = h.t
        BY <1>4
      <3>2. got \in [Transfers -> Nat] /\ got' = [got EXCEPT ![t] = @ + 1]
        BY <1>5, <3>1 DEF InitReady, PhoneTypes, ReceiveTypeOK
      <3> QED
        BY <3>2
    <2>3. ReceiveTypeOK'
      BY <1>5, <2>1, <2>2 DEF InitReady, PhoneTypes, ReceiveTypeOK
    <2> QED
      BY <1>0, <1>5, <2>3 DEF InitReady, PhoneTypes
  <1>6. ASSUME NEW h \in waiting, InitGivesUp(h) \/ DecodeFails(h)
        PROVE  PhoneTypes'
    <2>1. ReceiveTypeOK'
      BY <1>6 DEF InitGivesUp, DecodeFails, PhoneTypes, ReceiveTypeOK
    <2> QED
      BY <1>0, <1>6, <2>1 DEF InitGivesUp, DecodeFails, PhoneTypes
  <1>7. ASSUME NEW h \in waiting, Decoded(h)
        PROVE  PhoneTypes'
    <2>1. Append(chunks[h.t], h.chunk) \in Seq(Chunks)
      BY <1>4, AppendProperties DEF PhoneTypes, ReceiveTypeOK
    <2>2. chunks' \in [Transfers -> Seq(Chunks)]
      BY <1>4, <1>7, <2>1 DEF Decoded, PhoneTypes, ReceiveTypeOK
    <2>3. waiting' \subseteq Handlers
      BY <1>4, <1>7 DEF Decoded, PhoneTypes, ReceiveTypeOK
    <2>4. ReceiveTypeOK'
      BY <1>7, <2>2, <2>3 DEF Decoded, PhoneTypes, ReceiveTypeOK
    <2>5. pending' \in Seq(Frames) /\ up' \in [Conns -> Seq(Frames)]
      BY <1>4, <1>7, SendType DEF Decoded, PhoneTypes
    <2> QED
      BY <1>0, <1>7, <2>4, <2>5 DEF Decoded
  <1>8. ASSUME NEW h \in waiting, Yielded(h)
        PROVE  PhoneTypes'
    <2>1. ReceiveTypeOK'
      BY <1>8 DEF Yielded, PhoneTypes, ReceiveTypeOK
    <2> QED
      BY <1>0, <1>4, <1>8, <2>1, SendType DEF Yielded
  <1> QED
    BY <1>1, <1>2, <1>3, <1>5, <1>6, <1>7, <1>8 DEF PhoneTask

\* The socket keeps its types, and what it carries.
LEMMA SocketType ==
  ASSUME PhoneTypes, SocketMoves, UNCHANGED receiveVars
  PROVE  PhoneTypes'
  <1>0. ReceiveTypeOK'
    BY DEF PhoneTypes, ReceiveTypeOK, receiveVars
  <1>1. CASE Connect
    <2>1. <<Auth>> \o pending \in Seq(Frames)
      <3>1. <<Auth>> \in Seq(Frames) /\ pending \in Seq(Frames)
        BY FrameTypes DEF PhoneTypes
      <3> QED
        BY <3>1, ConcatProperties
    <2>2. conn + 1 \in Conns
      BY <1>1, SocketAssumption DEF Connect, PhoneTypes
    <2>3. <<>> \in Seq(Frames)
      BY EmptySeq
    <2> QED
      BY <1>0, <1>1, <2>1, <2>2, <2>3 DEF Connect, PhoneTypes
  <1>2. CASE Drop
    <2>1. conn \in Conns /\ up[conn] \in Seq(Frames) /\ down \in Seq(Downs)
      BY <1>2 DEF Drop, PhoneTypes
    <2>2. up' \in [Conns -> Seq(Frames)]
      <3>1. PICK n \in 0 .. Len(up[conn]) :
              up' = [up EXCEPT ![conn] = SubSeq(@, 1, n)]
        BY <1>2 DEF Drop
      <3>2. SubSeq(up[conn], 1, n) \in Seq(Frames)
        BY <2>1, SubSeqProperties, LenProperties
      <3> QED
        BY <3>1, <3>2 DEF PhoneTypes
    <2>3. down' \in Seq(Downs)
      BY <1>2, <2>1, SubSeqProperties, LenProperties DEF Drop
    <2>4. drops' \in 0 .. MaxDrops
      BY <1>2, SocketAssumption DEF Drop, PhoneTypes
    <2> QED
      BY <1>0, <1>2, <2>1, <2>2, <2>3, <2>4, DownsAreFrames
      DEF Drop, PhoneTypes
  <1>3. CASE NoticeClose
    <2>1. <<>> \in Seq(Frames) /\ <<>> \in Seq(Downs)
      BY EmptySeq
    <2> QED
      BY <1>0, <1>3, <2>1 DEF NoticeClose, PhoneTypes
  <1> QED
    BY <1>1, <1>2, <1>3 DEF SocketMoves

\* A handler of the server takes a frame of the phone's off a connection.
LEMMA TakeType ==
  ASSUME PhoneTypes, NEW c \in Conns, NEW kind, TakeFrame(c, kind)
  PROVE  /\ up[c] # <<>> /\ Head(up[c]) \in Frames
         /\ Head(up[c]).kind = kind
         /\ up' \in [Conns -> Seq(Frames)]
  <1>1. up[c] \in Seq(Frames) /\ up[c] # <<>>
    BY DEF TakeFrame, PhoneTypes
  <1>2. Head(up[c]) \in Frames /\ Tail(up[c]) \in Seq(Frames)
    BY <1>1, HeadTailProperties
  <1> QED
    BY <1>1, <1>2 DEF TakeFrame, PhoneTypes

\* A step of the server leaves the phone alone, and what it sends is the PC's.
LEMMA ServerType ==
  ASSUME PhoneTypes, UNCHANGED <<link, conn, drops, pending, receiveVars>>,
         up' \in [Conns -> Seq(Frames)], down' \in Seq(Downs)
  PROVE  PhoneTypes'
  <1>1. ReceiveTypeOK'
    BY DEF PhoneTypes, ReceiveTypeOK, receiveVars
  <1>2. SocketTypes(Frames)'
    BY DownsAreFrames DEF PhoneTypes
  <1> QED
    BY <1>1, <1>2 DEF PhoneTypes

\* At the start nothing is sent.
LEMMA StartType ==
  ASSUME SocketInit, ReceiveInit, PcInit
  PROVE  PhoneTypes /\ CallTypes
  <1>1. /\ <<>> \in Seq(Frames) /\ <<>> \in Seq(Downs)
        /\ <<>> \in Seq(Chunks)
    BY EmptySeq
  <1>2. /\ MaxConns \in Nat /\ 0 \in 0 .. MaxConns
        /\ MaxDrops \in Nat /\ 0 \in 0 .. MaxDrops
    BY SocketAssumption
  <1>3. SocketTypes(Frames) /\ down \in Seq(Downs)
    BY <1>1, <1>2 DEF SocketInit
  <1>4. ReceiveTypeOK
    BY <1>1 DEF ReceiveInit, ReceiveTypeOK, Ids, FinStates
  <1>5. CallTypes
    BY <1>2, PhoneReceiveAssumption
    DEF PcInit, CallTypes, PcTypeOK, IdxInv, SendStates
  <1> QED
    BY <1>3, <1>4, <1>5 DEF PhoneTypes

\* A connection authenticates, and may replace another.
LEMMA AuthenticateType ==
  ASSUME PhoneTypes, CallTypes, NEW c \in Conns, Authenticate(c)
  PROVE  PhoneTypes' /\ CallTypes'
  <1>1. up[c] \in Seq(Frames) /\ up[c] # <<>>
    BY DEF Authenticate, PhoneTypes
  <1>2. Tail(up[c]) \in Seq(Frames)
    BY <1>1, HeadTailProperties
  <1>3. SocketTypes(Frames)'
    BY <1>2 DEF Authenticate, PhoneTypes, Live
  <1>4. ReceiveTypeOK'
    BY DEF Authenticate, receiveVars, PhoneTypes, ReceiveTypeOK
  <1>5. CallTypes'
    BY DEF Authenticate, CallTypes, PcTypeOK, IdxInv
  <1> QED
    BY <1>3, <1>4, <1>5 DEF Authenticate, PhoneTypes

\* The entry of a connection that was closed is removed.
LEMMA ForgetType ==
  ASSUME PhoneTypes, CallTypes, ForgetClient
  PROVE  PhoneTypes' /\ CallTypes'
  <1>1. PhoneTypes'
    BY DEF ForgetClient, socketVars, receiveVars, PhoneTypes, ReceiveTypeOK
  <1>2. CallTypes'
    BY SocketAssumption DEF ForgetClient, CallTypes, PcTypeOK, IdxInv
  <1> QED
    BY <1>1, <1>2

----------------------------------------------------------------------------
(* The channel to the phone, and what a step does to it. *)

DownOnce(f) ==
  \A i, j \in 1 .. Len(down) : down[i] = f /\ down[j] = f => i = j

\* Nothing enters the channel to the phone, and nothing stands there twice
\* that stood there once.
DownFades ==
  \A f : /\ InFlight(down, f)' => InFlight(down, f)
         /\ DownOnce(f) => DownOnce(f)'
\* Frame g enters it at most.
DownGains(g) ==
  \A f : /\ InFlight(down, f)' => InFlight(down, f) \/ f = g
         /\ DownOnce(f) /\ (f = g => ~ InFlight(down, g)) => DownOnce(f)'

\* Where the channel stays as it is.
LEMMA DownStays ==
  ASSUME UNCHANGED down
  PROVE  DownFades /\ \A f : InFlight(down, f) => InFlight(down, f)'
  BY DEF DownFades, DownOnce, InFlight

\* Frame g is the only one to enter, and it arrives over a live connection.
LEMMA ReplyGains ==
  ASSUME PhoneTypes, NEW c, NEW g \in Downs, Reply(c, <<g>>)
  PROVE  /\ DownGains(g)
         /\ \A f : InFlight(down, f) => InFlight(down, f)'
         /\ Live(c) => InFlight(down, g)'
  <1>1. CASE down' = down \o <<g>>
    <2>1. down \in Seq(Downs) /\ <<g>> \in Seq(Downs) /\ Len(<<g>>) = 1
          /\ <<g>>[1] = g /\ Len(down) \in Nat
      BY LenProperties DEF PhoneTypes
    <2>2. /\ Len(down') = Len(down) + 1
          /\ \A i \in 1 .. Len(down) : down'[i] = down[i]
          /\ down'[Len(down) + 1] = g
      BY <1>1, <2>1, ConcatProperties
    <2>3. \A f : InFlight(down, f)' => InFlight(down, f) \/ f = g
      BY <2>1, <2>2 DEF InFlight
    <2>4. \A f : InFlight(down, f) => InFlight(down, f)'
      BY <2>1, <2>2 DEF InFlight
    <2>5. InFlight(down, g)'
      BY <2>1, <2>2 DEF InFlight
    <2>6. ASSUME NEW f, DownOnce(f), f = g => ~ InFlight(down, g)
          PROVE  DownOnce(f)'
      BY <2>1, <2>2, <2>6 DEF DownOnce, InFlight
    <2> QED
      BY <2>3, <2>4, <2>5, <2>6 DEF DownGains
  <1>2. CASE UNCHANGED down /\ ~ Live(c)
    BY <1>2, DownStays DEF DownGains, DownFades
  <1> QED
    BY <1>1, <1>2 DEF Reply, Live

\* The frame that reaches the phone was in flight, and is no more if it was
\* only once.
LEMMA DeliverTakes ==
  ASSUME PhoneTypes, Deliver, NEW g, g = Head(down)
  PROVE  /\ DownFades
         /\ InFlight(down, g)
         /\ DownOnce(g) => ~ InFlight(down, g)'
         /\ \A f : f # g /\ InFlight(down, f) => InFlight(down, f)'
  <1>1. /\ down \in Seq(Downs) /\ down # <<>> /\ down' = Tail(down)
        /\ Len(down) \in Nat
    BY LenProperties DEF PhoneTypes, Deliver
  <1>2. /\ Len(down) > 0 /\ g = down[1]
        /\ Len(down') = Len(down) - 1
        /\ \A i \in 1 .. Len(down') : down'[i] = down[i + 1]
    BY <1>1, HeadTailProperties, EmptySeq
  <1>3. DownFades
    BY <1>1, <1>2 DEF DownFades, DownOnce, InFlight
  <1>4. InFlight(down, g)
    BY <1>1, <1>2 DEF InFlight
  <1>5. DownOnce(g) => ~ InFlight(down, g)'
    <2> SUFFICES ASSUME DownOnce(g),
                        NEW i \in 1 .. Len(down'), down'[i] = g
                 PROVE  FALSE
      BY <1>2 DEF InFlight
    <2> QED
      BY <1>1, <1>2 DEF DownOnce
  <1>6. ASSUME NEW f, f # g, InFlight(down, f)
        PROVE  InFlight(down, f)'
    <2>1. PICK i \in 1 .. Len(down) : down[i] = f
      BY <1>6 DEF InFlight
    <2>2. i # 1
      BY <1>2, <1>6, <2>1
    <2>3. i - 1 \in 1 .. Len(down') /\ down'[i - 1] = f
      BY <1>1, <1>2, <2>1, <2>2
    <2> QED
      BY <2>3 DEF InFlight
  <1> QED
    BY <1>3, <1>4, <1>5, <1>6

\* The network and a close take frames away.
LEMMA SocketDown ==
  ASSUME PhoneTypes, SocketMoves
  PROVE  /\ DownFades
         /\ Connect => \A f : InFlight(down, f) => InFlight(down, f)'
  <1>1. CASE Connect
    <2>1. UNCHANGED down
      BY <1>1 DEF Connect
    <2> QED
      BY <2>1, DownStays
  <1>2. CASE Drop
    <2>1. PICK m \in 0 .. Len(down) : down' = SubSeq(down, 1, m)
      BY <1>2 DEF Drop
    <2>2. down \in Seq(Downs) /\ Len(down) \in Nat
      BY LenProperties DEF PhoneTypes
    <2>3. Len(down') = m /\ \A i \in 1 .. m : down'[i] = down[i]
      BY <2>1, <2>2, SubSeqProperties
    <2>4. ~ Connect
      BY <1>2 DEF Connect, Drop
    <2> QED
      BY <2>1, <2>2, <2>3, <2>4 DEF DownFades, DownOnce, InFlight
  <1>3. CASE NoticeClose
    <2>1. down' = <<>> /\ ~ Connect
      BY <1>3 DEF NoticeClose, Connect
    <2>2. Len(<<>>) = 0
      BY EmptySeq
    <2> QED
      BY <2>1, <2>2 DEF DownFades, DownOnce, InFlight
  <1> QED
    BY <1>1, <1>2, <1>3 DEF SocketMoves

----------------------------------------------------------------------------
(* The frames on their way to the PC, and what a step does to their places. *)

\* Box 0 is the queue of the phone, box c the channel of connection c.
Boxes     == 0 .. MaxConns
Box(b)    == IF b = 0 THEN pending ELSE up[b]
Has(b, i) == b \in Boxes /\ i \in 1 .. Len(Box(b))
At(b, i)  == Box(b)[i]

\* Frame f is put behind what box d holds.
Puts(d, f) ==
  \E n \in Nat :
    /\ \A b, i : Has(b, i)' <=> Has(b, i) \/ (b = d /\ i = n)
    /\ \A b, i : Has(b, i) => At(b, i)' = At(b, i) /\ (b = d => i < n)
    /\ At(d, n)' = f
\* The boxes stay as they are.
Stays ==
  \A b, i : /\ Has(b, i)' <=> Has(b, i)
            /\ Has(b, i) => At(b, i)' = At(b, i)
\* The first frame of box c is taken.
Takes(c) ==
  /\ Has(c, 1)
  /\ \A b, i : b # c => /\ Has(b, i)' <=> Has(b, i)
                        /\ Has(b, i) => At(b, i)' = At(b, i)
  /\ \A i : Has(c, i)' =>
       i \in Nat /\ Has(c, i + 1) /\ At(c, i)' = At(c, i + 1)
\* Boxes lose what is behind some place.
Cuts ==
  \A b, i : Has(b, i)' => Has(b, i) /\ At(b, i)' = At(b, i)
\* Box c takes AUTH and then all that box 0 holds.
Opens(c) ==
  /\ \A i : ~ Has(0, i)'
  /\ \A i : Has(c, i)' =>
       \/ i = 1 /\ At(c, i)' = Auth
       \/ i \in Nat \ {1} /\ Has(0, i - 1) /\ At(c, i)' = At(0, i - 1)
  /\ \A b, i : b \notin {0, c} => /\ Has(b, i)' <=> Has(b, i)
                                  /\ Has(b, i) => At(b, i)' = At(b, i)

\* What the boxes hold are frames.
LEMMA BoxType ==
  ASSUME PhoneTypes
  PROVE  /\ \A b \in Boxes : Box(b) \in Seq(Frames)
         /\ \A b, i : Has(b, i) =>
              b \in Boxes /\ i \in Nat \ {0} /\ At(b, i) \in Frames
  <1>1. \A b \in Boxes : Box(b) \in Seq(Frames)
    BY SocketAssumption DEF PhoneTypes, Boxes, Box
  <1>2. ASSUME NEW b, NEW i, Has(b, i)
        PROVE  b \in Boxes /\ i \in Nat \ {0} /\ At(b, i) \in Frames
    <2>1. Box(b) \in Seq(Frames) /\ i \in 1 .. Len(Box(b))
      BY <1>1, <1>2 DEF Has
    <2> QED
      BY <1>2, <2>1, ElementOfSeq, LenProperties DEF Has, At
  <1> QED
    BY <1>1, <1>2

\* The number of a connection is that of a box.
LEMMA ConnBox ==
  \A c \in Conns : c \in Boxes /\ c # 0
  BY SocketAssumption DEF Boxes

\* Appending to a box puts a frame there.
LEMMA AppendPuts ==
  ASSUME PhoneTypes, NEW d \in Boxes, NEW f \in Frames,
         Box(d)' = Append(Box(d), f),
         \A b \in Boxes \ {d} : Box(b)' = Box(b)
  PROVE  Puts(d, f)
  <1>0. Box(d) \in Seq(Frames)
    BY BoxType
  <1>1. PICK n \in Nat : n = Len(Box(d)) + 1
    BY <1>0, LenProperties
  <1>2. /\ Len(Append(Box(d), f)) = n
        /\ \A i \in 1 .. Len(Box(d)) : Append(Box(d), f)[i] = Box(d)[i]
        /\ Append(Box(d), f)[n] = f
    BY <1>0, <1>1, AppendProperties
  <1>3. \A b, i : Has(b, i)' <=> Has(b, i) \/ (b = d /\ i = n)
    BY <1>0, <1>1, <1>2, LenProperties DEF Has
  <1>4. \A b, i : Has(b, i) => At(b, i)' = At(b, i) /\ (b = d => i < n)
    BY <1>0, <1>1, <1>2, LenProperties DEF Has, At
  <1>5. At(d, n)' = f
    BY <1>2 DEF At
  <1> QED
    BY <1>3, <1>4, <1>5 DEF Puts

\* Where queue and channels stay as they are.
LEMMA UnchangedStays ==
  ASSUME UNCHANGED <<pending, up>>
  PROVE  Stays
  <1>1. \A b : Box(b)' = Box(b)
    BY DEF Box
  <1> QED
    BY <1>1 DEF Stays, Has, At

\* _send: an open socket or the queue takes the frame, a dead socket loses it.
LEMMA SendPuts ==
  ASSUME PhoneTypes, NEW f \in Frames, Send(f), UNCHANGED conn
  PROVE  \/ link = "up" /\ Puts(conn, f)
         \/ link = "down" /\ Puts(0, f)
         \/ link = "dead" /\ Stays
  <1>1. CASE link = "up" /\ up' = [up EXCEPT ![conn] = Append(@, f)]
             /\ UNCHANGED pending
    <2>1. PICK d \in Conns : d = conn
      BY <1>1 DEF PhoneTypes
    <2>2. up' = [up EXCEPT ![d] = Append(up[d], f)]
      BY <1>1, <2>1
    <2>3. d \in Boxes /\ d # 0
      BY ConnBox
    <2>4. /\ Box(d)' = Append(Box(d), f)
          /\ \A b \in Boxes \ {d} : Box(b)' = Box(b)
      BY <1>1, <2>2, <2>3, SocketAssumption DEF Box, Boxes, PhoneTypes
    <2>5. Puts(d, f)
      BY <2>3, <2>4, AppendPuts
    <2> QED
      BY <1>1, <2>1, <2>5 DEF Puts
  <1>2. CASE link = "down" /\ pending' = Append(pending, f) /\ UNCHANGED up
    <2>1. 0 \in Boxes
      BY SocketAssumption DEF Boxes
    <2>2. /\ Box(0)' = Append(Box(0), f)
          /\ \A b \in Boxes \ {0} : Box(b)' = Box(b)
      BY <1>2 DEF Box
    <2> QED
      BY <1>2, <2>1, <2>2, AppendPuts
  <1>3. CASE link = "dead" /\ UNCHANGED <<up, pending>>
    BY <1>3, UnchangedStays
  <1> QED
    BY <1>1, <1>2, <1>3 DEF Send

\* A handler's frame was the first of its connection.
LEMMA TakeTakes ==
  ASSUME PhoneTypes, NEW c \in Conns, up[c] # <<>>,
         up' = [up EXCEPT ![c] = Tail(@)], UNCHANGED pending
  PROVE  /\ Takes(c) /\ At(c, 1) = Head(up[c])
         /\ c \in Boxes /\ c # 0
  <1>1. /\ Box(c) = up[c] /\ Box(c) \in Seq(Frames) /\ Box(c) # <<>>
        /\ c \in Boxes /\ c # 0
    BY ConnBox, BoxType DEF Box
  <1>2. /\ Box(c)' = Tail(Box(c))
        /\ \A b \in Boxes \ {c} : Box(b)' = Box(b)
    BY <1>1, SocketAssumption DEF Box, Boxes, PhoneTypes
  <1>3. /\ Len(Box(c)) \in Nat /\ Len(Tail(Box(c))) = Len(Box(c)) - 1
        /\ \A i \in 1 .. Len(Tail(Box(c))) : Tail(Box(c))[i] = Box(c)[i + 1]
        /\ Len(Box(c)) > 0
    BY <1>1, HeadTailProperties, LenProperties, EmptySeq
  <1>4. Has(c, 1) /\ At(c, 1) = Head(up[c])
    BY <1>1, <1>3 DEF Has, At
  <1>5. \A b, i : b # c => /\ Has(b, i)' <=> Has(b, i)
                           /\ Has(b, i) => At(b, i)' = At(b, i)
    BY <1>1, <1>2 DEF Has, At
  <1>6. \A i : Has(c, i)' =>
          i \in Nat /\ Has(c, i + 1) /\ At(c, i)' = At(c, i + 1)
    BY <1>1, <1>2, <1>3 DEF Has, At
  <1> QED
    BY <1>1, <1>4, <1>5, <1>6 DEF Takes

\* onopen empties the queue into the new channel, behind AUTH.
LEMMA ConnectOpens ==
  ASSUME PhoneTypes, Connect, NEW c, c = conn + 1
  PROVE  Opens(c) /\ c \in Conns
  <1>1. /\ c \in Conns /\ c \in Boxes /\ c # 0 /\ 0 \in Boxes
        /\ pending \in Seq(Frames)
    BY SocketAssumption DEF Connect, PhoneTypes, Boxes
  <1>2. /\ Box(c)' = <<Auth>> \o pending /\ Box(0)' = <<>>
        /\ \A b \in Boxes \ {0, c} : Box(b)' = Box(b)
    BY <1>1, SocketAssumption DEF Connect, Box, Boxes, PhoneTypes
  <1>3. \A i : ~ Has(0, i)'
    BY <1>2, EmptySeq DEF Has
  <1>4. ASSUME NEW i, Has(c, i)'
        PROVE  \/ i = 1 /\ At(c, i)' = Auth
               \/ i \in Nat \ {1} /\ Has(0, i - 1) /\ At(c, i)' = At(0, i - 1)
    <2>1. <<Auth>> \in Seq(Frames) /\ Len(<<Auth>>) = 1 /\ <<Auth>>[1] = Auth
      BY FrameTypes
    <2>2. /\ Len(<<Auth>> \o pending) = Len(<<Auth>>) + Len(pending)
          /\ \A j \in 1 .. Len(<<Auth>>) + Len(pending) :
               (<<Auth>> \o pending)[j] =
                 IF j <= Len(<<Auth>>) THEN <<Auth>>[j]
                 ELSE pending[j - Len(<<Auth>>)]
      BY <1>1, <2>1, ConcatProperties
    <2>3. Len(pending) \in Nat /\ i \in 1 .. 1 + Len(pending)
      BY <1>1, <1>2, <1>4, <2>1, <2>2, LenProperties DEF Has
    <2>4. At(c, i)' = IF i <= 1 THEN Auth ELSE pending[i - 1]
      BY <1>2, <2>1, <2>2, <2>3 DEF At
    <2> QED
      BY <1>1, <2>3, <2>4 DEF Has, At, Box
  <1>5. \A b, i : b \notin {0, c} => /\ Has(b, i)' <=> Has(b, i)
                                     /\ Has(b, i) => At(b, i)' = At(b, i)
    BY <1>1, <1>2 DEF Has, At
  <1> QED
    BY <1>1, <1>3, <1>4, <1>5 DEF Opens

\* A broken connection loses the end of its channel.
LEMMA DropCuts ==
  ASSUME PhoneTypes, Drop
  PROVE  Cuts
  <1>1. conn \in Conns /\ up[conn] \in Seq(Frames)
    BY DEF Drop, PhoneTypes
  <1>2. PICK n \in 0 .. Len(up[conn]) :
          up' = [up EXCEPT ![conn] = SubSeq(@, 1, n)]
    BY DEF Drop
  <1>3. PICK d \in Conns : d = conn
    BY <1>1
  <1>4. /\ Len(SubSeq(up[d], 1, n)) = n /\ Len(up[d]) \in Nat
        /\ \A i \in 1 .. n : SubSeq(up[d], 1, n)[i] = up[d][i]
    BY <1>1, <1>2, <1>3, SubSeqProperties, LenProperties
  <1>5. d \in Boxes /\ d # 0
    BY ConnBox
  <1>6. /\ Box(d)' = SubSeq(Box(d), 1, n)
        /\ \A b \in Boxes : b # d => Box(b)' = Box(b)
    BY <1>2, <1>3, <1>5, SocketAssumption DEF Drop, Box, Boxes, PhoneTypes
  <1>7. Box(d) = up[d] /\ n \in 0 .. Len(up[d])
    BY <1>2, <1>3, <1>5 DEF Box
  <1> QED
    BY <1>4, <1>6, <1>7 DEF Cuts, Has, At

\* The place a frame had before the first one of box c was taken.
LEMMA TakesFrom ==
  ASSUME NEW c, Takes(c), NEW b, NEW i, Has(b, i)'
  PROVE  \E k : /\ Has(b, k) /\ At(b, i)' = At(b, k)
               /\ IF b = c THEN i \in Nat /\ k = i + 1 ELSE k = i
  <1>1. CASE b = c
    <2>1. i \in Nat /\ Has(b, i + 1) /\ At(b, i)' = At(b, i + 1)
      BY <1>1 DEF Takes
    <2> QED
      BY <1>1, <2>1
  <1>2. CASE b # c
    <2>1. Has(b, i) /\ At(b, i)' = At(b, i)
      BY <1>2 DEF Takes
    <2> QED
      BY <1>2, <2>1
  <1> QED
    BY <1>1, <1>2

\* Taking a frame keeps the places of two others apart.
LEMMA TakesApart ==
  ASSUME NEW c, Takes(c), NEW b, NEW i, Has(b, i)',
         NEW d, NEW j, Has(d, j)'
  PROVE  \E k, l : /\ Has(b, k) /\ At(b, i)' = At(b, k)
                   /\ Has(d, l) /\ At(d, j)' = At(d, l)
                   /\ b = d => (i = j <=> k = l)
  <1>1. PICK k : /\ Has(b, k) /\ At(b, i)' = At(b, k)
                 /\ IF b = c THEN i \in Nat /\ k = i + 1 ELSE k = i
    BY TakesFrom
  <1>2. PICK l : /\ Has(d, l) /\ At(d, j)' = At(d, l)
                 /\ IF d = c THEN j \in Nat /\ l = j + 1 ELSE l = j
    BY TakesFrom
  <1>3. b = d => (i = j <=> k = l)
    BY <1>1, <1>2
  <1> QED
    BY <1>1, <1>2, <1>3

\* The place a frame other than AUTH had before connection c was opened.
LEMMA OpensFrom ==
  ASSUME NEW c, Opens(c), NEW b, NEW i, Has(b, i)', At(b, i)' # Auth
  PROVE  \E a, k : /\ Has(a, k) /\ At(b, i)' = At(a, k)
                   /\ IF b = c THEN a = 0 /\ i \in Nat /\ k = i - 1
                      ELSE a = b /\ k = i /\ a # 0
  <1>1. CASE b = c
    BY <1>1 DEF Opens
  <1>2. CASE b # c
    <2>1. Has(b, i) /\ At(b, i)' = At(b, i) /\ b # 0
      BY <1>2 DEF Opens
    <2> QED
      BY <1>2, <2>1
  <1> QED
    BY <1>1, <1>2

\* So does opening a connection, but for AUTH.
LEMMA OpensApart ==
  ASSUME NEW c, Opens(c), NEW b, NEW i, Has(b, i)', At(b, i)' # Auth,
         NEW d, NEW j, Has(d, j)', At(d, j)' # Auth
  PROVE  \E a, k, e, l :
           /\ Has(a, k) /\ At(b, i)' = At(a, k)
           /\ Has(e, l) /\ At(d, j)' = At(e, l)
           /\ (b = d /\ i = j) <=> (a = e /\ k = l)
  <1>1. PICK a, k : /\ Has(a, k) /\ At(b, i)' = At(a, k)
                    /\ IF b = c THEN a = 0 /\ i \in Nat /\ k = i - 1
                       ELSE a = b /\ k = i /\ a # 0
    BY OpensFrom
  <1>2. PICK e, l : /\ Has(e, l) /\ At(d, j)' = At(e, l)
                    /\ IF d = c THEN e = 0 /\ j \in Nat /\ l = j - 1
                       ELSE e = d /\ l = j /\ e # 0
    BY OpensFrom
  <1>3. (b = d /\ i = j) <=> (a = e /\ k = l)
    BY <1>1, <1>2
  <1> QED
    BY <1>1, <1>2, <1>3

----------------------------------------------------------------------------
(* ACKs on their way. *)

AckIn(f)   == \E b, i : Has(b, i) /\ At(b, i) = f
AckOnce(f) ==
  \A b, i, d, j : Has(b, i) /\ Has(d, j) /\ At(b, i) = f /\ At(d, j) = f =>
    b = d /\ i = j

\* No ACK enters the boxes, and none is there twice that was there once.
AcksFade ==
  \A f : f # Auth => /\ AckIn(f)' => AckIn(f)
                     /\ AckOnce(f) => AckOnce(f)'
\* Frame g enters them at most.
AcksGain(g) ==
  \A f : /\ AckIn(f)' => AckIn(f) \/ f = g
         /\ AckOnce(f) /\ (f = g => ~ AckIn(g)) => AckOnce(f)'
AcksKept == \A f : AckIn(f) => AckIn(f)'

\* Where the boxes stay as they are.
LEMMA StaysFade ==
  ASSUME Stays
  PROVE  AcksFade /\ AcksKept
  <1>1. \A f : AckIn(f)' <=> AckIn(f)
    BY DEF Stays, AckIn
  <1>2. \A f : AckOnce(f) => AckOnce(f)'
    BY DEF Stays, AckOnce
  <1> QED
    BY <1>1, <1>2 DEF AcksFade, AcksKept

\* The same, of queue and channels.
LEMMA UnchangedFade ==
  ASSUME UNCHANGED <<pending, up>>
  PROVE  AcksFade /\ AcksKept
  BY UnchangedStays, StaysFade

\* A frame put into a box.
LEMMA PutsGain ==
  ASSUME NEW d \in Boxes, NEW g, Puts(d, g)
  PROVE  AcksGain(g) /\ AcksKept /\ AckIn(g)'
  <1>1. PICK n \in Nat :
          /\ \A b, i : Has(b, i)' <=> Has(b, i) \/ (b = d /\ i = n)
          /\ \A b, i : Has(b, i) => At(b, i)' = At(b, i) /\ (b = d => i < n)
          /\ At(d, n)' = g
    BY DEF Puts
  <1>2. \A f : AckIn(f)' => AckIn(f) \/ f = g
    BY <1>1 DEF AckIn
  <1>3. AcksKept
    BY <1>1 DEF AckIn, AcksKept
  <1>4. AckIn(g)'
    BY <1>1 DEF AckIn
  <1>5. ASSUME NEW f, AckOnce(f), f = g => ~ AckIn(g)
        PROVE  AckOnce(f)'
    <2> SUFFICES ASSUME NEW b, NEW i, NEW e, NEW j,
                        Has(b, i)', Has(e, j)',
                        At(b, i)' = f, At(e, j)' = f
                 PROVE  b = e /\ i = j
      BY DEF AckOnce
    <2>1. CASE Has(b, i) /\ Has(e, j)
      BY <1>1, <1>5, <2>1 DEF AckOnce
    <2>2. CASE b = d /\ i = n /\ Has(e, j)
      <3>1. f = g /\ At(e, j) = f
        BY <1>1, <2>2
      <3> QED
        BY <1>5, <2>2, <3>1 DEF AckIn
    <2>3. CASE e = d /\ j = n /\ Has(b, i)
      <3>1. f = g /\ At(b, i) = f
        BY <1>1, <2>3
      <3> QED
        BY <1>5, <2>3, <3>1 DEF AckIn
    <2> QED
      BY <1>1, <2>1, <2>2, <2>3
  <1> QED
    BY <1>2, <1>3, <1>4, <1>5 DEF AcksGain

\* _send: no other ACK enters, and this one does unless the socket is dead.
LEMMA SendGains ==
  ASSUME PhoneTypes, NEW g \in Frames, Send(g), UNCHANGED conn
  PROVE  AcksGain(g) /\ AcksKept /\ (link # "dead" => AckIn(g)')
  <1>1. CASE link = "up" /\ Puts(conn, g)
    <2>1. conn \in Boxes
      BY <1>1, ConnBox DEF PhoneTypes
    <2> QED
      BY <1>1, <2>1, PutsGain
  <1>2. CASE link = "down" /\ Puts(0, g)
    <2>1. 0 \in Boxes
      BY SocketAssumption DEF Boxes
    <2> QED
      BY <1>2, <2>1, PutsGain
  <1>3. CASE link = "dead" /\ Stays
    <2>1. \A f : AckIn(f)' <=> AckIn(f)
      BY <1>3 DEF Stays, AckIn
    <2>2. \A f : AckOnce(f) => AckOnce(f)'
      BY <1>3 DEF Stays, AckOnce
    <2> QED
      BY <1>3, <2>1, <2>2 DEF AcksGain, AcksKept
  <1> QED
    BY <1>1, <1>2, <1>3, SendPuts

\* The first frame of a connection is taken: it was on its way, and is no
\* more if it was only once.
LEMMA TakeLoses ==
  ASSUME PhoneTypes, NEW c \in Conns, up[c] # <<>>,
         up' = [up EXCEPT ![c] = Tail(@)], UNCHANGED pending,
         NEW g, g = Head(up[c])
  PROVE  /\ AcksFade
         /\ AckIn(g)
         /\ AckOnce(g) => ~ AckIn(g)'
         /\ \A f : f # g /\ AckIn(f) => AckIn(f)'
  <1>2. Takes(c) /\ At(c, 1) = g /\ c \in Boxes /\ c # 0
    BY TakeTakes
  <1>3. AckIn(g)
    BY <1>2 DEF Takes, AckIn
  <1>4. \A f : AckIn(f)' => AckIn(f)
    BY <1>2, TakesFrom DEF AckIn
  <1>5. ASSUME NEW f, AckOnce(f)
        PROVE  AckOnce(f)'
    <2> SUFFICES ASSUME NEW b, NEW i, NEW e, NEW j,
                        Has(b, i)', Has(e, j)',
                        At(b, i)' = f, At(e, j)' = f
                 PROVE  b = e /\ i = j
      BY DEF AckOnce
    <2>1. PICK k, l : /\ Has(b, k) /\ At(b, i)' = At(b, k)
                      /\ Has(e, l) /\ At(e, j)' = At(e, l)
                      /\ b = e => (i = j <=> k = l)
      BY <1>2, TakesApart
    <2> QED
      BY <1>5, <2>1 DEF AckOnce
  <1>6. ASSUME AckOnce(g), AckIn(g)'
        PROVE  FALSE
    <2>1. PICK b, i : Has(b, i)' /\ At(b, i)' = g
      BY <1>6 DEF AckIn
    <2>2. PICK k : /\ Has(b, k) /\ At(b, i)' = At(b, k)
                   /\ IF b = c THEN i \in Nat /\ k = i + 1 ELSE k = i
      BY <1>2, <2>1, TakesFrom
    <2>3. b = c /\ k = 1
      BY <1>2, <1>6, <2>1, <2>2 DEF AckOnce, Takes
    <2>4. i \in 1 .. Len(Box(b)')
      BY <2>1 DEF Has
    <2> QED
      BY <2>2, <2>3, <2>4
  <1>7. ASSUME NEW f, f # g, AckIn(f)
        PROVE  AckIn(f)'
    <2>1. PICK b, i : Has(b, i) /\ At(b, i) = f
      BY <1>7 DEF AckIn
    <2>2. CASE b # c
      <3>1. Has(b, i)' /\ At(b, i)' = At(b, i)
        BY <1>2, <2>1, <2>2 DEF Takes
      <3> QED
        BY <2>1, <3>1 DEF AckIn
    <2>3. CASE b = c
      <3>1. up[c] \in Seq(Frames) /\ Len(up[c]) \in Nat /\ Box(c) = up[c]
            /\ Box(c)' = Tail(up[c])
        BY <1>2, LenProperties DEF PhoneTypes, Box
      <3>2. /\ Len(Tail(up[c])) = Len(up[c]) - 1
            /\ \A j \in 1 .. Len(Tail(up[c])) : Tail(up[c])[j] = up[c][j + 1]
        BY <3>1, HeadTailProperties
      <3>3. i \in 1 .. Len(up[c]) /\ i # 1
        BY <1>2, <1>7, <2>1, <2>3, <3>1 DEF Has, At
      <3>4. Has(c, i - 1)' /\ At(c, i - 1)' = f
        BY <1>2, <2>1, <2>3, <3>1, <3>2, <3>3 DEF Has, At
      <3> QED
        BY <3>4 DEF AckIn
    <2> QED
      BY <2>2, <2>3
  <1> QED
    BY <1>3, <1>4, <1>5, <1>6, <1>7 DEF AcksFade

\* What the socket does to the ACKs.
LEMMA SocketAcks ==
  ASSUME PhoneTypes, SocketMoves
  PROVE  AcksFade
  <1>1. CASE Connect
    <2>1. PICK c : c = conn + 1
      OBVIOUS
    <2>2. Opens(c) /\ c \in Conns
      BY <1>1, <2>1, ConnectOpens
    <2>3. ASSUME NEW f, f # Auth, AckIn(f)'
          PROVE  AckIn(f)
      <3>1. PICK b, i : Has(b, i)' /\ At(b, i)' = f
        BY <2>3 DEF AckIn
      <3>2. PICK a, k : Has(a, k) /\ At(b, i)' = At(a, k)
        BY <2>2, <2>3, <3>1, OpensFrom
      <3> QED
        BY <3>1, <3>2 DEF AckIn
    <2>4. ASSUME NEW f, f # Auth, AckOnce(f)
          PROVE  AckOnce(f)'
      <3> SUFFICES ASSUME NEW b, NEW i, NEW d, NEW j,
                          Has(b, i)', Has(d, j)',
                          At(b, i)' = f, At(d, j)' = f
                   PROVE  b = d /\ i = j
        BY DEF AckOnce
      <3>1. PICK a, k, e, l :
              /\ Has(a, k) /\ At(b, i)' = At(a, k)
              /\ Has(e, l) /\ At(d, j)' = At(e, l)
              /\ (b = d /\ i = j) <=> (a = e /\ k = l)
        BY <2>2, <2>4, OpensApart
      <3> QED
        BY <2>4, <3>1 DEF AckOnce
    <2> QED
      BY <2>3, <2>4 DEF AcksFade
  <1>2. CASE Drop
    <2>1. Cuts
      BY <1>2, DropCuts
    <2>2. \A f : AckIn(f)' => AckIn(f)
      BY <2>1 DEF Cuts, AckIn
    <2>3. \A f : AckOnce(f) => AckOnce(f)'
      BY <2>1 DEF Cuts, AckOnce
    <2> QED
      BY <2>2, <2>3 DEF AcksFade
  <1>3. CASE NoticeClose
    BY <1>3, UnchangedFade DEF NoticeClose
  <1> QED
    BY <1>1, <1>2, <1>3 DEF SocketMoves

----------------------------------------------------------------------------
(* One send at a time, and none given up.                                   *)
(*                                                                          *)
(* Of the running call, one thing is under way at most: its META or a chunk *)
(* on the channel, the phone's work on it, or the ACK.  CallInv says where  *)
(* it may be, and what the phone holds then.                                *)

Clean == \A t \in Transfers : spc[t] # "failed"
OneSender == \A t, u \in Transfers : Sending(t) /\ Sending(u) => t = u

NoFrame(t)      == \A f : InFlight(down, f) /\ f.t = t => f.kind = "end"
NoEnd(t)        == ~ InFlight(down, End(t))
OnlyFrame(t, g) == \A f : InFlight(down, f) /\ f.t = t => f = g /\ DownOnce(f)
NoTask(t)       == \A h \in waiting : h.t # t
NoAckOf(t)      == \A f : AckIn(f) => f.t # t
OnlyAck(t, k)   == \A f : AckIn(f) /\ f.t = t => f = Ack(t, k) /\ AckOnce(f)

\* The phone expects the chunks of t.
Ready(t) == cur = t /\ t \in receives /\ init[t] \in {"ok", "failed"}
\* It has counted n chunks of t, and holds m.
Holds(t, n, m) == got[t] = n /\ chunks[t] = OwnPrefix(t, m)

\* Nothing has been sent.
Untouched(t) ==
  /\ NoFrame(t) /\ NoEnd(t) /\ NoTask(t) /\ NoAckOf(t)
  /\ init[t] = "none" /\ fin[t] = "no" /\ Holds(t, 0, 0)

\* META is on its way or lost, the file is being prepared, or readiness is
\* being acknowledged.
MetaPhase(t) ==
  /\ NoEnd(t) /\ NoTask(t) /\ fin[t] = "no" /\ Holds(t, 0, 0)
  /\ \/ OnlyFrame(t, Meta(t)) /\ NoAckOf(t) /\ init[t] = "none"
     \/ /\ NoFrame(t) /\ NoAckOf(t)
        /\ init[t] = "pending" /\ cur = t /\ t \in receives
     \/ NoFrame(t) /\ OnlyAck(t, 0) /\ Ready(t)

\* The phone holds what was acknowledged and nothing is under way.
ReadPhase(t) ==
  /\ NoFrame(t) /\ NoEnd(t) /\ NoTask(t) /\ NoAckOf(t)
  /\ fin[t] = "no" /\ Ready(t) /\ Holds(t, idx[t], idx[t])

\* Handler h works on the next chunk of t, and no other on one of t.
AtWork(t, h) ==
  /\ h \in waiting /\ h.t = t /\ h.chunk = <<t, idx[t] + 1>>
  /\ \A g \in waiting : g.t = t => g = h
  /\ \/ h.at = "init" /\ Holds(t, idx[t], idx[t])
     \/ h.at = "decode" /\ Holds(t, idx[t] + 1, idx[t])
     \/ h.at = "yield" /\ Holds(t, idx[t] + 1, idx[t] + 1)

\* The next chunk is on its way or lost, a handler works on it, it has been
\* kept and its ACK is on the way or lost, or the decoder has failed on it.
ChunkPhase(t) ==
  /\ NoEnd(t) /\ fin[t] = "no" /\ Ready(t)
  /\ \/ /\ OnlyFrame(t, Chunk(t, idx[t] + 1)) /\ NoTask(t) /\ NoAckOf(t)
        /\ Holds(t, idx[t], idx[t])
     \/ NoFrame(t) /\ NoAckOf(t) /\ \E h : AtWork(t, h)
     \/ /\ NoFrame(t) /\ NoTask(t) /\ OnlyAck(t, idx[t] + 1)
        /\ Holds(t, idx[t] + 1, idx[t] + 1)
     \/ /\ NoFrame(t) /\ NoTask(t) /\ NoAckOf(t)
        /\ got[t] \in {idx[t], idx[t] + 1}
        /\ chunks[t] = OwnPrefix(t, idx[t])

\* All chunks are there; FILE_END is on its way or lost, or was handled.
EndPhase(t) ==
  /\ NoFrame(t) /\ NoTask(t) /\ NoAckOf(t) /\ init[t] \in {"ok", "failed"}
  /\ \/ /\ fin[t] = "no" /\ t \in receives /\ DownOnce(End(t))
        /\ chunks[t] = OwnPrefix(t, NumChunks[t])
     \/ /\ fin[t] # "no" /\ NoEnd(t)
        /\ flushing[t] = OwnPrefix(t, NumChunks[t])

CallInv(t) ==
  /\ spc[t] \in {"idle", "stat"} => Untouched(t)
  /\ spc[t] \in {"sent", "meta"} => MetaPhase(t)
  /\ spc[t] = "reading" => ReadPhase(t)
  /\ spc[t] = "chunk" => ChunkPhase(t)
  /\ spc[t] = "done" => EndPhase(t)

CallsInv == Clean => \A t \in Transfers : CallInv(t)

\* No frame and no ACK of t enters the channels.
FadesFor(t) ==
  \A f : f.t = t =>
    /\ InFlight(down, f)' => InFlight(down, f)
    /\ DownOnce(f) => DownOnce(f)'
    /\ AckIn(f)' => AckIn(f)
    /\ AckOnce(f) => AckOnce(f)'
\* What call and phone have of t stays.
RestsFor(t) ==
  /\ UNCHANGED <<idx[t], init[t], got[t], chunks[t], fin[t], flushing[t]>>
  /\ \/ UNCHANGED spc[t]
     \/ spc[t] \in {"idle", "stat"} /\ spc'[t] \in {"idle", "stat"}
     \/ spc[t] \in {"sent", "meta"} /\ spc'[t] \in {"sent", "meta"}
  /\ Sending(t) => (cur = t <=> cur' = t)
  /\ t \in receives <=> t \in receives'
  /\ \A h : h.t = t => (h \in waiting <=> h \in waiting')

\* The server has taken ACK k of t off its connection, the one the call
\* waits for, and the phone has nothing of t under way.
Answered(t, k) ==
  /\ NoFrame(t) /\ NoTask(t) /\ NoAckOf(t)
  /\ \/ spc[t] \in {"sent", "meta"} /\ k = 0 /\ Ready(t)
     \/ spc[t] = "chunk" /\ k = idx[t] + 1 /\ Holds(t, k, k)
StaysAnswered(t) == \A k : Answered(t, k) => Answered(t, k)'

\* A step that adds nothing of t keeps what holds of its call.
LEMMA Undisturbed ==
  ASSUME NEW t \in Transfers, CallInv(t), FadesFor(t), RestsFor(t)
  PROVE  CallInv(t)' /\ StaysAnswered(t)
  <1>1. /\ NoFrame(t) => NoFrame(t)'
        /\ NoEnd(t) => NoEnd(t)'
        /\ NoTask(t) => NoTask(t)'
        /\ NoAckOf(t) => NoAckOf(t)'
    BY DEF FadesFor, RestsFor, NoFrame, NoEnd, NoTask, NoAckOf, End
  <1>2. /\ \A g : OnlyFrame(t, g) => OnlyFrame(t, g)'
        /\ \A k : OnlyAck(t, k) => OnlyAck(t, k)'
        /\ DownOnce(End(t)) => DownOnce(End(t))'
    BY DEF FadesFor, OnlyFrame, OnlyAck, End
  <1>3. Ready(t) /\ Sending(t) => Ready(t)'
    BY DEF RestsFor, Ready
  <1>4. \A n, m : Holds(t, n, m) => Holds(t, n, m)'
    BY DEF RestsFor, Holds, OwnPrefix
  <1>5. Untouched(t) => Untouched(t)'
    BY <1>1, <1>4 DEF Untouched, RestsFor
  <1>6. MetaPhase(t) /\ Sending(t) => MetaPhase(t)'
    BY <1>1, <1>2, <1>3, <1>4 DEF MetaPhase, RestsFor
  <1>7. idx'[t] = idx[t]
    BY DEF RestsFor
  <1>8. ReadPhase(t) /\ Sending(t) => ReadPhase(t)'
    BY <1>1, <1>3, <1>4, <1>7 DEF ReadPhase, RestsFor
  <1>9. ChunkPhase(t) /\ Sending(t) => ChunkPhase(t)'
    <2>1. \A h : AtWork(t, h) => AtWork(t, h)'
      BY <1>4, <1>7 DEF AtWork, RestsFor
    <2>2. OnlyFrame(t, Chunk(t, idx[t] + 1)) =>
            OnlyFrame(t, Chunk(t, idx[t] + 1))'
      BY <1>2, <1>7 DEF Chunk, OnlyFrame
    <2> QED
      BY <1>1, <1>2, <1>3, <1>4, <1>7, <2>1, <2>2
      DEF ChunkPhase, RestsFor, OnlyAck, Holds, OwnPrefix
  <1>10. EndPhase(t) => EndPhase(t)'
    BY <1>1, <1>2 DEF EndPhase, RestsFor, OwnPrefix
  <1>11. CallInv(t)'
    BY <1>5, <1>6, <1>8, <1>9, <1>10 DEF CallInv, RestsFor, Sending
  <1>12. ASSUME NEW k, Answered(t, k)
         PROVE  Answered(t, k)'
    <2>1. NoFrame(t)' /\ NoTask(t)' /\ NoAckOf(t)'
      BY <1>1, <1>12 DEF Answered
    <2>2. CASE spc[t] \in {"sent", "meta"} /\ k = 0 /\ Ready(t)
      BY <1>3, <2>1, <2>2 DEF Answered, Sending, RestsFor
    <2>3. CASE spc[t] = "chunk" /\ k = idx[t] + 1 /\ Holds(t, k, k)
      BY <1>4, <1>7, <2>1, <2>3 DEF Answered, RestsFor
    <2> QED
      BY <1>12, <2>2, <2>3 DEF Answered
  <1> QED
    BY <1>11, <1>12 DEF StaysAnswered

\* A frame of a transfer is not AUTH.
LEMMA NotAuth ==
  ASSUME NEW t \in Transfers, NEW f, f.t = t
  PROVE  f # Auth
  BY PhoneReceiveAssumption DEF Auth

\* Where nothing enters the channels, or something of another transfer does.
LEMMA Fading ==
  ASSUME NEW t \in Transfers,
         \/ DownFades /\ AcksFade
         \/ AcksFade /\ \E g : g.t # t /\ DownGains(g)
         \/ DownFades /\ \E g : g.t # t /\ AcksGain(g)
  PROVE  FadesFor(t)
  BY NotAuth DEF FadesFor, DownFades, AcksFade, DownGains, AcksGain

\* What the channel to the phone carries of t tells how far the call is.
LEMMA FrameTells ==
  ASSUME PcTypeOK, NEW t \in Transfers, CallInv(t), spc[t] # "failed",
         NEW f \in Downs, InFlight(down, f), f.t = t
  PROVE  /\ f.kind = "meta" =>
              /\ spc[t] \in {"sent", "meta"} /\ MetaPhase(t)
              /\ OnlyFrame(t, f) /\ f = Meta(t)
              /\ NoAckOf(t) /\ init[t] = "none"
         /\ f.kind = "chunk" =>
              /\ spc[t] = "chunk" /\ ChunkPhase(t)
              /\ OnlyFrame(t, f) /\ f = Chunk(t, idx[t] + 1)
              /\ NoTask(t) /\ NoAckOf(t) /\ Holds(t, idx[t], idx[t])
         /\ f.kind = "end" =>
              /\ spc[t] = "done" /\ EndPhase(t) /\ f = End(t)
              /\ fin[t] = "no" /\ t \in receives /\ DownOnce(f)
              /\ chunks[t] = OwnPrefix(t, NumChunks[t])
  <1>1. /\ NoFrame(t) => f.kind = "end"
        /\ f.kind = "end" => f = End(t) /\ ~ NoEnd(t)
        /\ \A g : OnlyFrame(t, g) => f = g
    BY FrameForms DEF NoFrame, NoEnd, OnlyFrame
  <1>2. /\ Meta(t).kind = "meta" /\ End(t).kind = "end"
        /\ \A k : Chunk(t, k).kind = "chunk"
    BY DEF Meta, End, Chunk
  <1>3. CASE spc[t] \in {"idle", "stat"}
    BY <1>1, <1>3 DEF CallInv, Untouched
  <1>4. CASE spc[t] \in {"sent", "meta"}
    <2>1. MetaPhase(t) /\ NoEnd(t)
      BY <1>4 DEF CallInv, MetaPhase
    <2>2. f.kind # "end"
      BY <1>1, <2>1
    <2>3. OnlyFrame(t, Meta(t)) /\ NoAckOf(t) /\ init[t] = "none"
      BY <1>1, <2>1, <2>2 DEF MetaPhase
    <2> QED
      BY <1>1, <1>2, <1>4, <2>1, <2>3
  <1>5. CASE spc[t] = "reading"
    BY <1>1, <1>5 DEF CallInv, ReadPhase
  <1>6. CASE spc[t] = "chunk"
    <2>1. ChunkPhase(t) /\ NoEnd(t)
      BY <1>6 DEF CallInv, ChunkPhase
    <2>2. f.kind # "end"
      BY <1>1, <2>1
    <2>3. /\ OnlyFrame(t, Chunk(t, idx[t] + 1)) /\ NoTask(t) /\ NoAckOf(t)
          /\ Holds(t, idx[t], idx[t])
      BY <1>1, <2>1, <2>2 DEF ChunkPhase
    <2> QED
      BY <1>1, <1>2, <1>6, <2>1, <2>3
  <1>7. CASE spc[t] = "done"
    <2>1. EndPhase(t) /\ NoFrame(t)
      BY <1>7 DEF CallInv, EndPhase
    <2>2. f.kind = "end" /\ f = End(t) /\ ~ NoEnd(t)
      BY <1>1, <2>1
    <2> QED
      BY <1>7, <2>1, <2>2 DEF EndPhase
  <1> QED
    BY <1>3, <1>4, <1>5, <1>6, <1>7 DEF PcTypeOK, SendStates

\* So do the phone's work on t, and an ACK.
LEMMA WorkTells ==
  ASSUME PcTypeOK, NEW t \in Transfers, CallInv(t), spc[t] # "failed"
  PROVE  /\ init[t] = "pending" =>
              /\ spc[t] \in {"sent", "meta"} /\ MetaPhase(t)
              /\ NoFrame(t) /\ NoAckOf(t) /\ cur = t /\ t \in receives
         /\ \A h \in waiting : h.t = t =>
              /\ spc[t] = "chunk" /\ ChunkPhase(t)
              /\ NoFrame(t) /\ NoAckOf(t) /\ AtWork(t, h)
         /\ \A f : AckIn(f) /\ f.t = t =>
              /\ AckOnce(f) /\ NoFrame(t) /\ NoTask(t) /\ NoEnd(t)
              /\ fin[t] = "no" /\ Ready(t)
              /\ \/ /\ spc[t] \in {"sent", "meta"} /\ f = Ack(t, 0)
                    /\ MetaPhase(t) /\ OnlyAck(t, 0) /\ Holds(t, 0, 0)
                 \/ /\ spc[t] = "chunk" /\ f = Ack(t, idx[t] + 1)
                    /\ ChunkPhase(t) /\ OnlyAck(t, idx[t] + 1)
                    /\ Holds(t, idx[t] + 1, idx[t] + 1)
         /\ fin[t] # "no" =>
              /\ spc[t] = "done" /\ EndPhase(t) /\ NoEnd(t)
              /\ flushing[t] = OwnPrefix(t, NumChunks[t])
  <1>1. CASE spc[t] \in {"idle", "stat"}
    BY <1>1 DEF CallInv, Untouched, NoTask, NoAckOf
  <1>2. CASE spc[t] \in {"sent", "meta"}
    BY <1>2 DEF CallInv, MetaPhase, NoTask, NoAckOf, OnlyAck, Ready
  <1>3. CASE spc[t] = "reading"
    BY <1>3 DEF CallInv, ReadPhase, NoTask, NoAckOf, Ready
  <1>4. CASE spc[t] = "chunk"
    <2>1. ChunkPhase(t) /\ init[t] # "pending" /\ fin[t] = "no" /\ Ready(t)
          /\ NoEnd(t)
      BY <1>4 DEF CallInv, ChunkPhase, Ready
    <2>2. \A h \in waiting : h.t = t =>
            NoFrame(t) /\ NoAckOf(t) /\ AtWork(t, h)
      BY <2>1 DEF ChunkPhase, NoTask, AtWork
    <2>3. \A f : AckIn(f) /\ f.t = t =>
            /\ NoFrame(t) /\ NoTask(t) /\ OnlyAck(t, idx[t] + 1)
            /\ Holds(t, idx[t] + 1, idx[t] + 1)
      BY <2>1 DEF ChunkPhase, NoAckOf
    <2> QED
      BY <1>4, <2>1, <2>2, <2>3 DEF OnlyAck
  <1>5. CASE spc[t] = "done"
    BY <1>5 DEF CallInv, EndPhase, NoTask, NoAckOf
  <1> QED
    BY <1>1, <1>2, <1>3, <1>4, <1>5 DEF PcTypeOK, SendStates

\* FILE_META arrives.
LEMMA MetaArrives ==
  ASSUME PhoneTypes, PcTypeOK, OneSender, Clean,
         \A t \in Transfers : CallInv(t),
         HandleMeta, UNCHANGED pcVars, NEW t \in Transfers
  PROVE  CallInv(t)' /\ StaysAnswered(t)
  <1>1. PICK g \in Downs : g = Head(down)
    BY DeliverType DEF HandleMeta, Arrives
  <1>2. /\ g.kind = "meta" /\ UNCHANGED <<up, pending>>
        /\ DownFades /\ AcksFade
        /\ InFlight(down, g) /\ (DownOnce(g) => ~ InFlight(down, g)')
    BY <1>1, DeliverTakes, UnchangedFade DEF HandleMeta, Arrives
  <1>3. PICK s \in Transfers : s = g.t
    BY <1>1 DEF Downs
  <1>4. /\ spc[s] \in {"sent", "meta"} /\ MetaPhase(s)
        /\ OnlyFrame(s, g) /\ NoAckOf(s)
    BY <1>1, <1>2, <1>3, FrameTells DEF Clean
  <1>5. /\ cur' = s /\ receives' = receives \cup {s}
        /\ init' = [init EXCEPT ![s] = "pending"]
        /\ got' = [got EXCEPT ![s] = 0]
        /\ chunks' = [chunks EXCEPT ![s] = <<>>]
        /\ UNCHANGED <<waiting, fin, flushing, spc, idx>>
    BY <1>1, <1>3 DEF HandleMeta, pcVars
  <1>6. CASE t # s
    <2>1. ~ Sending(t)
      BY <1>4, <1>6 DEF OneSender, Sending
    <2>2. RestsFor(t)
      BY <1>5, <1>6, <2>1 DEF RestsFor, PhoneTypes, ReceiveTypeOK
    <2> QED
      BY <1>2, <2>2, Fading, Undisturbed
  <1>7. ASSUME t = s
        PROVE  CallInv(t)'
    <2>1. FadesFor(s)
      BY <1>2, Fading
    <2>2. NoFrame(s)'
      BY <1>2, <1>4, <2>1 DEF NoFrame, OnlyFrame, InFlight, FadesFor
    <2>3. NoEnd(s)' /\ NoTask(s)' /\ NoAckOf(s)'
      BY <1>4, <1>5, <2>1
      DEF MetaPhase, NoEnd, NoTask, NoAckOf, FadesFor, End
    <2>4. /\ init'[s] = "pending" /\ cur' = s /\ s \in receives'
          /\ fin'[s] = "no" /\ spc'[s] \in {"sent", "meta"}
      BY <1>4, <1>5 DEF MetaPhase, PhoneTypes, ReceiveTypeOK
    <2>5. Holds(s, 0, 0)'
      BY <1>5 DEF Holds, OwnPrefix, PhoneTypes, ReceiveTypeOK
    <2>6. MetaPhase(s)'
      BY <2>2, <2>3, <2>4, <2>5 DEF MetaPhase
    <2> QED
      BY <1>7, <2>4, <2>6 DEF CallInv
  <1>8. \A k : ~ Answered(s, k)
    BY <1>2, <1>3 DEF Answered, NoFrame
  <1> QED
    BY <1>6, <1>7, <1>8 DEF StaysAnswered

\* A binary frame arrives.
LEMMA BinaryArrives ==
  ASSUME PhoneTypes, PcTypeOK, OneSender, Clean,
         \A t \in Transfers : CallInv(t),
         DropBinary \/ TakeBinary, UNCHANGED pcVars, NEW t \in Transfers
  PROVE  CallInv(t)' /\ StaysAnswered(t)
  <1>1. PICK g \in Downs : g = Head(down)
    BY DeliverType DEF DropBinary, TakeBinary, Arrives
  <1>2. /\ g.kind = "chunk" /\ UNCHANGED <<up, pending>>
        /\ DownFades /\ AcksFade
        /\ InFlight(down, g) /\ (DownOnce(g) => ~ InFlight(down, g)')
    BY <1>1, DeliverTakes, UnchangedFade DEF DropBinary, TakeBinary, Arrives
  <1>3. PICK s \in Transfers : s = g.t
    BY <1>1 DEF Downs
  <1>4. /\ spc[s] = "chunk" /\ ChunkPhase(s)
        /\ OnlyFrame(s, g) /\ g = Chunk(s, idx[s] + 1)
        /\ NoTask(s) /\ NoAckOf(s) /\ Holds(s, idx[s], idx[s])
    BY <1>1, <1>2, <1>3, FrameTells DEF Clean
  <1>5. PICK h : h = [chunk |-> <<s, idx[s] + 1>>, t |-> s,
                      at |-> IF init[s] = "ok" THEN "decode" ELSE "init"]
    OBVIOUS
  <1>6. Ready(s) /\ cur = s /\ s \in receives /\ TakeBinary
    BY <1>4 DEF ChunkPhase, Ready, DropBinary
  <1>7. g.t = s /\ g.k = idx[s] + 1
    BY <1>4 DEF Chunk
  <1>8. /\ waiting' = waiting \cup {h}
        /\ got' = IF init[s] = "ok" THEN [got EXCEPT ![s] = @ + 1] ELSE got
        /\ UNCHANGED <<cur, receives, init, chunks, fin, flushing, spc, idx>>
    BY <1>1, <1>5, <1>6, <1>7 DEF TakeBinary, pcVars
  <1>9. CASE t # s
    <2>1. RestsFor(t)
      BY <1>5, <1>8, <1>9 DEF RestsFor, PhoneTypes, ReceiveTypeOK
    <2> QED
      BY <1>2, <2>1, Fading, Undisturbed
  <1>10. ASSUME t = s
        PROVE  CallInv(t)'
    <2>1. FadesFor(s)
      BY <1>2, Fading
    <2>2. NoFrame(s)'
      BY <1>2, <1>4, <2>1 DEF NoFrame, OnlyFrame, InFlight, FadesFor
    <2>3. NoEnd(s)' /\ NoAckOf(s)'
      BY <1>4, <2>1 DEF ChunkPhase, NoEnd, NoAckOf, FadesFor, End
    <2>4. fin'[s] = "no" /\ Ready(s)'
      BY <1>4, <1>8 DEF ChunkPhase, Ready
    <2>5. /\ h \in waiting' /\ h.t = s /\ h.chunk = <<s, idx'[s] + 1>>
          /\ \A e \in waiting' : e.t = s => e = h
      BY <1>4, <1>5, <1>8 DEF NoTask
    <2>6. \/ h.at = "init" /\ Holds(s, idx[s], idx[s])'
          \/ h.at = "decode" /\ Holds(s, idx[s] + 1, idx[s])'
      BY <1>4, <1>5, <1>8
      DEF Holds, OwnPrefix, PhoneTypes, ReceiveTypeOK
    <2>7. AtWork(s, h)'
      BY <1>8, <2>5, <2>6 DEF AtWork, Holds, OwnPrefix
    <2>8. ChunkPhase(s)'
      BY <2>2, <2>3, <2>4, <2>7 DEF ChunkPhase
    <2> QED
      BY <1>4, <1>8, <1>10, <2>8 DEF CallInv
  <1>11. \A k : ~ Answered(s, k)
    BY <1>2, <1>3 DEF Answered, NoFrame
  <1> QED
    BY <1>9, <1>10, <1>11 DEF StaysAnswered

\* FILE_END arrives.
LEMMA EndArrives ==
  ASSUME PhoneTypes, PcTypeOK, Clean,
         \A t \in Transfers : CallInv(t),
         HandleEnd, UNCHANGED pcVars, NEW t \in Transfers
  PROVE  CallInv(t)' /\ StaysAnswered(t)
  <1>1. PICK g \in Downs : g = Head(down)
    BY DeliverType DEF HandleEnd, Arrives
  <1>2. /\ g.kind = "end" /\ UNCHANGED <<up, pending>>
        /\ DownFades /\ AcksFade
        /\ InFlight(down, g) /\ (DownOnce(g) => ~ InFlight(down, g)')
    BY <1>1, DeliverTakes, UnchangedFade DEF HandleEnd, Arrives
  <1>3. PICK s \in Transfers : s = g.t
    BY <1>1 DEF Downs
  <1>4. /\ spc[s] = "done" /\ EndPhase(s) /\ g = End(s)
        /\ s \in receives /\ DownOnce(g)
        /\ chunks[s] = OwnPrefix(s, NumChunks[s])
    BY <1>1, <1>2, <1>3, FrameTells DEF Clean
  <1>5. /\ fin' = [fin EXCEPT ![s] = "flush"]
        /\ flushing' = [flushing EXCEPT ![s] = chunks[s]]
        /\ UNCHANGED <<cur, receives, init, got, chunks, waiting, spc, idx>>
    BY <1>1, <1>3, <1>4 DEF HandleEnd, pcVars
  <1>6. CASE t # s
    <2>1. RestsFor(t)
      BY <1>5, <1>6 DEF RestsFor, PhoneTypes, ReceiveTypeOK
    <2> QED
      BY <1>2, <2>1, Fading, Undisturbed
  <1>7. ASSUME t = s
        PROVE  CallInv(t)'
    <2>1. FadesFor(s)
      BY <1>2, Fading
    <2>2. NoFrame(s)' /\ NoTask(s)' /\ NoAckOf(s)'
      BY <1>4, <1>5, <2>1 DEF EndPhase, NoFrame, NoTask, NoAckOf, FadesFor
    <2>3. NoEnd(s)'
      BY <1>2, <1>4 DEF NoEnd, InFlight, End
    <2>4. /\ fin'[s] # "no" /\ init'[s] \in {"ok", "failed"}
          /\ flushing'[s] = OwnPrefix(s, NumChunks[s])
      BY <1>4, <1>5 DEF EndPhase, PhoneTypes, ReceiveTypeOK
    <2>5. EndPhase(s)'
      BY <2>2, <2>3, <2>4 DEF EndPhase, OwnPrefix
    <2> QED
      BY <1>4, <1>5, <1>7, <2>5 DEF CallInv
  <1>8. \A k : ~ Answered(s, k)
    BY <1>4 DEF Answered
  <1> QED
    BY <1>6, <1>7, <1>8 DEF StaysAnswered

\* The file has been prepared, and that is acknowledged.
LEMMA FilePrepared ==
  ASSUME PhoneTypes, PcTypeOK, OneSender, Clean,
         \A t \in Transfers : CallInv(t), NEW s \in Transfers,
         InitFile(s), UNCHANGED pcVars, NEW t \in Transfers
  PROVE  CallInv(t)' /\ StaysAnswered(t)
  <1>1. /\ init[s] = "pending" /\ init'[s] \in {"ok", "failed"}
        /\ \A u \in Transfers : u # s => init'[u] = init[u]
        /\ UNCHANGED <<cur, receives, got, chunks, waiting, fin, flushing,
                       spc, idx, down, conn>>
    BY DEF InitFile, Background, pcVars, PhoneTypes, ReceiveTypeOK
  <1>2. PICK g \in Frames : g = Ack(s, 0)
    BY FrameTypes DEF Ids
  <1>3. DownFades /\ AcksGain(g) /\ g.t = s
    BY <1>1, <1>2, DownStays, SendGains DEF InitFile, Ack
  <1>4. /\ spc[s] \in {"sent", "meta"} /\ MetaPhase(s)
        /\ NoFrame(s) /\ NoAckOf(s) /\ cur = s /\ s \in receives
    BY <1>1, WorkTells DEF Clean
  <1>5. CASE t # s
    <2>1. RestsFor(t)
      BY <1>1, <1>5 DEF RestsFor
    <2> QED
      BY <1>3, <1>5, <2>1, Fading, Undisturbed
  <1>6. ASSUME t = s
        PROVE  CallInv(t)'
    <2>1. NoFrame(s)' /\ NoEnd(s)' /\ NoTask(s)'
      BY <1>1, <1>3, <1>4
      DEF MetaPhase, NoFrame, NoEnd, NoTask, DownFades, End
    <2>2. fin'[s] = "no" /\ Holds(s, 0, 0)' /\ Ready(s)'
      BY <1>1, <1>4 DEF MetaPhase, Holds, OwnPrefix, Ready
    <2>3. OnlyAck(s, 0)'
      <3>1. ~ AckIn(g) /\ (\A f : AckIn(f) => f.t # s)
        BY <1>3, <1>4 DEF NoAckOf
      <3>2. ASSUME NEW f, AckIn(f)', f.t = s
            PROVE  f = g
        BY <1>3, <3>1, <3>2 DEF AcksGain
      <3>3. AckOnce(g)
        BY <3>1 DEF AckOnce, AckIn
      <3>4. AckOnce(g)'
        BY <1>3, <3>1, <3>3 DEF AcksGain
      <3> QED
        BY <1>2, <3>2, <3>4 DEF OnlyAck, Ack
    <2>4. MetaPhase(s)'
      BY <2>1, <2>2, <2>3 DEF MetaPhase
    <2> QED
      BY <1>1, <1>4, <1>6, <2>4 DEF CallInv
  <1>7. \A k : ~ Answered(s, k)
    BY <1>1, <1>4 DEF Answered, Ready
  <1> QED
    BY <1>5, <1>6, <1>7 DEF StaysAnswered

\* The file is written, and reported.
LEMMA FileWritten ==
  ASSUME PhoneTypes, PcTypeOK, Clean,
         \A t \in Transfers : CallInv(t), NEW s \in Transfers,
         Flush(s) \/ Report(s), UNCHANGED pcVars, NEW t \in Transfers
  PROVE  CallInv(t)' /\ StaysAnswered(t)
  <1>1. /\ fin[s] # "no" /\ fin'[s] # "no"
        /\ \A u \in Transfers : u # s => /\ fin'[u] = fin[u]
                                         /\ chunks'[u] = chunks[u]
                                         /\ u \in receives' <=> u \in receives
                                         /\ cur' = u <=> cur = u
        /\ UNCHANGED <<init, got, waiting, flushing, spc, idx, down, conn, up,
                       pending>>
    BY PhoneReceiveAssumption
    DEF Flush, Report, Background, pcVars, PhoneTypes, ReceiveTypeOK
  <1>2. DownFades /\ AcksFade
    BY <1>1, DownStays, UnchangedFade
  <1>3. /\ spc[s] = "done" /\ EndPhase(s) /\ NoEnd(s)
        /\ flushing[s] = OwnPrefix(s, NumChunks[s])
    BY <1>1, WorkTells DEF Clean
  <1>4. CASE t # s
    <2>1. RestsFor(t)
      BY <1>1, <1>4 DEF RestsFor
    <2> QED
      BY <1>2, <2>1, Fading, Undisturbed
  <1>5. ASSUME t = s
        PROVE  CallInv(t)'
    <2>1. FadesFor(s)
      BY <1>2, Fading
    <2>2. NoFrame(s)' /\ NoTask(s)' /\ NoAckOf(s)' /\ NoEnd(s)'
      BY <1>1, <1>3, <2>1
      DEF EndPhase, NoFrame, NoTask, NoAckOf, NoEnd, FadesFor, End
    <2>3. EndPhase(s)'
      BY <1>1, <1>3, <2>2 DEF EndPhase, OwnPrefix
    <2> QED
      BY <1>1, <1>3, <1>5, <2>3 DEF CallInv
  <1>6. \A k : ~ Answered(s, k)
    BY <1>3 DEF Answered
  <1> QED
    BY <1>4, <1>5, <1>6 DEF StaysAnswered

\* The handler of a chunk goes on or ends.
LEMMA HandlerMoves ==
  ASSUME PhoneTypes, PcTypeOK, Clean,
         \A t \in Transfers : CallInv(t), NEW h \in waiting,
         \/ InitReady(h) \/ InitGivesUp(h) \/ Decoded(h) \/ DecodeFails(h)
         \/ Yielded(h),
         UNCHANGED pcVars, NEW t \in Transfers
  PROVE  CallInv(t)' /\ StaysAnswered(t)
  <1>1. h \in Handlers /\ waiting \subseteq Handlers
    BY DEF PhoneTypes, ReceiveTypeOK
  <1>2. PICK s \in Transfers : s = h.t
    BY <1>1 DEF Handlers
  <1>3. /\ spc[s] = "chunk" /\ ChunkPhase(s)
        /\ NoFrame(s) /\ NoAckOf(s) /\ AtWork(s, h)
    BY <1>2, WorkTells DEF Clean
  <1>4. /\ UNCHANGED <<cur, receives, init, fin, flushing, spc, idx, down,
                       conn>>
        /\ \A u \in Transfers : u # s => /\ got'[u] = got[u]
                                         /\ chunks'[u] = chunks[u]
    BY <1>2 DEF InitReady, InitGivesUp, Decoded, DecodeFails, Yielded,
                Background, pcVars, PhoneTypes, ReceiveTypeOK
  <1>5. ASSUME NEW p \in {"decode", "yield"}
        PROVE  /\ [h EXCEPT !.at = p].t = s /\ [h EXCEPT !.at = p].at = p
               /\ [h EXCEPT !.at = p].chunk = h.chunk
    BY <1>1, <1>2 DEF Handlers
  <1>6. /\ \A e : e.t # s => (e \in waiting <=> e \in waiting')
        /\ \/ waiting' = waiting \ {h}
           \/ \E p \in {"decode", "yield"} :
                waiting' = (waiting \ {h}) \cup {[h EXCEPT !.at = p]}
    BY <1>2, <1>5
    DEF InitReady, InitGivesUp, Decoded, DecodeFails, Yielded
  <1>7. PICK g \in Frames : g = Ack(s, got[s])
    BY FrameTypes DEF Ids, PhoneTypes, ReceiveTypeOK
  <1>8. cur = s /\ Ready(s) /\ fin[s] = "no" /\ NoEnd(s)
    BY <1>3 DEF ChunkPhase, Ready
  <1>9. \/ UNCHANGED <<up, pending>> /\ AcksFade
        \/ Send(g) /\ AcksGain(g)
    <2>1. Send(g) => AcksGain(g)
      BY <1>4, SendGains
    <2>2. UNCHANGED <<up, pending>> \/ Send(g)
      BY <1>2, <1>7, <1>8
      DEF InitReady, InitGivesUp, Decoded, DecodeFails, Yielded
    <2> QED
      BY <2>1, <2>2, UnchangedFade
  <1>10. DownFades /\ g.t = s
    BY <1>4, <1>7, DownStays DEF Ack
  <1>11. CASE t # s
    <2>1. FadesFor(t)
      BY <1>9, <1>10, <1>11, Fading
    <2>2. RestsFor(t)
      BY <1>4, <1>6, <1>11 DEF RestsFor
    <2> QED
      BY <2>1, <2>2, Undisturbed
  <1>12. ASSUME t = s
        PROVE  CallInv(t)'
    <2>1. NoFrame(s)' /\ NoEnd(s)' /\ fin'[s] = "no" /\ Ready(s)'
      BY <1>3, <1>4, <1>8, <1>10
      DEF NoFrame, NoEnd, DownFades, Ready, End
    <2>2. /\ h.chunk = <<s, idx[s] + 1>>
          /\ \A e \in waiting : e.t = s => e = h
          /\ got[s] \in Nat /\ idx[s] \in Nat
      BY <1>3 DEF AtWork, PhoneTypes, ReceiveTypeOK, PcTypeOK
    <2>3. UNCHANGED <<up, pending>> => NoAckOf(s)'
      BY <1>3, <1>9, UnchangedFade, NotAuth DEF NoAckOf, AcksFade
    <2>4. ASSUME Send(g), got[s] = idx[s] + 1
          PROVE  OnlyAck(s, idx[s] + 1)'
      <3>1. AcksGain(g) /\ ~ AckIn(g) /\ \A f : AckIn(f) => f.t # s
        BY <1>3, <1>4, <1>10, <2>4, SendGains DEF NoAckOf
      <3>2. AckOnce(g)
        BY <3>1 DEF AckOnce, AckIn
      <3>3. AckOnce(g)'
        BY <3>1, <3>2 DEF AcksGain
      <3>4. ASSUME NEW f, AckIn(f)', f.t = s
            PROVE  f = g
        BY <3>1, <3>4 DEF AcksGain
      <3>5. g = Ack(s, idx[s] + 1)
        BY <1>7, <2>4
      <3> QED
        BY <1>4, <3>3, <3>4, <3>5 DEF OnlyAck, Ack
    <2>5. ASSUME NEW p \in {"decode", "yield"}, NEW e,
                 e = [h EXCEPT !.at = p],
                 waiting' = (waiting \ {h}) \cup {e},
                 UNCHANGED <<up, pending>>,
                 \/ p = "decode" /\ Holds(s, idx[s] + 1, idx[s])'
                 \/ p = "yield" /\ Holds(s, idx[s] + 1, idx[s] + 1)'
          PROVE  ChunkPhase(s)'
      <3>1. /\ e \in waiting' /\ e.t = s /\ e.at = p
            /\ e.chunk = <<s, idx'[s] + 1>>
            /\ \A d \in waiting' : d.t = s => d = e
        BY <1>4, <1>5, <2>2, <2>5
      <3>2. AtWork(s, e)'
        BY <1>4, <2>5, <3>1 DEF AtWork, Holds, OwnPrefix
      <3> QED
        BY <2>1, <2>3, <2>5, <3>2 DEF ChunkPhase
    <2>6. waiting' = waiting \ {h} => NoTask(s)'
      BY <2>2 DEF NoTask
    <2>7. CASE InitReady(h)
      <3>1. h.at = "init" /\ got' = [got EXCEPT ![s] = @ + 1]
            /\ waiting' = (waiting \ {h}) \cup {[h EXCEPT !.at = "decode"]}
            /\ UNCHANGED <<up, pending, chunks>>
        BY <1>2, <2>7 DEF InitReady
      <3>2. Holds(s, idx[s], idx[s])
        BY <1>3, <3>1 DEF AtWork
      <3>3. Holds(s, idx[s] + 1, idx[s])'
        BY <1>4, <3>1, <3>2
        DEF Holds, OwnPrefix, PhoneTypes, ReceiveTypeOK
      <3> QED
        BY <1>3, <1>4, <1>12, <2>5, <3>1, <3>3 DEF CallInv
    <2>8. CASE InitGivesUp(h) \/ DecodeFails(h)
      <3>1. /\ waiting' = waiting \ {h}
            /\ UNCHANGED <<up, pending, chunks, got>>
            /\ h.at \in {"init", "decode"}
        BY <2>8 DEF InitGivesUp, DecodeFails
      <3>2. /\ got'[s] \in {idx'[s], idx'[s] + 1}
            /\ chunks'[s] = OwnPrefix(s, idx[s])
        BY <1>3, <1>4, <3>1 DEF AtWork, Holds
      <3>3. ChunkPhase(s)'
        BY <1>4, <2>1, <2>3, <2>6, <3>1, <3>2 DEF ChunkPhase, OwnPrefix
      <3> QED
        BY <1>3, <1>4, <1>12, <3>3 DEF CallInv
    <2>9. CASE Decoded(h)
      <3>1. /\ h.at = "decode" /\ UNCHANGED got
            /\ chunks' = [chunks EXCEPT ![s] = Append(@, h.chunk)]
        BY <1>2, <2>9 DEF Decoded
      <3>2. Holds(s, idx[s] + 1, idx[s])
        BY <1>3, <3>1 DEF AtWork
      <3>3. Append(OwnPrefix(s, idx[s]), <<s, idx[s] + 1>>)
              = OwnPrefix(s, idx[s] + 1)
        BY <2>2 DEF OwnPrefix
      <3>4. Holds(s, idx[s] + 1, idx[s] + 1)'
        BY <1>4, <2>2, <3>1, <3>2, <3>3
        DEF Holds, OwnPrefix, PhoneTypes, ReceiveTypeOK
      <3>5. CASE /\ waiting' = (waiting \ {h}) \cup {[h EXCEPT !.at = "yield"]}
                 /\ UNCHANGED <<up, pending>>
        BY <1>3, <1>4, <1>12, <2>5, <3>4, <3>5 DEF CallInv
      <3>6. CASE waiting' = waiting \ {h} /\ Send(g)
        <4>1. OnlyAck(s, idx[s] + 1)'
          BY <2>4, <3>2, <3>6 DEF Holds
        <4>2. ChunkPhase(s)'
          BY <1>4, <2>1, <2>6, <3>4, <3>6, <4>1
          DEF ChunkPhase, OnlyAck, Holds, OwnPrefix
        <4> QED
          BY <1>3, <1>4, <1>12, <4>2 DEF CallInv
      <3> QED
        BY <1>2, <1>7, <1>8, <2>9, <3>5, <3>6 DEF Decoded
    <2>10. CASE Yielded(h)
      <3>1. /\ h.at = "yield" /\ UNCHANGED <<got, chunks>>
            /\ waiting' = waiting \ {h} /\ Send(g)
        BY <1>2, <1>7, <1>8, <2>10 DEF Yielded
      <3>2. Holds(s, idx[s] + 1, idx[s] + 1)
        BY <1>3, <3>1 DEF AtWork
      <3>3. OnlyAck(s, idx[s] + 1)'
        BY <2>4, <3>1, <3>2 DEF Holds
      <3>4. ChunkPhase(s)'
        BY <1>4, <2>1, <2>6, <3>1, <3>2, <3>3
        DEF ChunkPhase, OnlyAck, Holds, OwnPrefix
      <3> QED
        BY <1>3, <1>4, <1>12, <3>4 DEF CallInv
    <2> QED
      BY <2>7, <2>8, <2>9, <2>10
  <1>13. \A k : ~ Answered(s, k)
    BY <1>2 DEF Answered, NoTask
  <1> QED
    BY <1>11, <1>12, <1>13 DEF StaysAnswered

\* Every step of the phone keeps what holds of each call.
LEMMA PhoneKeepsCall ==
  ASSUME PhoneTypes, PcTypeOK, OneSender, Clean,
         \A t \in Transfers : CallInv(t),
         FrameArrives \/ PhoneTask, UNCHANGED pcVars, NEW t \in Transfers
  PROVE  CallInv(t)' /\ StaysAnswered(t)
  BY MetaArrives, BinaryArrives, EndArrives, FilePrepared, FileWritten,
     HandlerMoves
  DEF FrameArrives, PhoneTask

\* So does a step that leaves call and phone alone and adds nothing to the
\* channels.
LEMMA RestKeepsCall ==
  ASSUME NEW t \in Transfers, CallInv(t), DownFades, AcksFade,
         UNCHANGED <<spc, idx, receiveVars>>
  PROVE  CallInv(t)' /\ StaysAnswered(t)
  <1>1. FadesFor(t)
    BY Fading
  <1>2. RestsFor(t)
    BY DEF RestsFor, receiveVars
  <1> QED
    BY <1>1, <1>2, Undisturbed

\* The steps of the socket are such steps.
LEMMA SocketKeepsCall ==
  ASSUME PhoneTypes, SocketMoves, UNCHANGED <<receiveVars, pcVars>>,
         NEW t \in Transfers, CallInv(t)
  PROVE  CallInv(t)' /\ StaysAnswered(t)
  BY SocketDown, SocketAcks, RestKeepsCall DEF pcVars

\* So are the handling of AUTH and of a close.
LEMMA AuthKeepsCall ==
  ASSUME PhoneTypes, (\E c \in Conns : Authenticate(c)) \/ ForgetClient,
         NEW t \in Transfers, CallInv(t)
  PROVE  CallInv(t)' /\ StaysAnswered(t)
  <1>1. CASE \E c \in Conns : Authenticate(c)
    <2>1. PICK c \in Conns : Authenticate(c)
      BY <1>1
    <2>2. DownFades
      BY <2>1, DownStays DEF Authenticate
    <2>3. AcksFade
      BY <2>1, TakeLoses DEF Authenticate
    <2> QED
      BY <2>1, <2>2, <2>3, RestKeepsCall DEF Authenticate
  <1>2. CASE ForgetClient
    <2>1. DownFades /\ AcksFade
      BY <1>2, DownStays, UnchangedFade DEF ForgetClient, socketVars
    <2> QED
      BY <1>2, <2>1, RestKeepsCall DEF ForgetClient
  <1> QED
    BY <1>1, <1>2

\* A step of another call's.
LEMMA OtherKeepsCall ==
  ASSUME NEW t \in Transfers, NEW u \in Transfers, t # u, CallInv(u),
         AcksFade, DownFades \/ \E g : g.t = t /\ DownGains(g),
         UNCHANGED <<spc[u], idx[u], receiveVars>>
  PROVE  CallInv(u)' /\ StaysAnswered(u)
  <1>1. FadesFor(u)
    BY Fading
  <1>2. RestsFor(u)
    BY DEF RestsFor, receiveVars
  <1> QED
    BY <1>1, <1>2, Undisturbed

\* Where neither META, a chunk nor FILE_END of t is in flight, nothing is.
LEMMA NothingOf ==
  ASSUME PhoneTypes, NEW t \in Transfers, NoFrame(t), NoEnd(t)
  PROVE  \A f : InFlight(down, f) => f.t # t
  <1> SUFFICES ASSUME NEW f, InFlight(down, f), f.t = t
               PROVE  FALSE
    OBVIOUS
  <1>1. f \in Downs
    BY ElementOfSeq DEF InFlight, PhoneTypes
  <1>2. f.kind = "end"
    BY DEF NoFrame
  <1>3. f = End(t)
    BY <1>1, <1>2, FrameForms
  <1> QED
    BY <1>3 DEF NoEnd

\* One frame of t is sent where none was in flight.
LEMMA OneSent ==
  ASSUME PhoneTypes, NEW t \in Transfers, NoFrame(t), NoEnd(t),
         NEW g, g.t = t, DownGains(g)
  PROVE  /\ OnlyFrame(t, g)' /\ DownOnce(g)'
         /\ g # End(t) => NoEnd(t)'
         /\ g.kind = "end" => NoFrame(t)'
  <1>1. \A f : InFlight(down, f) => f.t # t
    BY NothingOf
  <1>2. \A f : InFlight(down, f)' /\ f.t = t => f = g
    BY <1>1 DEF DownGains
  <1>3. DownOnce(g)'
    BY <1>1 DEF DownGains, DownOnce, InFlight
  <1> QED
    BY <1>2, <1>3 DEF OnlyFrame, NoEnd, NoFrame, End

\* The call sends META.
LEMMA MetaSent ==
  ASSUME PhoneTypes, NEW t \in Transfers, CallInv(t),
         spc[t] \in {"idle", "stat"}, spc'[t] \in {"sent", "meta"},
         AcksFade, DownGains(Meta(t)), UNCHANGED receiveVars
  PROVE  CallInv(t)'
  <1>1. Untouched(t)
    BY DEF CallInv
  <1>2. Meta(t).t = t /\ Meta(t) # End(t)
    BY DEF Meta, End
  <1>3. OnlyFrame(t, Meta(t))' /\ NoEnd(t)'
    BY <1>1, <1>2, OneSent DEF Untouched, Meta
  <1>4. NoTask(t)' /\ NoAckOf(t)'
    BY <1>1, NotAuth
    DEF Untouched, NoTask, NoAckOf, AcksFade, receiveVars
  <1>5. fin'[t] = "no" /\ Holds(t, 0, 0)' /\ init'[t] = "none"
    BY <1>1 DEF Untouched, Holds, OwnPrefix, receiveVars
  <1> QED
    BY <1>3, <1>4, <1>5 DEF CallInv, MetaPhase

\* The call sends a chunk.
LEMMA ChunkSent ==
  ASSUME PhoneTypes, NEW t \in Transfers, CallInv(t),
         spc[t] = "reading", spc'[t] = "chunk", UNCHANGED idx[t],
         AcksFade, NEW g, g = Chunk(t, idx[t] + 1), DownGains(g),
         UNCHANGED receiveVars
  PROVE  CallInv(t)'
  <1>1. ReadPhase(t)
    BY DEF CallInv
  <1>2. g.t = t /\ g # End(t)
    BY DEF Chunk, End
  <1>3. OnlyFrame(t, g)' /\ NoEnd(t)'
    BY <1>1, <1>2, OneSent DEF ReadPhase
  <1>4. OnlyFrame(t, Chunk(t, idx[t] + 1))'
    BY <1>3 DEF OnlyFrame, Chunk
  <1>5. NoTask(t)' /\ NoAckOf(t)'
    BY <1>1, NotAuth
    DEF ReadPhase, NoTask, NoAckOf, AcksFade, receiveVars
  <1>6. fin'[t] = "no" /\ Holds(t, idx[t], idx[t])' /\ Ready(t)'
    BY <1>1 DEF ReadPhase, Holds, OwnPrefix, Ready, receiveVars
  <1> QED
    BY <1>3, <1>4, <1>5, <1>6 DEF CallInv, ChunkPhase

\* The call sends FILE_END.
LEMMA EndSent ==
  ASSUME PhoneTypes, NEW t \in Transfers, CallInv(t),
         spc[t] = "reading", spc'[t] = "done", idx[t] = NumChunks[t],
         AcksFade, DownGains(End(t)), UNCHANGED receiveVars
  PROVE  CallInv(t)'
  <1>1. ReadPhase(t)
    BY DEF CallInv
  <1>2. End(t).t = t /\ End(t).kind = "end"
    BY DEF End
  <1>3. NoFrame(t)' /\ DownOnce(End(t))'
    BY <1>1, <1>2, OneSent DEF ReadPhase, End
  <1>4. NoTask(t)' /\ NoAckOf(t)'
    BY <1>1, NotAuth
    DEF ReadPhase, NoTask, NoAckOf, AcksFade, receiveVars
  <1>5. /\ fin'[t] = "no" /\ t \in receives' /\ init'[t] \in {"ok", "failed"}
        /\ chunks'[t] = OwnPrefix(t, NumChunks[t])
    BY <1>1 DEF ReadPhase, Holds, Ready, receiveVars
  <1> QED
    BY <1>3, <1>4, <1>5 DEF CallInv, EndPhase, OwnPrefix

\* An ACK is taken off its connection: the call goes on with it, or the
\* server holds it.
LEMMA AckTaken ==
  ASSUME PhoneTypes, PcTypeOK, Clean, NEW c \in Conns, TakeFrame(c, "ack"),
         NEW f, f = Head(up[c]), NEW t \in Transfers, f.t = t, CallInv(t),
         UNCHANGED <<down, receiveVars>>,
         \/ UNCHANGED <<spc[t], idx[t]>>
         \/ spc'[t] = "reading" /\ idx'[t] = f.k
  PROVE  /\ CallInv(t)'
         /\ UNCHANGED <<spc[t], idx[t]>> => Answered(t, f.k)'
  <1>1. /\ DownFades /\ AcksFade
        /\ AckIn(f) /\ (AckOnce(f) => ~ AckIn(f)')
    BY DownStays, TakeLoses DEF TakeFrame
  <1>2. FadesFor(t)
    BY <1>1, Fading
  <1>3. /\ AckOnce(f) /\ NoFrame(t) /\ NoTask(t) /\ NoEnd(t)
        /\ fin[t] = "no" /\ Ready(t)
        /\ \/ /\ spc[t] \in {"sent", "meta"} /\ f = Ack(t, 0)
              /\ OnlyAck(t, 0) /\ Holds(t, 0, 0)
           \/ /\ spc[t] = "chunk" /\ f = Ack(t, idx[t] + 1)
              /\ OnlyAck(t, idx[t] + 1)
              /\ Holds(t, idx[t] + 1, idx[t] + 1)
    BY <1>1, WorkTells DEF Clean
  <1>4. NoAckOf(t)'
    BY <1>1, <1>2, <1>3 DEF OnlyAck, NoAckOf, FadesFor
  <1>5. NoFrame(t)' /\ NoTask(t)' /\ NoEnd(t)'
    BY <1>2, <1>3 DEF NoFrame, NoTask, NoEnd, FadesFor, receiveVars, End
  <1>6. fin'[t] = "no" /\ Ready(t)'
    BY <1>3 DEF Ready, receiveVars
  <1>7. /\ \A n, m : Holds(t, n, m) => Holds(t, n, m)'
        /\ Holds(t, f.k, f.k)
    <2>1. \A n, m : Holds(t, n, m) => Holds(t, n, m)'
      BY DEF Holds, OwnPrefix, receiveVars
    <2>2. \A k : Ack(t, k).k = k
      BY DEF Ack
    <2> QED
      BY <1>3, <2>1, <2>2
  <1>8. CASE UNCHANGED <<spc[t], idx[t]>>
    <2>1. RestsFor(t)
      BY <1>8 DEF RestsFor, receiveVars
    <2>2. Answered(t, f.k)'
      BY <1>3, <1>4, <1>5, <1>6, <1>7, <1>8 DEF Answered, Ack
    <2> QED
      BY <1>2, <2>1, <2>2, Undisturbed
  <1>9. CASE spc'[t] = "reading" /\ idx'[t] = f.k
    <2>1. Holds(t, idx[t], idx[t])'
      BY <1>7, <1>9 DEF Holds, OwnPrefix
    <2>2. CallInv(t)'
      BY <1>4, <1>5, <1>6, <1>9, <2>1 DEF CallInv, ReadPhase
    <2>3. spc'[t] # spc[t]
      BY <1>3, <1>9
    <2> QED
      BY <2>2, <2>3
  <1> QED
    BY <1>8, <1>9

\* The call goes on with an ACK the server held.
LEMMA AnswerAccepted ==
  ASSUME NEW t \in Transfers, CallInv(t), NEW k, Answered(t, k),
         spc'[t] = "reading", idx'[t] = k,
         UNCHANGED <<down, up, pending, receiveVars>>
  PROVE  CallInv(t)'
  <1>1. /\ NoFrame(t) /\ NoTask(t) /\ NoAckOf(t) /\ NoEnd(t)
        /\ fin[t] = "no" /\ Ready(t) /\ Holds(t, k, k)
    BY DEF Answered, CallInv, MetaPhase, ChunkPhase
  <1>2. FadesFor(t)
    BY DownStays, UnchangedFade, Fading
  <1>3. NoFrame(t)' /\ NoTask(t)' /\ NoAckOf(t)' /\ NoEnd(t)'
    BY <1>1, <1>2
    DEF NoFrame, NoTask, NoAckOf, NoEnd, FadesFor, receiveVars, End
  <1>4. fin'[t] = "no" /\ Ready(t)' /\ Holds(t, idx[t], idx[t])'
    BY <1>1 DEF Ready, Holds, OwnPrefix, receiveVars
  <1> QED
    BY <1>3, <1>4 DEF CallInv, ReadPhase

\* At the start nothing has been sent.
LEMMA CallsInit ==
  ASSUME SocketInit, ReceiveInit, PcInit
  PROVE  OneSender /\ CallsInv
  <1>1. OneSender
    BY DEF PcInit, OneSender, Sending
  <1>2. \A f : ~ InFlight(down, f)
    <2>1. Len(down) = 0
      BY EmptySeq DEF SocketInit
    <2> QED
      BY <2>1 DEF InFlight
  <1>3. \A f : ~ AckIn(f)
    <2>1. \A b \in Boxes : Len(Box(b)) = 0
      BY EmptySeq, SocketAssumption DEF SocketInit, Box, Boxes
    <2> QED
      BY <2>1 DEF AckIn, Has
  <1>4. ASSUME NEW t \in Transfers
        PROVE  CallInv(t)
    <2>1. Holds(t, 0, 0)
      BY DEF ReceiveInit, Holds, OwnPrefix
    <2>2. NoFrame(t) /\ NoEnd(t) /\ NoTask(t) /\ NoAckOf(t)
      BY <1>2, <1>3 DEF NoFrame, NoEnd, NoTask, NoAckOf, ReceiveInit
    <2>3. Untouched(t) /\ spc[t] = "idle"
      BY <2>1, <2>2 DEF Untouched, ReceiveInit, PcInit
    <2> QED
      BY <2>3 DEF CallInv
  <1> QED
    BY <1>1, <1>4 DEF CallsInv

----------------------------------------------------------------------------
(* What follows of the files. *)

\* FILE_END is only sent by a call that succeeds.
DoneInv ==
  \A t \in Transfers :
    InFlight(down, End(t)) \/ fin[t] # "no" => spc[t] = "done"

\* What was written and reported of t is what FILE_END joined.
SaveInv ==
  Clean =>
    \A t \in Transfers :
      /\ fin[t] = "flushed" => disk[Name[t]] = flushing[t]
      /\ fin[t] = "saved" => saved[t] = flushing[t]

\* Each transfer has a file of its own.
OwnFiles == \A t, u \in Transfers : Name[t] = Name[u] => t = u

\* The phone takes up the end of a file only when FILE_END arrives.
LEMMA PhoneKeepsDone ==
  ASSUME PhoneTypes, DoneInv, FrameArrives \/ PhoneTask, UNCHANGED pcVars
  PROVE  DoneInv'
  <1> SUFFICES ASSUME NEW t \in Transfers,
                      InFlight(down, End(t))' \/ fin'[t] # "no"
               PROVE  spc[t] = "done"
    BY DEF DoneInv, pcVars, End
  <1>1. InFlight(down, End(t))' => InFlight(down, End(t))
    <2>1. CASE FrameArrives
      <3>1. Deliver
        BY <2>1
        DEF FrameArrives, HandleMeta, DropBinary, TakeBinary, HandleEnd,
            Arrives
      <3>2. DownFades
        BY <3>1, DeliverTakes
      <3> QED
        BY <3>2 DEF DownFades, End
    <2>2. CASE PhoneTask
      <3>1. UNCHANGED down
        BY <2>2
        DEF PhoneTask, InitFile, Flush, Report, InitReady, InitGivesUp,
            Decoded, DecodeFails, Yielded, Background
      <3> QED
        BY <3>1 DEF InFlight, End
    <2> QED
      BY <2>1, <2>2
  <1>2. CASE HandleEnd
    <2>1. PICK g \in Downs : g = Head(down)
      BY <1>2, DeliverType DEF HandleEnd, Arrives
    <2>2. g.kind = "end" /\ InFlight(down, g)
      BY <1>2, <2>1, DeliverTakes DEF HandleEnd, Arrives
    <2>3. g = End(g.t) /\ g.t \in Transfers
      BY <2>1, <2>2, FrameForms
    <2>4. spc[g.t] = "done"
      BY <2>2, <2>3 DEF DoneInv
    <2>5. t # g.t => fin'[t] = fin[t]
      BY <1>2, <2>1 DEF HandleEnd, PhoneTypes, ReceiveTypeOK
    <2> QED
      BY <1>1, <2>4, <2>5 DEF DoneInv
  <1>3. CASE ~ HandleEnd
    <2>1. fin'[t] # "no" => fin[t] # "no"
      BY <1>3
      DEF FrameArrives, HandleMeta, DropBinary, TakeBinary, PhoneTask,
          InitFile, Flush, Report, InitReady, InitGivesUp, Decoded,
          DecodeFails, Yielded, receiveVars, PhoneTypes, ReceiveTypeOK
    <2> QED
      BY <1>1, <2>1 DEF DoneInv
  <1> QED
    BY <1>2, <1>3

\* A step that leaves the phone alone keeps it if calls that are done stay
\* so and FILE_END is sent by such a call.
LEMMA RestKeepsDone ==
  ASSUME DoneInv, UNCHANGED fin,
         \A t \in Transfers : spc[t] = "done" => spc'[t] = "done",
         \/ DownFades
         \/ \E g : /\ DownGains(g)
                   /\ \A t \in Transfers : g = End(t) => spc'[t] = "done"
  PROVE  DoneInv'
  <1> SUFFICES ASSUME NEW t \in Transfers,
                      InFlight(down, End(t))' \/ fin'[t] # "no"
               PROVE  spc'[t] = "done"
    BY DEF DoneInv
  <1>1. PICK e : e = End(t)
    OBVIOUS
  <1>2. InFlight(down, e)' \/ fin[t] # "no"
    BY <1>1 DEF End
  <1>3. InFlight(down, e) \/ fin[t] # "no" => spc'[t] = "done"
    BY <1>1 DEF DoneInv
  <1> QED
    BY <1>1, <1>2, <1>3 DEF DownFades, DownGains

\* The phone's steps keep the files apart.
LEMMA PhoneKeepsSave ==
  ASSUME OwnFiles, PhoneTypes, PcTypeOK, Clean,
         \A t \in Transfers : CallInv(t), SaveInv,
         FrameArrives \/ PhoneTask, UNCHANGED pcVars
  PROVE  SaveInv'
  <1> SUFFICES ASSUME NEW t \in Transfers
               PROVE  /\ fin'[t] = "flushed" => disk'[Name[t]] = flushing'[t]
                      /\ fin'[t] = "saved" => saved'[t] = flushing'[t]
    BY DEF SaveInv
  <1>0. /\ fin[t] = "flushed" => disk[Name[t]] = flushing[t]
        /\ fin[t] = "saved" => saved[t] = flushing[t]
        /\ Name[t] \in {Name[u] : u \in Transfers}
    BY DEF SaveInv
  <1>1. CASE HandleEnd
    <2>1. PICK g \in Downs : g = Head(down)
      BY <1>1, DeliverType DEF HandleEnd, Arrives
    <2>2. PICK s \in Transfers : s = g.t
      BY <2>1 DEF Downs
    <2>3. UNCHANGED <<disk, saved>>
      BY <1>1 DEF HandleEnd
    <2>4. CASE t # s \/ s \notin receives
      <3>1. fin'[t] = fin[t] /\ flushing'[t] = flushing[t]
        BY <1>1, <2>1, <2>2, <2>4
        DEF HandleEnd, PhoneTypes, ReceiveTypeOK
      <3> QED
        BY <1>0, <2>3, <3>1
    <2>5. CASE t = s /\ s \in receives
      <3>1. fin'[t] = "flush"
        BY <1>1, <2>1, <2>2, <2>5 DEF HandleEnd, PhoneTypes, ReceiveTypeOK
      <3> QED
        BY <3>1
    <2> QED
      BY <2>4, <2>5
  <1>2. ASSUME NEW s \in Transfers, InitFile(s)
        PROVE  /\ fin'[t] = "flushed" => disk'[Name[t]] = flushing'[t]
               /\ fin'[t] = "saved" => saved'[t] = flushing'[t]
    <2>1. UNCHANGED <<fin, flushing, saved>> /\ init[s] = "pending"
      BY <1>2 DEF InitFile
    <2>2. fin[s] = "no"
      BY <2>1, WorkTells DEF Clean, MetaPhase
    <2>3. t # s => disk'[Name[t]] = disk[Name[t]]
      BY <1>0, <1>2 DEF InitFile, OwnFiles, PhoneTypes, ReceiveTypeOK
    <2> QED
      BY <1>0, <2>1, <2>2, <2>3
  <1>3. ASSUME NEW s \in Transfers, Flush(s)
        PROVE  /\ fin'[t] = "flushed" => disk'[Name[t]] = flushing'[t]
               /\ fin'[t] = "saved" => saved'[t] = flushing'[t]
    <2>1. UNCHANGED <<flushing, saved>>
      BY <1>3 DEF Flush
    <2>2. t # s => disk'[Name[t]] = disk[Name[t]] /\ fin'[t] = fin[t]
      BY <1>0, <1>3 DEF Flush, OwnFiles, PhoneTypes, ReceiveTypeOK
    <2>3. /\ fin'[s] = "flushed" => disk'[Name[s]] = flushing[s]
          /\ fin'[s] # "saved"
      BY <1>3 DEF Flush, PhoneTypes, ReceiveTypeOK
    <2> QED
      BY <1>0, <2>1, <2>2, <2>3
  <1>4. ASSUME NEW s \in Transfers, Report(s)
        PROVE  /\ fin'[t] = "flushed" => disk'[Name[t]] = flushing'[t]
               /\ fin'[t] = "saved" => saved'[t] = flushing'[t]
    <2>1. UNCHANGED <<flushing, disk>>
      BY <1>4 DEF Report
    <2>2. t # s => fin'[t] = fin[t] /\ saved'[t] = saved[t]
      BY <1>4 DEF Report, PhoneTypes, ReceiveTypeOK
    <2>3. /\ fin'[s] # "flushed" /\ saved'[s] = disk[Name[s]]
          /\ fin'[s] = "saved" => fin[s] = "flushed"
      BY <1>4 DEF Report, PhoneTypes, ReceiveTypeOK
    <2>4. fin'[s] = "saved" => saved'[s] = flushing[s]
      BY <2>3 DEF SaveInv
    <2> QED
      BY <1>0, <2>1, <2>2, <2>3, <2>4
  <1>5. CASE \/ HandleMeta \/ DropBinary \/ TakeBinary
             \/ \E h \in waiting :
                  \/ InitReady(h) \/ InitGivesUp(h) \/ Decoded(h)
                  \/ DecodeFails(h) \/ Yielded(h)
    <2>1. UNCHANGED <<fin, flushing, disk, saved>>
      BY <1>5
      DEF HandleMeta, DropBinary, TakeBinary, InitReady, InitGivesUp,
          Decoded, DecodeFails, Yielded, receiveVars
    <2> QED
      BY <1>0, <2>1
  <1> QED
    BY <1>1, <1>2, <1>3, <1>4, <1>5 DEF FrameArrives, PhoneTask

\* Where the phone rests, so do its files.
LEMMA RestKeepsSave ==
  ASSUME SaveInv, UNCHANGED receiveVars, Clean' => Clean
  PROVE  SaveInv'
  BY DEF SaveInv, receiveVars

\* A call that has not been given up, nor any other: the phone holds what
\* was acknowledged, or one chunk more.
LEMMA CollectedInv ==
  ASSUME PhoneTypes, CallTypes, CallsInv
  PROVE  AckedMeansCollected
  <1> SUFFICES ASSUME NEW t \in Transfers, AloneFailing(t)
               PROVE  /\ Sending(t) =>
                           \/ Collected(t) = OwnPrefix(t, idx[t])
                           \/ Collected(t) = OwnPrefix(t, idx[t] + 1)
                      /\ spc[t] = "done" =>
                           Collected(t) = OwnPrefix(t, NumChunks[t])
    BY DEF AckedMeansCollected, Sending
  <1>1. spc[t] # "failed" => CallInv(t)
    BY DEF AloneFailing, Clean, CallsInv
  <1>2. CASE spc[t] \in {"stat", "sent", "meta"}
    <2>1. fin[t] = "no" /\ Holds(t, 0, 0)
      BY <1>1, <1>2 DEF CallInv, Untouched, MetaPhase
    <2>2. idx[t] = 0
      BY <1>2 DEF CallTypes, IdxInv
    <2>3. Collected(t) = OwnPrefix(t, idx[t])
      BY <2>1, <2>2 DEF Collected, Holds
    <2> QED
      BY <1>2, <2>3
  <1>3. CASE spc[t] = "reading"
    <2>1. fin[t] = "no" /\ Holds(t, idx[t], idx[t])
      BY <1>1, <1>3 DEF CallInv, ReadPhase
    <2> QED
      BY <1>3, <2>1 DEF Collected, Holds
  <1>4. CASE spc[t] = "chunk"
    <2>1. /\ fin[t] = "no"
          /\ \/ chunks[t] = OwnPrefix(t, idx[t])
             \/ chunks[t] = OwnPrefix(t, idx[t] + 1)
      BY <1>1, <1>4 DEF CallInv, ChunkPhase, AtWork, Holds
    <2> QED
      BY <1>4, <2>1 DEF Collected
  <1>5. CASE spc[t] = "done"
    <2>1. EndPhase(t)
      BY <1>1, <1>5 DEF CallInv
    <2> QED
      BY <1>5, <2>1 DEF EndPhase, Collected, Sending
  <1> QED
    BY <1>2, <1>3, <1>4, <1>5 DEF CallTypes, PcTypeOK, SendStates, Sending

\* A file that was reported is the one that was sent.
LEMMA SavedInv ==
  ASSUME PcTypeOK, CallsInv, DoneInv, SaveInv
  PROVE  SavedIsComplete
  <1> SUFFICES ASSUME NEW t \in Transfers, AloneFailing(t),
                      fin[t] = "saved"
               PROVE  saved[t] = OwnPrefix(t, NumChunks[t])
    BY DEF SavedIsComplete
  <1>1. spc[t] = "done"
    BY DEF DoneInv
  <1>2. Clean
    BY <1>1 DEF AloneFailing, Clean
  <1>3. EndPhase(t) /\ saved[t] = flushing[t]
    BY <1>1, <1>2 DEF CallsInv, CallInv, SaveInv
  <1> QED
    BY <1>3 DEF EndPhase

\* At the start there is no file.
LEMMA SaveInit ==
  ASSUME SocketInit, ReceiveInit, PcInit
  PROVE  DoneInv /\ SaveInv
  <1>1. \A t \in Transfers : ~ InFlight(down, End(t)) /\ fin[t] = "no"
    <2>1. Len(down) = 0
      BY EmptySeq DEF SocketInit
    <2> QED
      BY <2>1 DEF InFlight, ReceiveInit
  <1> QED
    BY <1>1 DEF DoneInv, SaveInv

----------------------------------------------------------------------------
(* No chunk is kept twice, however many calls run at a time. *)

\* The chunks the calls have sent so far.  A call that failed may have sent
\* the chunk after the last one acknowledged.
SentChunk(s, k) ==
  \/ k <= idx[s]
  \/ k = idx[s] + 1 /\ spc[s] \in {"chunk", "failed"}

\* Handler h has still to keep chunk k of s, and it is the i-th kept for t.
ToKeep(h, s, k) == h \in waiting /\ h.at # "yield" /\ h.chunk = <<s, k>>
KeptAt(t, i, s, k) ==
  t \in Transfers /\ i \in DOMAIN chunks[t] /\ chunks[t][i] = <<s, k>>

\* A chunk is in one place at most, and in none before it is sent.
OnePlace(s, k) ==
  /\ DownOnce(Chunk(s, k))
  /\ InFlight(down, Chunk(s, k)) => SentChunk(s, k)
  /\ \A h : ToKeep(h, s, k) =>
       /\ SentChunk(s, k) /\ ~ InFlight(down, Chunk(s, k))
       /\ \A g : ToKeep(g, s, k) => g = h
  /\ \A t, i : KeptAt(t, i, s, k) =>
       /\ SentChunk(s, k) /\ ~ InFlight(down, Chunk(s, k))
       /\ \A h : ~ ToKeep(h, s, k)
       /\ \A u, j : KeptAt(u, j, s, k) => t = u /\ i = j

PlacesInv == \A s \in Transfers, k \in Nat : OnePlace(s, k)

\* A step that puts a chunk nowhere and takes none back.
LEMMA PlaceLost ==
  ASSUME NEW s \in Transfers, NEW k \in Nat, OnePlace(s, k),
         SentChunk(s, k) => SentChunk(s, k)',
         NEW g, g = Chunk(s, k),
         InFlight(down, g)' => InFlight(down, g),
         DownOnce(g) => DownOnce(g)',
         \A h : ToKeep(h, s, k)' => ToKeep(h, s, k),
         \A t, i : KeptAt(t, i, s, k)' => KeptAt(t, i, s, k)
  PROVE  OnePlace(s, k)'
  BY DEF OnePlace, Chunk

\* The phone's steps.
LEMMA PhoneKeepsPlaces ==
  ASSUME PhoneTypes, PlacesInv, FrameArrives \/ PhoneTask, UNCHANGED pcVars
  PROVE  PlacesInv'
  <1> SUFFICES ASSUME NEW s \in Transfers, NEW k \in Nat
               PROVE  OnePlace(s, k)'
    BY DEF PlacesInv
  <1>1. PICK x : x = Chunk(s, k)
    OBVIOUS
  <1>2. OnePlace(s, k) /\ (SentChunk(s, k) <=> SentChunk(s, k)')
    BY DEF PlacesInv, SentChunk, pcVars
  <1>3. CASE FrameArrives
    <2>1. Deliver
      BY <1>3
      DEF FrameArrives, HandleMeta, DropBinary, TakeBinary, HandleEnd, Arrives
    <2>2. PICK g \in Downs : g = Head(down)
      BY <2>1, DeliverType
    <2>3. /\ DownFades /\ InFlight(down, g)
          /\ DownOnce(g) => ~ InFlight(down, g)'
      BY <2>1, <2>2, DeliverTakes
    <2>4. /\ InFlight(down, x)' => InFlight(down, x)
          /\ DownOnce(x) => DownOnce(x)'
      BY <2>3 DEF DownFades
    <2>5. CASE HandleMeta \/ DropBinary \/ HandleEnd
      <3>1. /\ UNCHANGED waiting
            /\ \A t \in Transfers : chunks'[t] \in {chunks[t], <<>>}
        BY <2>2, <2>5
        DEF HandleMeta, DropBinary, HandleEnd, receiveVars, PhoneTypes,
            ReceiveTypeOK, Downs
      <3>2. \A t, i : KeptAt(t, i, s, k)' => KeptAt(t, i, s, k)
        BY <3>1 DEF KeptAt
      <3>3. \A h : ToKeep(h, s, k)' => ToKeep(h, s, k)
        BY <3>1 DEF ToKeep
      <3> QED
        BY <1>1, <1>2, <2>4, <3>2, <3>3, PlaceLost
    <2>6. CASE TakeBinary
      <3>1. UNCHANGED chunks /\ g.kind = "chunk"
        BY <2>2, <2>6 DEF TakeBinary, Arrives
      <3>2. PICK h : /\ waiting' = waiting \cup {h} /\ h.at # "yield"
                     /\ h.chunk = <<g.t, g.k>>
        <4>1. PICK h : h = [chunk |-> <<g.t, g.k>>, t |-> cur,
                            at |-> IF init[cur] = "ok" THEN "decode"
                                   ELSE "init"]
          OBVIOUS
        <4>2. waiting' = waiting \cup {h}
          BY <2>2, <2>6, <4>1 DEF TakeBinary
        <4>3. h.at # "yield" /\ h.chunk = <<g.t, g.k>>
          BY <4>1
        <4> QED
          BY <4>2, <4>3
      <3>3. \A t, i : KeptAt(t, i, s, k)' <=> KeptAt(t, i, s, k)
        BY <3>1 DEF KeptAt
      <3>4. \A e : ToKeep(e, s, k)' => ToKeep(e, s, k) \/ e = h
        BY <3>2 DEF ToKeep
      <3>5. CASE g = x
        <4>1. InFlight(down, x) /\ DownOnce(x) /\ ~ InFlight(down, x)'
          BY <1>1, <1>2, <2>3, <3>5 DEF OnePlace
        <4>2. /\ \A e : ~ ToKeep(e, s, k)
              /\ \A t, i : ~ KeptAt(t, i, s, k)
              /\ SentChunk(s, k)
          BY <1>1, <1>2, <4>1 DEF OnePlace
        <4> QED
          BY <1>1, <1>2, <2>4, <3>3, <3>4, <4>1, <4>2 DEF OnePlace, Chunk
      <3>6. CASE g # x
        <4>1. h.chunk # <<s, k>>
          BY <1>1, <2>2, <3>1, <3>2, <3>6, FrameForms
        <4>2. \A e : ToKeep(e, s, k)' => ToKeep(e, s, k)
          BY <3>2, <4>1 DEF ToKeep
        <4> QED
          BY <1>1, <1>2, <2>4, <3>3, <4>2, PlaceLost
      <3> QED
        BY <3>5, <3>6
    <2> QED
      BY <1>3, <2>5, <2>6 DEF FrameArrives
  <1>4. CASE PhoneTask
    <2>1. UNCHANGED down
      BY <1>4
      DEF PhoneTask, InitFile, Flush, Report, InitReady, InitGivesUp,
          Decoded, DecodeFails, Yielded, Background
    <2>2. /\ InFlight(down, x)' <=> InFlight(down, x)
          /\ DownOnce(x) <=> DownOnce(x)'
      BY <2>1 DEF InFlight, DownOnce
    <2>3. ASSUME \A t \in Transfers : chunks'[t] \in {chunks[t], <<>>},
                 \A h : h \in waiting' => h \in waiting \/ h.at = "yield"
          PROVE  OnePlace(s, k)'
      <3>1. \A t, i : KeptAt(t, i, s, k)' => KeptAt(t, i, s, k)
        BY <2>3 DEF KeptAt
      <3>2. \A h : ToKeep(h, s, k)' => ToKeep(h, s, k)
        BY <2>3 DEF ToKeep
      <3> QED
        BY <1>1, <1>2, <2>2, <3>1, <3>2, PlaceLost
    <2>4. ASSUME NEW t \in Transfers, InitFile(t) \/ Flush(t) \/ Report(t)
          PROVE  OnePlace(s, k)'
      <3>1. /\ UNCHANGED waiting
            /\ \A u \in Transfers : chunks'[u] \in {chunks[u], <<>>}
        BY <2>4 DEF InitFile, Flush, Report, PhoneTypes, ReceiveTypeOK
      <3> QED
        BY <2>3, <3>1
    <2>5. ASSUME NEW h \in waiting,
                 InitGivesUp(h) \/ DecodeFails(h) \/ Yielded(h)
          PROVE  OnePlace(s, k)'
      <3>1. UNCHANGED chunks /\ waiting' = waiting \ {h}
        BY <2>5 DEF InitGivesUp, DecodeFails, Yielded
      <3> QED
        BY <2>3, <3>1
    <2>6. ASSUME NEW h \in waiting, InitReady(h)
          PROVE  OnePlace(s, k)'
      <3>1. PICK e : e = [h EXCEPT !.at = "decode"]
        OBVIOUS
      <3>2. h \in Handlers
        BY DEF PhoneTypes, ReceiveTypeOK
      <3>3. /\ UNCHANGED chunks /\ waiting' = (waiting \ {h}) \cup {e}
            /\ h.at # "yield" /\ e.at # "yield" /\ e.chunk = h.chunk
        BY <2>6, <3>1, <3>2 DEF InitReady, Handlers
      <3>4. \A t, i : KeptAt(t, i, s, k)' <=> KeptAt(t, i, s, k)
        BY <3>3 DEF KeptAt
      <3>5. CASE h.chunk = <<s, k>>
        <4>1. ToKeep(h, s, k)
          BY <3>3, <3>5 DEF ToKeep
        <4>2. /\ SentChunk(s, k) /\ ~ InFlight(down, x)
              /\ \A d : ToKeep(d, s, k) => d = h
              /\ \A t, i : ~ KeptAt(t, i, s, k)
          BY <1>1, <1>2, <4>1 DEF OnePlace
        <4>3. \A d : ToKeep(d, s, k)' => d = e
          BY <3>3, <4>2 DEF ToKeep
        <4> QED
          BY <1>1, <1>2, <2>2, <3>4, <4>2, <4>3 DEF OnePlace, Chunk
      <3>6. CASE h.chunk # <<s, k>>
        <4>1. \A d : ToKeep(d, s, k)' => ToKeep(d, s, k)
          BY <3>3, <3>6 DEF ToKeep
        <4> QED
          BY <1>1, <1>2, <2>2, <3>4, <4>1, PlaceLost
      <3> QED
        BY <3>5, <3>6
    <2>7. ASSUME NEW h \in waiting, Decoded(h)
          PROVE  OnePlace(s, k)'
      <3>1. h \in Handlers /\ h.t \in Transfers /\ h.chunk \in Chunks
        BY DEF PhoneTypes, ReceiveTypeOK, Handlers
      <3>2. [h EXCEPT !.at = "yield"].at = "yield"
        BY <3>1 DEF Handlers
      <3>3. /\ h.at = "decode" /\ h \notin waiting'
            /\ \A e : e \in waiting' => e \in waiting \/ e.at = "yield"
        BY <2>7, <3>2 DEF Decoded
      <3>4. \A e : ToKeep(e, s, k)' => ToKeep(e, s, k) /\ e # h
        BY <3>3 DEF ToKeep
      <3>5. chunks[h.t] \in Seq(Chunks) /\ Len(chunks[h.t]) \in Nat
        BY <3>1, LenProperties DEF PhoneTypes, ReceiveTypeOK
      <3>6. PICK n \in Nat : n = Len(chunks[h.t]) + 1
        BY <3>5
      <3>7. /\ chunks'[h.t] = Append(chunks[h.t], h.chunk)
            /\ \A t \in Transfers : t # h.t => chunks'[t] = chunks[t]
        BY <2>7, <3>1 DEF Decoded, PhoneTypes, ReceiveTypeOK
      <3>8. /\ DOMAIN chunks[h.t] = 1 .. n - 1
            /\ DOMAIN chunks'[h.t] = 1 .. n
            /\ \A i \in 1 .. n - 1 : chunks'[h.t][i] = chunks[h.t][i]
            /\ chunks'[h.t][n] = h.chunk
        BY <3>1, <3>5, <3>6, <3>7, AppendProperties, LenProperties
      <3>9. ASSUME NEW t, NEW i, KeptAt(t, i, s, k)'
            PROVE  \/ KeptAt(t, i, s, k)
                   \/ t = h.t /\ i = n /\ h.chunk = <<s, k>>
        <4>1. /\ t \in Transfers /\ i \in DOMAIN chunks'[t]
              /\ chunks'[t][i] = <<s, k>>
          BY <3>9 DEF KeptAt
        <4>2. CASE t # h.t
          BY <3>7, <4>1, <4>2 DEF KeptAt
        <4>3. CASE t = h.t
          <5>1. i \in 1 .. n
            BY <3>8, <4>1, <4>3
          <5>2. i = n \/ i \in 1 .. n - 1
            BY <5>1
          <5>3. i \in 1 .. n - 1 => KeptAt(t, i, s, k)
            BY <3>8, <4>1, <4>3 DEF KeptAt
          <5> QED
            BY <3>8, <4>1, <4>3, <5>2, <5>3
        <4> QED
          BY <4>2, <4>3
      <3>10. CASE h.chunk = <<s, k>>
        <4>1. ToKeep(h, s, k)
          BY <3>3, <3>10 DEF ToKeep
        <4>2. /\ SentChunk(s, k) /\ ~ InFlight(down, x)
              /\ \A d : ToKeep(d, s, k) => d = h
              /\ \A t, i : ~ KeptAt(t, i, s, k)
          BY <1>1, <1>2, <4>1 DEF OnePlace
        <4>3. /\ \A d : ~ ToKeep(d, s, k)'
              /\ \A t, i : KeptAt(t, i, s, k)' => t = h.t /\ i = n
          BY <3>4, <3>9, <4>2
        <4> QED
          BY <1>1, <1>2, <2>2, <4>2, <4>3 DEF OnePlace, Chunk
      <3>11. CASE h.chunk # <<s, k>>
        BY <1>1, <1>2, <2>2, <3>4, <3>9, <3>11, PlaceLost
      <3> QED
        BY <3>10, <3>11
    <2> QED
      BY <1>4, <2>4, <2>5, <2>6, <2>7 DEF PhoneTask
  <1> QED
    BY <1>3, <1>4

\* A step that leaves the phone alone and takes back no chunk: what it sends
\* is no chunk, or one that was not sent before.
LEMMA RestKeepsPlaces ==
  ASSUME PlacesInv, UNCHANGED receiveVars,
         \A s \in Transfers, k \in Nat : SentChunk(s, k) => SentChunk(s, k)',
         \/ DownFades
         \/ \E g : /\ DownGains(g)
                   /\ \A s \in Transfers, k \in Nat : g = Chunk(s, k) =>
                        ~ SentChunk(s, k) /\ SentChunk(s, k)'
  PROVE  PlacesInv'
  <1> SUFFICES ASSUME NEW s \in Transfers, NEW k \in Nat
               PROVE  OnePlace(s, k)'
    BY DEF PlacesInv
  <1>1. PICK x : x = Chunk(s, k)
    OBVIOUS
  <1>2. OnePlace(s, k)
    BY DEF PlacesInv
  <1>3. /\ \A h : ToKeep(h, s, k)' <=> ToKeep(h, s, k)
        /\ \A t, i : KeptAt(t, i, s, k)' <=> KeptAt(t, i, s, k)
    BY DEF ToKeep, KeptAt, receiveVars
  <1>4. CASE /\ InFlight(down, x)' => InFlight(down, x)
             /\ DownOnce(x) => DownOnce(x)'
    BY <1>1, <1>2, <1>3, <1>4, PlaceLost
  <1>5. CASE DownGains(x) /\ ~ SentChunk(s, k) /\ SentChunk(s, k)'
    <2>1. /\ \A h : ~ ToKeep(h, s, k)
          /\ \A t, i : ~ KeptAt(t, i, s, k)
          /\ ~ InFlight(down, x) /\ DownOnce(x)
      BY <1>1, <1>2, <1>5 DEF OnePlace
    <2>2. DownOnce(x)'
      BY <1>5, <2>1 DEF DownGains
    <2> QED
      BY <1>1, <1>3, <1>5, <2>1, <2>2 DEF OnePlace, Chunk
  <1> QED
    BY <1>1, <1>4, <1>5 DEF DownFades, DownGains

\* At the start no chunk is anywhere.
LEMMA PlacesInit ==
  ASSUME SocketInit, ReceiveInit
  PROVE  PlacesInv
  <1> SUFFICES ASSUME NEW s \in Transfers, NEW k \in Nat
               PROVE  OnePlace(s, k)
    BY DEF PlacesInv
  <1>1. Len(down) = 0
    BY EmptySeq DEF SocketInit
  <1>2. DownOnce(Chunk(s, k)) /\ ~ InFlight(down, Chunk(s, k))
    BY <1>1 DEF DownOnce, InFlight
  <1>3. /\ \A h : ~ ToKeep(h, s, k)
        /\ \A t, i : ~ KeptAt(t, i, s, k)
    <2>1. \A t \in Transfers : DOMAIN chunks[t] = {}
      BY EmptySeq DEF ReceiveInit
    <2> QED
      BY <2>1 DEF ReceiveInit, ToKeep, KeptAt
  <1> QED
    BY <1>2, <1>3 DEF OnePlace

----------------------------------------------------------------------------
(* While the connection holds, no answer is lost but by the phone's file    *)
(* system or its decoder.                                                   *)

\* They have lost something of t.
Broken(t) ==
  \/ init[t] = "failed"
  \/ /\ spc[t] = "chunk" /\ fin[t] = "no" /\ NoTask(t)
     /\ got[t] = idx[t] + 1 /\ chunks[t] = OwnPrefix(t, idx[t])

\* What the call of t waits for is on its way to the phone, in its hands, or
\* on its way back.
OnItsWay(t) ==
  \/ /\ spc[t] = "meta"
     /\ \/ InFlight(down, Meta(t))
        \/ init[t] = "pending"
        \/ AckIn(Ack(t, 0))
  \/ /\ spc[t] = "chunk"
     /\ \/ InFlight(down, Chunk(t, idx[t] + 1))
        \/ \E h \in waiting : h.t = t /\ h.chunk = <<t, idx[t] + 1>>
        \/ AckIn(Ack(t, idx[t] + 1))

Served(t) == spc[t] \in {"meta", "chunk"} => OnItsWay(t) \/ Broken(t)

\* Nothing of t is taken away.
KeepsAll(t) ==
  /\ \A f : f.t = t => /\ InFlight(down, f) => InFlight(down, f)'
                       /\ AckIn(f) => AckIn(f)'
  /\ UNCHANGED <<spc[t], idx[t], init[t], got[t], chunks[t], fin[t]>>
  /\ \A h : h.t = t => (h \in waiting <=> h \in waiting')

\* Then what was under way still is.
LEMMA StaysServed ==
  ASSUME NEW t \in Transfers, Served(t), KeepsAll(t)
  PROVE  Served(t)'
  <1>1. Broken(t) => Broken(t)'
    BY DEF KeepsAll, Broken, NoTask, OwnPrefix
  <1>2. ASSUME spc[t] = "meta", OnItsWay(t)
        PROVE  OnItsWay(t)'
    <2>1. Meta(t).t = t /\ Ack(t, 0).t = t
      BY DEF Meta, Ack
    <2>2. PICK m, a : m = Meta(t) /\ a = Ack(t, 0)
      OBVIOUS
    <2>3. /\ InFlight(down, m) => InFlight(down, m)'
          /\ AckIn(a) => AckIn(a)'
      BY <2>1, <2>2 DEF KeepsAll
    <2> QED
      BY <1>2, <2>2, <2>3 DEF KeepsAll, OnItsWay, Meta, Ack
  <1>3. ASSUME spc[t] = "chunk", OnItsWay(t)
        PROVE  OnItsWay(t)'
    <2>1. PICK g, a, k : /\ k = idx[t] + 1
                         /\ g = Chunk(t, k) /\ a = Ack(t, k)
      OBVIOUS
    <2>2. g.t = t /\ a.t = t /\ idx'[t] + 1 = k /\ spc'[t] = "chunk"
      BY <1>3, <2>1 DEF Chunk, Ack, KeepsAll
    <2>3. /\ InFlight(down, g) => InFlight(down, g)'
          /\ AckIn(a) => AckIn(a)'
      BY <2>2 DEF KeepsAll
    <2>4. \A h \in waiting : h.t = t => h \in waiting'
      BY DEF KeepsAll
    <2>5. /\ g = Chunk(t, idx[t] + 1)' /\ a = Ack(t, idx[t] + 1)'
      BY <2>1, <2>2 DEF Chunk, Ack
    <2>6. \/ InFlight(down, g)'
          \/ \E h \in waiting' : h.t = t /\ h.chunk = <<t, k>>
          \/ AckIn(a)'
      BY <1>3, <2>1, <2>3, <2>4 DEF OnItsWay
    <2> QED
      BY <2>2, <2>5, <2>6 DEF OnItsWay
  <1> QED
    BY <1>1, <1>2, <1>3 DEF Served, KeepsAll

\* The phone's steps.
LEMMA PhoneKeepsServed ==
  ASSUME PhoneTypes, PcTypeOK, OneSender, Clean, link # "dead",
         \A t \in Transfers : CallInv(t),
         FrameArrives \/ PhoneTask, UNCHANGED pcVars,
         NEW t \in Transfers, Served(t)
  PROVE  Served(t)'
  <1> SUFFICES ASSUME spc[t] \in {"meta", "chunk"}
               PROVE  Served(t)'
    BY DEF Served, pcVars
  <1>1. /\ UNCHANGED <<spc, idx>> /\ spc[t] # "failed"
        /\ \A s \in Transfers : Sending(s) => s = t
        /\ idx[t] \in Nat
    BY DEF pcVars, OneSender, Sending, PcTypeOK
  <1>2. CASE FrameArrives
    <2>1. Deliver /\ UNCHANGED <<up, pending>>
      BY <1>2
      DEF FrameArrives, HandleMeta, DropBinary, TakeBinary, HandleEnd,
          Arrives
    <2>2. PICK g \in Downs : g = Head(down)
      BY <2>1, DeliverType
    <2>3. PICK s \in Transfers : s = g.t
      BY <2>2 DEF Downs
    <2>4. /\ InFlight(down, g)
          /\ \A f : f # g /\ InFlight(down, f) => InFlight(down, f)'
          /\ \A f : AckIn(f) => AckIn(f)'
      BY <2>1, <2>2, DeliverTakes, UnchangedFade DEF AcksKept
    <2>5. CASE HandleMeta
      <3>1. g.kind = "meta" /\ init'[s] = "pending"
        BY <2>2, <2>3, <2>5
        DEF HandleMeta, Arrives, PhoneTypes, ReceiveTypeOK
      <3>2. spc[s] = "meta"
        BY <1>1, <2>3, <2>4, <3>1, FrameTells DEF Clean, Sending
      <3>3. s = t
        BY <1>1, <3>2 DEF Sending
      <3> QED
        BY <1>1, <3>1, <3>2, <3>3 DEF Served, OnItsWay
    <2>6. CASE DropBinary \/ TakeBinary
      <3>1. g.kind = "chunk"
        BY <2>2, <2>6 DEF DropBinary, TakeBinary, Arrives
      <3>2. spc[s] = "chunk" /\ ChunkPhase(s) /\ g = Chunk(s, idx[s] + 1)
        BY <1>1, <2>3, <2>4, <3>1, FrameTells DEF Clean
      <3>3. s = t /\ cur = t /\ t \in receives
        BY <1>1, <3>2 DEF Sending, ChunkPhase, Ready
      <3>4. PICK p : p = IF init[cur] = "ok" THEN "decode" ELSE "init"
        OBVIOUS
      <3>5. PICK e : e = [chunk |-> <<g.t, g.k>>, t |-> cur, at |-> p]
        OBVIOUS
      <3>6. e \in waiting'
        BY <2>2, <2>6, <3>3, <3>4, <3>5 DEF DropBinary, TakeBinary
      <3>7. e.t = t /\ e.chunk = <<t, idx[t] + 1>>
        BY <3>2, <3>3, <3>5 DEF Chunk
      <3> QED
        BY <1>1, <3>2, <3>3, <3>6, <3>7 DEF Served, OnItsWay
    <2>7. CASE HandleEnd
      <3>1. g.kind = "end"
        BY <2>2, <2>7 DEF HandleEnd, Arrives
      <3>2. spc[s] = "done"
        BY <1>1, <2>3, <2>4, <3>1, FrameTells DEF Clean
      <3>3. s # t
        BY <3>2
      <3>4. KeepsAll(t)
        BY <1>1, <2>2, <2>3, <2>4, <2>7, <3>3
        DEF HandleEnd, KeepsAll, PhoneTypes, ReceiveTypeOK
      <3> QED
        BY <3>4, StaysServed
    <2> QED
      BY <1>2, <2>5, <2>6, <2>7 DEF FrameArrives
  <1>3. ASSUME NEW s \in Transfers, InitFile(s)
        PROVE  Served(t)'
    <2>1. init[s] = "pending" /\ UNCHANGED conn
      BY <1>3 DEF InitFile, Background
    <2>2. spc[s] \in {"sent", "meta"}
      BY <2>1, WorkTells DEF Clean
    <2>3. s = t /\ spc[t] = "meta"
      BY <1>1, <2>2 DEF Sending
    <2>4. PICK a \in Frames : a = Ack(t, 0)
      BY FrameTypes DEF Ids
    <2>5. AckIn(a)'
      BY <1>3, <2>1, <2>3, <2>4, SendGains DEF InitFile
    <2> QED
      BY <1>1, <2>3, <2>4, <2>5 DEF Served, OnItsWay, Ack
  <1>4. ASSUME NEW s \in Transfers, Flush(s) \/ Report(s)
        PROVE  Served(t)'
    <2>1. fin[s] # "no"
      BY <1>4 DEF Flush, Report
    <2>2. s # t
      BY <2>1, WorkTells DEF Clean
    <2>3. UNCHANGED <<down, pending, up>>
      BY <1>4 DEF Flush, Report, Background
    <2>4. /\ \A f : InFlight(down, f) => InFlight(down, f)'
          /\ \A f : AckIn(f) => AckIn(f)'
      BY <2>3, DownStays, UnchangedFade DEF AcksKept
    <2>5. KeepsAll(t)
      BY <1>1, <1>4, <2>2, <2>4
      DEF Flush, Report, KeepsAll, PhoneTypes, ReceiveTypeOK
    <2> QED
      BY <2>5, StaysServed
  <1>5. ASSUME NEW h \in waiting,
               \/ InitReady(h) \/ InitGivesUp(h) \/ Decoded(h)
               \/ DecodeFails(h) \/ Yielded(h)
        PROVE  Served(t)'
    <2>1. PICK s \in Transfers : s = h.t
      BY DEF PhoneTypes, ReceiveTypeOK, Handlers
    <2>2. spc[s] = "chunk" /\ ChunkPhase(s) /\ AtWork(s, h)
      BY <2>1, WorkTells DEF Clean
    <2>3. /\ s = t /\ h.t = t /\ h.chunk = <<t, idx[t] + 1>>
          /\ h \in Handlers
      BY <1>1, <2>1, <2>2 DEF Sending, AtWork, PhoneTypes, ReceiveTypeOK
    <2>4. /\ Ready(t) /\ fin[t] = "no" /\ cur = t
          /\ \A e \in waiting : e.t = t => e = h
      BY <2>2, <2>3 DEF ChunkPhase, Ready, AtWork
    <2>5. ASSUME NEW p \in {"decode", "yield"},
                 [h EXCEPT !.at = p] \in waiting'
          PROVE  Served(t)'
      <3>1. PICK e : e = [h EXCEPT !.at = p]
        OBVIOUS
      <3>2. e \in waiting' /\ e.t = t /\ e.chunk = <<t, idx[t] + 1>>
        BY <2>3, <2>5, <3>1 DEF Handlers
      <3> QED
        BY <1>1, <2>2, <2>3, <3>2 DEF Served, OnItsWay
    <2>6. ASSUME Send(Ack(cur, got[h.t])), UNCHANGED conn,
                 got[t] = idx[t] + 1
          PROVE  Served(t)'
      <3>1. PICK a \in Frames : a = Ack(t, idx[t] + 1)
        BY <1>1, FrameTypes DEF Ids
      <3>2. AckIn(a)'
        BY <2>3, <2>4, <2>6, <3>1, SendGains
      <3> QED
        BY <1>1, <2>2, <2>3, <3>1, <3>2 DEF Served, OnItsWay, Ack
    <2>7. CASE InitReady(h)
      BY <2>5, <2>7 DEF InitReady
    <2>8. CASE InitGivesUp(h)
      <3>1. init'[t] = "failed"
        BY <2>3, <2>4, <2>8 DEF InitGivesUp, Ready
      <3> QED
        BY <3>1 DEF Served, Broken
    <2>9. CASE Decoded(h)
      <3>1. got[t] = idx[t] + 1
        BY <2>2, <2>3, <2>9 DEF AtWork, Decoded, Holds
      <3> QED
        BY <2>5, <2>6, <2>9, <3>1 DEF Decoded, Background
    <2>10. CASE DecodeFails(h)
      <3>1. Holds(t, idx[t] + 1, idx[t])
        BY <2>2, <2>3, <2>10 DEF AtWork, DecodeFails
      <3>2. NoTask(t)' /\ UNCHANGED <<got, chunks, fin>>
        BY <2>4, <2>10 DEF DecodeFails, NoTask
      <3>3. Broken(t)'
        BY <1>1, <2>2, <2>3, <2>4, <3>1, <3>2
        DEF Broken, Holds, OwnPrefix
      <3> QED
        BY <3>3 DEF Served
    <2>11. CASE Yielded(h)
      <3>1. got[t] = idx[t] + 1
        BY <2>2, <2>3, <2>11 DEF AtWork, Yielded, Holds
      <3> QED
        BY <2>6, <2>11, <3>1 DEF Yielded, Background
    <2> QED
      BY <1>5, <2>7, <2>8, <2>9, <2>10, <2>11
  <1> QED
    BY <1>2, <1>3, <1>4, <1>5 DEF PhoneTask

\* Where nothing was lost, the answer a call waits for is under way.
LEMMA ServedInv ==
  ASSUME PhoneTypes, PcTypeOK, NEW t \in Transfers, Served(t), ~ Faulted(t)
  PROVE  AnswerUnderWay(t)
  <1>1. ~ Broken(t)
    <2> SUFFICES ASSUME Broken(t)
                 PROVE  FALSE
      OBVIOUS
    <2>1. /\ spc[t] = "chunk" /\ fin[t] = "no" /\ NoTask(t)
          /\ got[t] = idx[t] + 1 /\ chunks[t] = OwnPrefix(t, idx[t])
          /\ idx[t] \in Nat
      BY DEF Broken, Faulted, PcTypeOK
    <2>2. {h \in waiting : h.t = t /\ h.at = "decode"} = {}
      BY <2>1 DEF NoTask
    <2>3. Cardinality({h \in waiting : h.t = t /\ h.at = "decode"}) = 0
      BY <2>2, FS_EmptySet
    <2>4. Len(Collected(t)) = idx[t]
      BY <2>1 DEF Collected, OwnPrefix
    <2> QED
      BY <2>1, <2>3, <2>4 DEF Faulted
  <1>2. \A f : AckIn(f) => \/ InFlight(pending, f)
                           \/ \E c \in Conns : InFlight(up[c], f)
    BY SocketAssumption DEF AckIn, Has, At, Box, Boxes, InFlight
  <1> QED
    BY <1>1, <1>2 DEF Served, OnItsWay, AnswerUnderWay
=============================================================================
