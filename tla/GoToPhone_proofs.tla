--------------------------- MODULE GoToPhone_proofs ---------------------------
(***************************************************************************)
(* Theorems about GoToPhone, for any number of transfers, chunks,          *)
(* connections and drops and any capacity of the ACK channels, checked by  *)
(* TLAPS.                                                                  *)
(***************************************************************************)
EXTENDS GoToPhone, Receiving_proofs

USE DEF Conns, SocketTypes

\* TypeOK, and what makes it inductive.
GoTypes ==
  /\ registered \subseteq Transfers
  /\ acks \in [Transfers -> Seq(Nat)]
  /\ \A t \in Transfers : Len(acks[t]) <= ChanCap
  /\ handing \in [Conns -> [kind : {"ack"}, t : Ids, k : Nat]]
  /\ alive \in BOOLEAN

TypeInv == PhoneTypes /\ CallTypes /\ GoTypes

\* The channel of t, or a goroutine on its way to it, holds an ACK only if
\* it is the one the call waits for, and then no other is about.
Held(t) ==
  /\ \A c \in Conns : handing[c].t = t =>
       /\ Answered(t, handing[c].k) /\ acks[t] = <<>>
       /\ \A d \in Conns : handing[d].t = t => c = d
  /\ acks[t] # <<>> => \E k \in Nat : acks[t] = <<k>> /\ Answered(t, k)

HeldInv == Clean => \A t \in Transfers : Held(t)

\* What holds while one SendFile runs at a time.
OneSendInv == TypeInv /\ OneSender /\ CallsInv /\ HeldInv /\ DoneInv

\* Only a call that runs has its channel in the map.
RegisteredInv ==
  \A t \in registered : spc[t] \in {"meta", "reading", "chunk"}

----------------------------------------------------------------------------
(* Types. *)

\* What SendFile sends is one of the PC's frames.
LEMMA SendStepPhone ==
  ASSUME TypeInv, NEW t \in Transfers, SendStep(t)
  PROVE  PhoneTypes'
  <1>0. PhoneTypes /\ idx[t] \in Nat /\ idx[t] + 1 \in Nat
    BY DEF TypeInv, CallTypes, PcTypeOK
  <1>1. UNCHANGED <<link, conn, drops, pending, up, receiveVars>>
    BY DEF SendStep, StartSend, Register, TakeAck, SendChunk, SendEnd,
           SendFails, Timeout, CallStep, ServerTask
  <1>2. down' \in Seq(Downs)
    <2>1. CASE UNCHANGED down
      BY <1>0, <2>1 DEF PhoneTypes
    <2>2. ASSUME NEW c, NEW g \in Downs, Reply(c, <<g>>)
          PROVE  down' \in Seq(Downs)
      BY <1>0, <2>2, ReplyType
    <2>3. CASE StartSend(t)
      BY <2>1, <2>2, <2>3, FrameTypes DEF StartSend
    <2>4. CASE SendChunk(t) \/ SendEnd(t)
      BY <1>0, <2>2, <2>4, FrameTypes DEF SendChunk, SendEnd
    <2> QED
      BY <2>1, <2>3, <2>4
      DEF SendStep, Register, TakeAck, SendFails, Timeout
  <1> QED
    <2>1. up' \in [Conns -> Seq(Frames)]
      BY <1>0, <1>1 DEF PhoneTypes
    <2> QED
      BY <1>0, <1>1, <1>2, <2>1, ServerType

\* SendFile keeps its own variables in their types.
LEMMA SendStepTypes ==
  ASSUME TypeInv, NEW t \in Transfers, SendStep(t)
  PROVE  TypeInv'
  <1>0. PhoneTypes' /\ CallTypes /\ PcTypeOK /\ IdxInv /\ GoTypes
    BY SendStepPhone DEF TypeInv, CallTypes
  <1>1. CASE StartSend(t)
    <2>1. CallTypes'
      BY <1>0, <1>1
      DEF StartSend, Picks, goVars, CallTypes, PcTypeOK, IdxInv, SendStates
    <2>2. GoTypes'
      BY <1>0, <1>1 DEF StartSend, goVars, GoTypes
    <2> QED
      BY <1>0, <2>1, <2>2 DEF TypeInv
  <1>2. CASE Register(t) \/ SendChunk(t)
    <2>1. CallTypes'
      BY <1>0, <1>2
      DEF Register, SendChunk, CallTypes, PcTypeOK, IdxInv, SendStates
    <2>2. GoTypes'
      BY <1>0, <1>2 DEF Register, SendChunk, goVars, GoTypes
    <2> QED
      BY <1>0, <2>1, <2>2 DEF TypeInv
  <1>3. CASE TakeAck(t)
    <2>1. /\ acks[t] \in Seq(Nat) /\ acks[t] # <<>>
          /\ acks' = [acks EXCEPT ![t] = Tail(@)]
      BY <1>0, <1>3 DEF TakeAck, GoTypes
    <2>2. PICK k \in Nat : k = Head(acks[t])
      BY <2>1, HeadTailProperties
    <2>3. /\ Tail(acks[t]) \in Seq(Nat)
          /\ Len(Tail(acks[t])) = Len(acks[t]) - 1
      BY <2>1, HeadTailProperties
    <2>4. GoTypes'
      <3>1. Len(Tail(acks[t])) <= ChanCap
        BY <1>0, <2>1, <2>3, LenProperties, GoAssumption DEF GoTypes
      <3> QED
        BY <1>0, <1>3, <2>1, <2>3, <3>1 DEF TakeAck, GoTypes
    <2>5. CASE Matches(t, k)
      <3>1. /\ spc' = [spc EXCEPT ![t] = "reading"]
            /\ idx' = [idx EXCEPT ![t] = k]
            /\ UNCHANGED <<via, client>>
        BY <1>3, <2>2, <2>5 DEF TakeAck, Advance
      <3>2. k <= NumChunks[t]
        BY <1>0, <2>2, <2>5, PhoneReceiveAssumption
        DEF Matches, PcTypeOK, IdxInv
      <3>3. CallTypes'
        BY <1>0, <3>1, <3>2 DEF CallTypes, PcTypeOK, IdxInv, SendStates
      <3> QED
        BY <1>0, <2>4, <3>3 DEF TypeInv
    <2>6. CASE UNCHANGED <<spc, idx>>
      <3>1. CallTypes'
        BY <1>0, <1>3, <2>6 DEF TakeAck, CallTypes, PcTypeOK, IdxInv
      <3> QED
        BY <1>0, <2>4, <3>1 DEF TypeInv
    <2> QED
      BY <1>3, <2>2, <2>5, <2>6 DEF TakeAck
  <1>4. CASE SendEnd(t) \/ SendFails(t) \/ Timeout(t)
    <2>1. /\ Return(t, "done") \/ Return(t, "failed")
      BY <1>4 DEF SendEnd, SendFails, Timeout
    <2>2. CallTypes'
      BY <1>0, <2>1 DEF Return, CallTypes, PcTypeOK, IdxInv, SendStates
    <2>3. GoTypes'
      BY <1>0, <2>1 DEF Return, GoTypes
    <2> QED
      BY <1>0, <2>2, <2>3 DEF TypeInv
  <1> QED
    BY <1>1, <1>2, <1>3, <1>4 DEF SendStep

\* The two halves of handleAck keep them, too.
LEMMA HandleAckTypes ==
  ASSUME TypeInv, NEW c \in Conns, HandleAck(c)
  PROVE  TypeInv'
  <1>1. PICK f : f = Head(up[c])
    OBVIOUS
  <1>2. /\ f \in Frames /\ f.kind = "ack"
        /\ up' \in [Conns -> Seq(Frames)]
    BY <1>1, TakeType DEF TypeInv, HandleAck
  <1>3. PhoneTypes'
    <2>1. down' \in Seq(Downs)
      BY DEF HandleAck, TypeInv, PhoneTypes
    <2> QED
      BY <1>2, <2>1, ServerType DEF HandleAck, TakeFrame, TypeInv
  <1>4. f \in [kind : {"ack"}, t : Ids, k : Nat]
    BY <1>2 DEF Frames
  <1>5. GoTypes'
    BY <1>1, <1>4 DEF HandleAck, TypeInv, GoTypes
  <1>6. CallTypes'
    BY DEF HandleAck, pcVars, TypeInv, CallTypes, PcTypeOK, IdxInv
  <1> QED
    BY <1>3, <1>5, <1>6 DEF TypeInv

LEMMA HandOverTypes ==
  ASSUME TypeInv, NEW c \in Conns, HandOver(c)
  PROVE  TypeInv'
  <1>1. PhoneTypes'
    <2>1. /\ down' \in Seq(Downs) /\ up' \in [Conns -> Seq(Frames)]
          /\ UNCHANGED <<link, conn, drops, pending, receiveVars>>
      BY DEF HandOver, ServerTask, TypeInv, PhoneTypes
    <2> QED
      BY <2>1, ServerType DEF TypeInv
  <1>2. CallTypes'
    BY DEF HandOver, pcVars, TypeInv, CallTypes, PcTypeOK, IdxInv
  <1>3. PICK t, k : t = handing[c].t /\ k = handing[c].k
    OBVIOUS
  <1>4. k \in Nat /\ acks \in [Transfers -> Seq(Nat)]
    BY <1>3 DEF TypeInv, GoTypes
  <1>5. handing' \in [Conns -> [kind : {"ack"}, t : Ids, k : Nat]]
    <2>1. NoAck \in [kind : {"ack"}, t : Ids, k : Nat]
      BY DEF NoAck, Ack, Ids
    <2> QED
      BY <2>1 DEF HandOver, TypeInv, GoTypes
  <1>6. CASE t \in registered /\ Len(acks[t]) < ChanCap
    <2>1. t \in Transfers /\ acks' = [acks EXCEPT ![t] = Append(@, k)]
      BY <1>3, <1>6 DEF HandOver, TypeInv, GoTypes
    <2>2. /\ Append(acks[t], k) \in Seq(Nat)
          /\ Len(Append(acks[t], k)) = Len(acks[t]) + 1
          /\ Len(acks[t]) \in Nat
      BY <1>4, <2>1, AppendProperties, LenProperties
    <2>3. Len(Append(acks[t], k)) <= ChanCap
      BY <1>6, <2>2, GoAssumption
    <2>4. GoTypes'
      BY <1>3, <1>4, <1>5, <1>6, <2>1, <2>2, <2>3
      DEF HandOver, TypeInv, GoTypes
    <2> QED
      BY <1>1, <1>2, <2>4 DEF TypeInv
  <1>7. CASE UNCHANGED acks
    <2>1. GoTypes'
      BY <1>5, <1>7 DEF HandOver, TypeInv, GoTypes
    <2> QED
      BY <1>1, <1>2, <2>1 DEF TypeInv
  <1> QED
    BY <1>3, <1>6, <1>7 DEF HandOver

\* Every step keeps the types.
LEMMA TypeStep ==
  ASSUME TypeInv, [Next]_vars
  PROVE  TypeInv'
  <1>0. UNCHANGED goVars => GoTypes'
    BY DEF goVars, TypeInv, GoTypes
  <1>1. ASSUME NEW t \in Transfers, SendStep(t)
        PROVE  TypeInv'
    BY <1>1, SendStepTypes
  <1>2. CASE ClientStep
    <2>1. ASSUME NEW c \in Conns, HandleAck(c) \/ HandOver(c)
          PROVE  TypeInv'
      BY <2>1, HandleAckTypes, HandOverTypes
    <2>2. ASSUME NEW c \in Conns, Authenticate(c), UNCHANGED goVars
          PROVE  TypeInv'
      BY <1>0, <2>2, AuthenticateType DEF TypeInv
    <2>3. ASSUME ForgetClient, UNCHANGED goVars
          PROVE  TypeInv'
      BY <1>0, <2>3, ForgetType DEF TypeInv
    <2> QED
      BY <1>2, <2>1, <2>2, <2>3 DEF ClientStep
  <1>3. CASE PhoneStep
    <2>1. PhoneTypes'
      BY <1>3, ArrivalType, TaskType DEF PhoneStep, TypeInv
    <2> QED
      BY <1>0, <1>3, <2>1
      DEF PhoneStep, pcVars, TypeInv, CallTypes, PcTypeOK, IdxInv
  <1>4. CASE SocketStep
    <2>1. PhoneTypes'
      BY <1>4, SocketType DEF SocketStep, SocketMoves, TypeInv
    <2> QED
      BY <1>0, <1>4, <2>1
      DEF SocketStep, pcVars, TypeInv, CallTypes, PcTypeOK, IdxInv
  <1>5. CASE UNCHANGED vars
    <2>1. PhoneTypes'
      BY <1>5, ServerType DEF vars, socketVars, TypeInv, PhoneTypes
    <2> QED
      BY <1>0, <1>5, <2>1
      DEF vars, pcVars, TypeInv, CallTypes, PcTypeOK, IdxInv
  <1> QED
    BY <1>1, <1>2, <1>3, <1>4, <1>5 DEF Next

\* The types hold at the start.
LEMMA TypeInit ==
  ASSUME Init
  PROVE  TypeInv
  <1>1. GoTypes
    <2>1. <<>> \in Seq(Nat) /\ Len(<<>>) = 0
      BY EmptySeq
    <2>2. NoAck \in [kind : {"ack"}, t : Ids, k : Nat]
      BY DEF NoAck, Ack, Ids
    <2> QED
      BY <2>1, <2>2, GoAssumption DEF Init, GoTypes
  <1> QED
    BY <1>1, StartType DEF Init, TypeInv

\* Every variable has its type in every reachable state; an ACK channel is
\* never filled beyond its capacity.
THEOREM TypeCorrect == Spec => []TypeOK
  <1>1. Init => TypeInv
    BY TypeInit
  <1>2. TypeInv /\ [Next]_vars => TypeInv'
    BY TypeStep
  <1>3. TypeInv => TypeOK
    BY DEF TypeInv, PhoneTypes, CallTypes, GoTypes, TypeOK
  <1> QED
    BY <1>1, <1>2, <1>3, PTL DEF Spec

\* TypeInv for the theorems that start from it.
LEMMA Typed == Spec => []TypeInv
  <1>1. Init => TypeInv
    BY TypeInit
  <1>2. TypeInv /\ [Next]_vars => TypeInv'
    BY TypeStep
  <1> QED
    BY <1>1, <1>2, PTL DEF Spec

----------------------------------------------------------------------------
(* One send at a time. *)

\* What SendFile does to the channels, and to its own call.
LEMMA SendStepEffect ==
  ASSUME TypeInv, NEW t \in Transfers, SendStep(t)
  PROVE  /\ UNCHANGED <<receiveVars, up, pending, handing>>
         /\ \A u \in Transfers : u # t =>
              UNCHANGED <<spc[u], idx[u], acks[u]>>
         /\ \/ /\ DownFades /\ UNCHANGED <<down, idx, acks>>
               /\ \/ spc[t] # "done" /\ spc'[t] = "failed"
                  \/ spc[t] = "sent" /\ spc'[t] = "meta"
            \/ TakeAck(t)
            \/ \E g \in Downs :
                 /\ DownGains(g) /\ UNCHANGED <<idx, acks>>
                 /\ \/ /\ spc[t] = "idle" /\ spc'[t] = "sent"
                       /\ g = Meta(t) /\ Picks(t)
                    \/ /\ spc[t] = "reading" /\ spc'[t] = "chunk"
                       /\ g = Chunk(t, idx[t] + 1)
                    \/ /\ spc[t] = "reading" /\ spc'[t] = "done"
                       /\ g = End(t) /\ idx[t] = NumChunks[t]
  <1>0. /\ spc \in [Transfers -> SendStates] /\ DOMAIN idx = Transfers
        /\ DOMAIN acks = Transfers
        /\ Meta(t) \in Downs /\ End(t) \in Downs
        /\ Chunk(t, idx[t] + 1) \in Downs /\ PhoneTypes
    BY FrameTypes DEF TypeInv, CallTypes, PcTypeOK, GoTypes
  <1>1. /\ UNCHANGED <<receiveVars, up, pending, handing>>
        /\ \A u \in Transfers : u # t =>
             UNCHANGED <<spc[u], idx[u], acks[u]>>
    BY <1>0
    DEF SendStep, StartSend, Register, TakeAck, Advance, SendChunk, SendEnd,
        SendFails, Timeout, Return, CallStep, ServerTask, goVars
  <1>2. CASE StartSend(t)
    <2>1. CASE Reply(client, <<Meta(t)>>)
      <3>1. DownGains(Meta(t))
        BY <1>0, <2>1, ReplyGains
      <3>2. CASE spc'[t] = "sent"
        BY <1>0, <1>1, <1>2, <3>1, <3>2 DEF StartSend, Picks, goVars
      <3>3. CASE UNCHANGED down /\ spc'[t] = "failed"
        BY <1>0, <1>1, <1>2, <3>3, DownStays DEF StartSend, Picks, goVars
      <3> QED
        BY <1>0, <1>2, <3>2, <3>3 DEF StartSend
    <2>2. CASE UNCHANGED down /\ spc'[t] = "failed"
      BY <1>0, <1>1, <1>2, <2>2, DownStays DEF StartSend, Picks, goVars
    <2> QED
      BY <1>0, <1>2, <2>1, <2>2 DEF StartSend
  <1>3. CASE Register(t)
    <2>1. DownFades /\ UNCHANGED <<down, idx, acks>>
      BY <1>3, DownStays DEF Register
    <2> QED
      BY <1>0, <1>1, <1>3, <2>1 DEF Register
  <1>4. CASE SendChunk(t)
    <2>1. DownGains(Chunk(t, idx[t] + 1))
      BY <1>0, <1>4, ReplyGains DEF SendChunk
    <2> QED
      BY <1>0, <1>1, <1>4, <2>1 DEF SendChunk, goVars
  <1>5. CASE SendEnd(t)
    <2>1. DownGains(End(t))
      BY <1>0, <1>5, ReplyGains DEF SendEnd
    <2> QED
      BY <1>0, <1>1, <1>5, <2>1 DEF SendEnd, Return
  <1>6. CASE SendFails(t) \/ Timeout(t)
    <2>1. DownFades /\ UNCHANGED <<down, idx, acks>>
      BY <1>6, DownStays DEF SendFails, Timeout, Return
    <2> QED
      BY <1>0, <1>1, <1>6, <2>1 DEF SendFails, Timeout, Return
  <1>7. CASE TakeAck(t)
    BY <1>1, <1>7
  <1> QED
    BY <1>2, <1>3, <1>4, <1>5, <1>6, <1>7 DEF SendStep

\* A call that failed stays so, and one that is done.
LEMMA StaysEnded ==
  ASSUME TypeInv, [Next]_vars
  PROVE  /\ Clean' => Clean
         /\ \A u \in Transfers : spc[u] = "done" => spc'[u] = "done"
  <1>1. ASSUME NEW u \in Transfers, spc[u] \in {"done", "failed"}
        PROVE  spc'[u] = spc[u]
    <2>1. ASSUME NEW t \in Transfers, SendStep(t)
          PROVE  spc'[u] = spc[u]
      <3>1. spc[t] \notin {"done", "failed"}
        BY <2>1 DEF SendStep, StartSend, Register, TakeAck, SendChunk,
                    SendEnd, SendFails, Timeout, Picks
      <3> QED
        BY <1>1, <2>1, <3>1, SendStepEffect
    <2>2. CASE UNCHANGED spc
      BY <2>2
    <2> QED
      BY <2>1, <2>2
      DEF Next, ClientStep, HandleAck, HandOver, Authenticate, ForgetClient,
          PhoneStep, SocketStep, pcVars, vars
  <1> QED
    BY <1>1 DEF Clean

\* No second call starts while one runs.
LEMMA OneSenderStep ==
  ASSUME ~ Overlap, TypeInv, OneSender, [Next]_vars
  PROVE  OneSender'
  <1>1. ASSUME NEW t \in Transfers, SendStep(t)
        PROVE  OneSender'
    <2>1. \A u \in Transfers : u # t => spc'[u] = spc[u]
      BY <1>1, SendStepEffect
    <2>2. CASE spc[t] = "idle"
      <3>1. StartSend(t)
        BY <1>1, <2>2 DEF SendStep, Register, TakeAck, SendChunk, SendEnd,
                          SendFails, Timeout
      <3>2. \A u \in Transfers : ~ Sending(u)
        BY <3>1 DEF StartSend, Picks
      <3> QED
        BY <2>1, <3>2 DEF OneSender, Sending
    <2>3. CASE spc[t] # "idle"
      <3>1. Sending(t)
        BY <1>1, <2>3
        DEF SendStep, StartSend, Picks, Register, TakeAck, SendChunk,
            SendEnd, SendFails, Timeout, Sending
      <3> QED
        BY <2>1, <3>1 DEF OneSender, Sending
    <2> QED
      BY <2>2, <2>3
  <1>2. UNCHANGED spc => OneSender'
    BY DEF OneSender, Sending
  <1> QED
    BY <1>1, <1>2
    DEF Next, ClientStep, HandleAck, HandOver, Authenticate, ForgetClient,
        PhoneStep, SocketStep, pcVars, vars

\* What the server holds of t stays what t waits for.
LEMMA StaysHeld ==
  ASSUME NEW t \in Transfers, Held(t), StaysAnswered(t),
         UNCHANGED <<acks[t], handing>>
  PROVE  Held(t)'
  BY DEF Held, StaysAnswered

\* Where nothing can be held of t, nothing is.
LEMMA NothingHeld ==
  ASSUME NEW t \in Transfers, Held(t), \A k : ~ Answered(t, k)
  PROVE  /\ \A c \in Conns : handing[c].t # t
         /\ acks[t] = <<>>
         /\ UNCHANGED <<acks[t], handing>> => Held(t)'
  BY DEF Held

\* SendFile's steps.
LEMMA SendStepHeld ==
  ASSUME OneSendInv, Clean, Clean', NEW t \in Transfers, SendStep(t),
         NEW u \in Transfers
  PROVE  CallInv(u)' /\ Held(u)'
  <1>0. /\ TypeInv /\ PhoneTypes /\ PcTypeOK /\ OneSender
        /\ \A s \in Transfers : CallInv(s) /\ Held(s)
    BY DEF OneSendInv, CallsInv, HeldInv, TypeInv, CallTypes
  <1>1. /\ AcksFade /\ UNCHANGED <<receiveVars, up, pending, handing>>
        /\ spc'[t] # "failed"
    BY <1>0, SendStepEffect, UnchangedFade DEF Clean
  <1>2. CASE u # t
    <2>1. UNCHANGED <<spc[u], idx[u], acks[u]>>
      BY <1>0, <1>2, SendStepEffect
    <2>2. DownFades \/ \E g : g.t = t /\ DownGains(g)
      <3>1. TakeAck(t) => DownFades
        BY DownStays DEF TakeAck
      <3> QED
        BY <1>0, <3>1, SendStepEffect DEF Meta, Chunk, End
    <2>3. CallInv(u)' /\ StaysAnswered(u)
      BY <1>0, <1>1, <1>2, <2>1, <2>2, OtherKeepsCall
    <2> QED
      BY <1>0, <1>1, <2>1, <2>3, StaysHeld
  <1>3. CASE u = t /\ spc[t] = "sent" /\ spc'[t] = "meta" /\ DownFades
               /\ UNCHANGED <<idx, acks>>
    <2>1. RestsFor(t)
      BY <1>1, <1>3 DEF RestsFor, receiveVars
    <2>2. CallInv(t)' /\ StaysAnswered(t)
      BY <1>0, <1>1, <1>3, <2>1, Fading, Undisturbed
    <2> QED
      BY <1>0, <1>1, <1>3, <2>2, StaysHeld
  <1>4. CASE u = t /\ TakeAck(t)
    <2>1. /\ spc[t] \in {"meta", "chunk"} /\ acks[t] # <<>>
          /\ acks' = [acks EXCEPT ![t] = Tail(@)]
          /\ UNCHANGED <<down, handing>>
      BY <1>4 DEF TakeAck
    <2>2. PICK k \in Nat : acks[t] = <<k>> /\ Answered(t, k)
      BY <1>0, <2>1 DEF Held
    <2>3. Head(acks[t]) = k /\ acks'[t] = <<>>
      BY <1>0, <2>1, <2>2 DEF TypeInv, GoTypes
    <2>4. Matches(t, k)
      BY <2>1, <2>2 DEF Answered, Matches
    <2>5. spc'[t] = "reading" /\ idx'[t] = k
      BY <1>0, <1>4, <2>3, <2>4 DEF TakeAck, Advance, PcTypeOK
    <2>6. CallInv(t)'
      BY <1>0, <1>1, <2>1, <2>2, <2>5, AnswerAccepted
    <2>7. \A c \in Conns : handing'[c].t # t
      BY <1>0, <2>1 DEF Held
    <2>8. Held(t)'
      BY <2>3, <2>7 DEF Held
    <2> QED
      BY <1>4, <2>6, <2>8
  <1>5. ASSUME u = t, NEW g \in Downs, DownGains(g),
               UNCHANGED <<idx, acks>>,
               \/ /\ spc[t] = "idle" /\ spc'[t] = "sent" /\ g = Meta(t)
               \/ /\ spc[t] = "reading" /\ spc'[t] = "chunk"
                  /\ g = Chunk(t, idx[t] + 1)
               \/ /\ spc[t] = "reading" /\ spc'[t] = "done"
                  /\ g = End(t) /\ idx[t] = NumChunks[t]
        PROVE  CallInv(t)' /\ Held(t)'
    <2>1. CallInv(t)'
      BY <1>0, <1>1, <1>5, MetaSent, ChunkSent, EndSent
    <2>2. \A k : ~ Answered(t, k)
      BY <1>5 DEF Answered
    <2> QED
      BY <1>0, <1>1, <1>5, <2>1, <2>2, NothingHeld
  <1> QED
    BY <1>0, <1>1, <1>2, <1>3, <1>4, <1>5, SendStepEffect

\* A goroutine takes an ACK off its connection.
LEMMA HandleAckHeld ==
  ASSUME OneSendInv, Clean, NEW c \in Conns, HandleAck(c),
         NEW u \in Transfers
  PROVE  CallInv(u)' /\ Held(u)'
  <1>0. /\ TypeInv /\ PhoneTypes /\ PcTypeOK
        /\ \A s \in Transfers : CallInv(s) /\ Held(s)
    BY DEF OneSendInv, CallsInv, HeldInv, TypeInv, CallTypes
  <1>1. PICK f : f = Head(up[c])
    OBVIOUS
  <1>2. /\ TakeFrame(c, "ack") /\ handing[c] = NoAck
        /\ handing' = [handing EXCEPT ![c] =
                         IF f.t \in registered THEN f ELSE @]
        /\ UNCHANGED <<down, spc, idx, acks, receiveVars>>
    BY <1>1 DEF HandleAck, Idle, pcVars
  <1>3. AckIn(f) /\ AcksFade /\ DownFades
    BY <1>0, <1>1, <1>2, TakeLoses, DownStays DEF TakeFrame
  <1>4. CASE u = f.t
    <2>1. CallInv(u)' /\ Answered(u, f.k)'
      BY <1>0, <1>1, <1>2, <1>4, AckTaken
    <2>2. \A k : ~ Answered(u, k)
      BY <1>3, <1>4 DEF Answered, NoAckOf
    <2>3. (\A d \in Conns : handing[d].t # u) /\ acks[u] = <<>>
      BY <1>0, <2>2, NothingHeld
    <2>4. /\ \A d \in Conns : handing'[d].t = u => d = c
          /\ handing'[c].t = u => handing'[c] = f
      BY <1>0, <1>2, <2>3 DEF TypeInv, GoTypes
    <2>5. Held(u)'
      BY <1>2, <2>1, <2>3, <2>4 DEF Held
    <2> QED
      BY <2>1, <2>5
  <1>5. CASE u # f.t
    <2>1. RestsFor(u)
      BY <1>2 DEF RestsFor, receiveVars
    <2>2. CallInv(u)' /\ StaysAnswered(u)
      BY <1>0, <1>3, <2>1, Fading, Undisturbed
    <2>3. /\ handing'[c].t # u /\ handing[c].t # u
          /\ \A d \in Conns : d # c => handing'[d] = handing[d]
      <3>1. handing[c].t # u
        BY <1>2, PhoneReceiveAssumption DEF NoAck, Ack
      <3> QED
        BY <1>0, <1>2, <1>5, <3>1 DEF TypeInv, GoTypes
    <2>4. Held(u)'
      BY <1>0, <1>2, <2>2, <2>3 DEF Held, StaysAnswered
    <2> QED
      BY <2>2, <2>4
  <1> QED
    BY <1>4, <1>5

\* It hands the ACK over: there is room for it.
LEMMA HandOverHeld ==
  ASSUME OneSendInv, Clean, NEW c \in Conns, HandOver(c),
         NEW u \in Transfers
  PROVE  CallInv(u)' /\ Held(u)'
  <1>0. /\ TypeInv /\ PhoneTypes /\ PcTypeOK
        /\ \A s \in Transfers : CallInv(s) /\ Held(s)
    BY DEF OneSendInv, CallsInv, HeldInv, TypeInv, CallTypes
  <1>1. PICK t, k : t = handing[c].t /\ k = handing[c].k
    OBVIOUS
  <1>2. /\ UNCHANGED <<down, pending, up, spc, idx, receiveVars>>
        /\ handing' = [handing EXCEPT ![c] = NoAck]
    BY DEF HandOver, ServerTask, pcVars
  <1>3. CallInv(u)' /\ StaysAnswered(u)
    BY <1>0, <1>2, DownStays, UnchangedFade, RestKeepsCall
  <1>4. /\ handing'[c].t # u
        /\ \A d \in Conns : d # c => handing'[d] = handing[d]
        /\ k \in Nat
    BY <1>0, <1>1, <1>2, PhoneReceiveAssumption
    DEF NoAck, Ack, TypeInv, GoTypes
  <1>5. CASE u # t
    <2>1. acks'[u] = acks[u]
      BY <1>0, <1>1, <1>5 DEF HandOver, TypeInv, GoTypes
    <2>2. Held(u)'
      BY <1>0, <1>3, <1>4, <2>1 DEF Held, StaysAnswered
    <2> QED
      BY <1>3, <2>2
  <1>6. CASE u = t
    <2>1. /\ Answered(u, k) /\ acks[u] = <<>>
          /\ \A d \in Conns : handing[d].t = u => d = c
      BY <1>0, <1>1, <1>6 DEF Held
    <2>2. acks'[u] \in {<<>>, <<k>>}
      <3>1. Append(acks[u], k) = <<k>>
        BY <2>1
      <3> QED
        BY <1>0, <1>1, <1>6, <2>1, <3>1 DEF HandOver, TypeInv, GoTypes
    <2>3. \A d \in Conns : handing'[d].t # u
      BY <1>4, <2>1
    <2>4. Answered(u, k)'
      BY <1>3, <2>1 DEF StaysAnswered
    <2>5. Held(u)'
      BY <1>4, <2>2, <2>3, <2>4 DEF Held
    <2> QED
      BY <1>3, <2>5
  <1> QED
    BY <1>5, <1>6

\* What holds of each call, and of what the server holds for it, is kept.
LEMMA CallsStep ==
  ASSUME OneSendInv, [Next]_vars
  PROVE  CallsInv' /\ HeldInv'
  <1> SUFFICES ASSUME Clean', NEW u \in Transfers
               PROVE  CallInv(u)' /\ Held(u)'
    BY DEF CallsInv, HeldInv
  <1>0. /\ TypeInv /\ PhoneTypes /\ PcTypeOK /\ OneSender /\ Clean
        /\ \A t \in Transfers : CallInv(t) /\ Held(t)
    BY StaysEnded DEF OneSendInv, CallsInv, HeldInv, TypeInv, CallTypes
  <1>1. ASSUME NEW t \in Transfers, SendStep(t)
        PROVE  CallInv(u)' /\ Held(u)'
    BY <1>0, <1>1, SendStepHeld
  <1>2. ASSUME NEW c \in Conns, HandleAck(c) \/ HandOver(c)
        PROVE  CallInv(u)' /\ Held(u)'
    BY <1>0, <1>2, HandleAckHeld, HandOverHeld
  <1>3. ASSUME CallInv(u)' /\ StaysAnswered(u), UNCHANGED goVars
        PROVE  CallInv(u)' /\ Held(u)'
    BY <1>0, <1>3, StaysHeld DEF goVars
  <1>4. CASE /\ (\E c \in Conns : Authenticate(c)) \/ ForgetClient
             /\ UNCHANGED goVars
    BY <1>0, <1>3, <1>4, AuthKeepsCall
  <1>5. CASE PhoneStep
    BY <1>0, <1>3, <1>5, PhoneKeepsCall DEF PhoneStep
  <1>6. CASE SocketStep
    BY <1>0, <1>3, <1>6, SocketKeepsCall DEF SocketStep, SocketMoves
  <1>7. CASE UNCHANGED vars
    <2>1. UNCHANGED <<spc, idx, receiveVars, down, pending, up, goVars>>
      BY <1>7 DEF vars, socketVars, pcVars
    <2> QED
      BY <1>0, <1>3, <2>1, DownStays, UnchangedFade, RestKeepsCall
  <1> QED
    BY <1>1, <1>2, <1>4, <1>5, <1>6, <1>7 DEF Next, ClientStep

\* Nor is FILE_END sent by a call that does not succeed.
LEMMA DoneStep ==
  ASSUME TypeInv, DoneInv, [Next]_vars
  PROVE  DoneInv'
  <1>0. /\ PhoneTypes
        /\ \A t \in Transfers : spc[t] = "done" => spc'[t] = "done"
    BY StaysEnded DEF TypeInv
  <1>1. ASSUME NEW t \in Transfers, SendStep(t)
        PROVE  DoneInv'
    <2>1. UNCHANGED fin
      BY <1>1, SendStepEffect DEF receiveVars
    <2>2. \/ DownFades
          \/ \E g : /\ DownGains(g)
                    /\ \A u \in Transfers : g = End(u) => spc'[u] = "done"
      <3>1. \A u \in Transfers, k \in Nat :
              Meta(t) # End(u) /\ Chunk(t, k) # End(u)
        BY DEF Meta, Chunk, End
      <3>2. \A u \in Transfers : End(t) = End(u) => t = u
        BY DEF End
      <3>3. idx[t] + 1 \in Nat
        BY DEF TypeInv, CallTypes, PcTypeOK
      <3>4. TakeAck(t) => DownFades
        BY DownStays DEF TakeAck
      <3> QED
        BY <1>1, <3>1, <3>2, <3>3, <3>4, SendStepEffect
    <2> QED
      BY <1>0, <2>1, <2>2, RestKeepsDone
  <1>2. CASE ClientStep
    <2>1. UNCHANGED <<fin, down>>
      BY <1>2
      DEF ClientStep, HandleAck, HandOver, ServerTask, Authenticate,
          ForgetClient, receiveVars, socketVars
    <2> QED
      BY <1>0, <2>1, DownStays, RestKeepsDone
  <1>3. CASE PhoneStep
    BY <1>0, <1>3, PhoneKeepsDone DEF PhoneStep
  <1>4. CASE SocketStep
    <2>1. DownFades /\ UNCHANGED fin
      BY <1>0, <1>4, SocketDown DEF SocketStep, SocketMoves, receiveVars
    <2> QED
      BY <1>0, <2>1, RestKeepsDone
  <1>5. CASE UNCHANGED vars
    <2>1. UNCHANGED <<fin, down>>
      BY <1>5 DEF vars, socketVars, receiveVars
    <2> QED
      BY <1>0, <2>1, DownStays, RestKeepsDone
  <1> QED
    BY <1>1, <1>2, <1>3, <1>4, <1>5 DEF Next

\* A server that runs one SendFile at a time has, of the running call, one
\* thing under way at most, until a call is given up: META or a chunk on its
\* way, the phone's work on it, its ACK on the way back, in the hands of a
\* goroutine or in the call's channel (SendFile, handleAck).
THEOREM GoOneSend == ~ Overlap => (Spec => []OneSendInv)
  <1> SUFFICES ASSUME ~ Overlap
               PROVE  Spec => []OneSendInv
    OBVIOUS
  <1>1. Init => OneSendInv
    <2> SUFFICES ASSUME Init
                 PROVE  OneSendInv
      OBVIOUS
    <2>1. HeldInv
      BY PhoneReceiveAssumption DEF Init, HeldInv, Held, NoAck, Ack
    <2> QED
      BY <2>1, TypeInit, CallsInit, SaveInit DEF Init, OneSendInv
  <1>2. OneSendInv /\ [Next]_vars => OneSendInv'
    BY TypeStep, OneSenderStep, CallsStep, DoneStep DEF OneSendInv
  <1> QED
    BY <1>1, <1>2, PTL DEF Spec

\* A running or successful call has had acknowledged what the phone holds,
\* or all of it but the last chunk (SendFile, _handleBinary).
THEOREM GoAcked == ~ Overlap => (Spec => []AckedMeansCollected)
  <1> SUFFICES ASSUME ~ Overlap
               PROVE  Spec => []AckedMeansCollected
    OBVIOUS
  <1>1. OneSendInv => AckedMeansCollected
    BY CollectedInv DEF OneSendInv, TypeInv
  <1> QED
    BY <1>1, GoOneSend, PTL

\* Where each transfer has a file of its own, a file that was flushed and
\* reported holds what was sent, once and in order (_handleFileEnd).
THEOREM GoSaved == ~ Overlap /\ OwnFiles => (Spec => []SavedIsComplete)
  <1> SUFFICES ASSUME ~ Overlap, OwnFiles
               PROVE  Spec => []SavedIsComplete
    OBVIOUS
  <1>1. Init => SaveInv
    BY SaveInit DEF Init
  <1>2. ASSUME OneSendInv, SaveInv, [Next]_vars
        PROVE  SaveInv'
    <2>1. /\ PhoneTypes /\ PcTypeOK /\ (Clean' => Clean)
          /\ CallsInv
      BY <1>2, StaysEnded DEF OneSendInv, TypeInv, CallTypes
    <2>2. CASE UNCHANGED receiveVars
      BY <1>2, <2>1, <2>2, RestKeepsSave
    <2>3. CASE PhoneStep /\ Clean
      BY <1>2, <2>1, <2>3, PhoneKeepsSave DEF PhoneStep, CallsInv
    <2>4. CASE ~ Clean
      BY <2>1, <2>4 DEF SaveInv
    <2> QED
      BY <1>2, <2>2, <2>3, <2>4, SendStepEffect
      DEF Next, ClientStep, HandleAck, HandOver, ServerTask, Authenticate,
          ForgetClient, SocketStep, vars, OneSendInv
  <1>3. OneSendInv /\ SaveInv => SavedIsComplete
    BY SavedInv DEF OneSendInv, TypeInv, CallTypes
  <1> QED
    BY <1>1, <1>2, <1>3, GoOneSend, PTL DEF Spec

\* Only a call that runs has its channel in the map.
LEMMA RegisteredStep ==
  ASSUME TypeInv, RegisteredInv, [Next]_vars
  PROVE  RegisteredInv'
  <1>1. ASSUME NEW t \in Transfers, SendStep(t)
        PROVE  RegisteredInv'
    <2>1. \A u \in Transfers : u # t => spc'[u] = spc[u]
      BY <1>1, SendStepEffect
    <2>2. /\ registered' \subseteq registered \cup {t}
          /\ t \in registered' => spc'[t] \in {"meta", "reading", "chunk"}
      BY <1>1
      DEF SendStep, StartSend, Picks, Register, TakeAck, Advance, SendChunk,
          SendEnd, SendFails, Timeout, Return, goVars, RegisteredInv, TypeInv,
          GoTypes, CallTypes, PcTypeOK
    <2> QED
      BY <2>1, <2>2 DEF RegisteredInv, TypeInv, GoTypes
  <1>2. UNCHANGED <<spc, registered>> => RegisteredInv'
    BY DEF RegisteredInv
  <1> QED
    BY <1>1, <1>2
    DEF Next, ClientStep, HandleAck, HandOver, Authenticate, ForgetClient,
        PhoneStep, SocketStep, pcVars, goVars, vars

\* The channel of a call that waits holds no ACK of a chunk that was not
\* sent, nor two of the same: the select takes no stale ACK for an answer
\* (SendFile, handleAck).
THEOREM GoNoEarlyAck == ~ Overlap => (Spec => []NoEarlyAck)
  <1> SUFFICES ASSUME ~ Overlap
               PROVE  Spec => []NoEarlyAck
    OBVIOUS
  <1>1. Init => RegisteredInv
    BY DEF Init, RegisteredInv
  <1>2. TypeInv /\ RegisteredInv /\ [Next]_vars => RegisteredInv'
    BY RegisteredStep
  <1>3. ASSUME OneSendInv, RegisteredInv
        PROVE  NoEarlyAck
    <2> SUFFICES ASSUME NEW t \in registered, AloneFailing(t)
                 PROVE  /\ \A i \in DOMAIN acks[t] :
                             acks[t][i] <= IF spc[t] = "chunk"
                                           THEN idx[t] + 1 ELSE idx[t]
                        /\ \A i, j \in DOMAIN acks[t] :
                             acks[t][i] = acks[t][j] => i = j
      BY DEF NoEarlyAck
    <2>1. t \in Transfers /\ idx[t] \in Nat
      BY <1>3 DEF OneSendInv, TypeInv, GoTypes, CallTypes, PcTypeOK
    <2>2. Clean
      BY <1>3, <2>1 DEF RegisteredInv, AloneFailing, Clean
    <2>3. acks[t] # <<>> => \E k \in Nat : acks[t] = <<k>> /\ Answered(t, k)
      BY <1>3, <2>1, <2>2 DEF OneSendInv, HeldInv, Held
    <2>4. CASE acks[t] = <<>>
      BY <2>4
    <2>5. CASE acks[t] # <<>>
      <3>1. PICK k \in Nat : acks[t] = <<k>> /\ Answered(t, k)
        BY <2>3, <2>5
      <3>2. DOMAIN acks[t] = {1} /\ acks[t][1] = k
        BY <3>1
      <3>3. k <= IF spc[t] = "chunk" THEN idx[t] + 1 ELSE idx[t]
        BY <2>1, <3>1 DEF Answered
      <3> QED
        BY <3>2, <3>3
    <2> QED
      BY <2>4, <2>5
  <1>4. OneSendInv => TypeInv
    BY DEF OneSendInv
  <1> QED
    BY <1>1, <1>2, <1>3, <1>4, GoOneSend, PTL DEF Spec

=============================================================================
