-------------------------- MODULE NodeToPhone_proofs --------------------------
(***************************************************************************)
(* Theorems about NodeToPhone, for any number of transfers, chunks,        *)
(* connections and drops, checked by TLAPS.                                *)
(***************************************************************************)
EXTENDS NodeToPhone, Receiving_proofs

USE DEF Conns, SocketTypes

\* TypeOK, and what makes it inductive.
TypeInv == PhoneTypes /\ CallTypes /\ callbacks \subseteq Transfers

\* What holds while one sendFile runs at a time.
OneSendInv == TypeInv /\ OneSender /\ CallsInv /\ DoneInv

----------------------------------------------------------------------------
(* Types. *)

\* What sendFile sends is one of the PC's frames.
LEMMA SendStepTypes ==
  ASSUME TypeInv, NEW t \in Transfers, SendStep(t)
  PROVE  TypeInv'
  <1>0. PhoneTypes /\ idx[t] \in Nat /\ idx[t] + 1 \in Nat
    BY DEF TypeInv, CallTypes, PcTypeOK
  <1>1. UNCHANGED <<link, conn, drops, pending, up, receiveVars, client>>
    BY DEF SendStep, StartSend, SendMeta, SendChunk, SendEnd, FileFails,
           Timeout, ServerTask
  <1>2. down' \in Seq(Downs)
    <2>1. CASE UNCHANGED down
      BY <1>0, <2>1 DEF PhoneTypes
    <2>2. ASSUME NEW g \in Downs, Reply(via[t], <<g>>)
          PROVE  down' \in Seq(Downs)
      BY <1>0, <2>2, ReplyType
    <2> QED
      BY <1>0, <2>1, <2>2, FrameTypes
      DEF SendStep, StartSend, SendMeta, SendChunk, SendEnd, FileFails,
          Timeout
  <1>3. PhoneTypes'
    <2>1. up' \in [Conns -> Seq(Frames)]
      BY <1>0, <1>1 DEF PhoneTypes
    <2> QED
      BY <1>0, <1>1, <1>2, <2>1, ServerType
  <1>4. callbacks' \subseteq Transfers
    BY DEF TypeInv, SendStep, StartSend, SendMeta, SendChunk, SendEnd,
           FileFails, Timeout
  <1>5. CASE StartSend(t)
    <2>1. CallTypes'
      BY <1>5
      DEF StartSend, Picks, TypeInv, CallTypes, PcTypeOK, IdxInv, SendStates
    <2> QED
      BY <1>3, <1>4, <2>1 DEF TypeInv
  <1>6. CASE \/ SendMeta(t) \/ SendChunk(t) \/ SendEnd(t)
             \/ FileFails(t) \/ Timeout(t)
    <2>1. CallTypes'
      BY <1>1, <1>6
      DEF SendMeta, SendChunk, SendEnd, FileFails, Timeout, TypeInv,
          CallTypes, PcTypeOK, IdxInv, SendStates
    <2> QED
      BY <1>3, <1>4, <2>1 DEF TypeInv
  <1> QED
    BY <1>5, <1>6 DEF SendStep

\* An ACK the listener takes moves the call its callback belongs to.
LEMMA AckTypes ==
  ASSUME TypeInv, NEW c \in Conns, HandleAck(c)
  PROVE  TypeInv'
  <1>1. PICK f : f = Head(up[c])
    OBVIOUS
  <1>2. f \in Frames /\ up' \in [Conns -> Seq(Frames)]
    BY <1>1, TakeType DEF TypeInv, HandleAck
  <1>3. PhoneTypes'
    <2>1. down' \in Seq(Downs)
      BY DEF HandleAck, TypeInv, PhoneTypes
    <2> QED
      BY <1>2, <2>1, ServerType DEF HandleAck, TakeFrame, TypeInv
  <1>4. CASE f.t \in callbacks /\ Matches(f.t, f.k)
    <2>1. PICK t \in Transfers : t = f.t
      BY <1>4 DEF TypeInv
    <2>2. /\ spc' = [spc EXCEPT ![t] = "reading"]
          /\ idx' = [idx EXCEPT ![t] = f.k]
          /\ UNCHANGED <<via, client, callbacks>>
      BY <1>1, <1>4, <2>1 DEF HandleAck, Advance
    <2>3. f.k \in Nat /\ f.k <= NumChunks[t] /\ idx[t] \in Nat
      BY <1>4, <2>1, PhoneReceiveAssumption
      DEF Matches, TypeInv, CallTypes, PcTypeOK, IdxInv
    <2>4. CallTypes'
      BY <2>2, <2>3 DEF TypeInv, CallTypes, PcTypeOK, IdxInv, SendStates
    <2> QED
      BY <1>3, <2>2, <2>4 DEF TypeInv
  <1>5. CASE UNCHANGED <<spc, idx, via, client, callbacks>>
    BY <1>3, <1>5 DEF TypeInv, CallTypes, PcTypeOK, IdxInv
  <1> QED
    BY <1>1, <1>4, <1>5 DEF HandleAck

\* Every step keeps the types.
LEMMA TypeStep ==
  ASSUME TypeInv, [Next]_vars
  PROVE  TypeInv'
  <1>1. ASSUME NEW t \in Transfers, SendStep(t)
        PROVE  TypeInv'
    BY <1>1, SendStepTypes
  <1>2. CASE ListenerStep
    <2>1. ASSUME NEW c \in Conns, HandleAck(c)
          PROVE  TypeInv'
      BY <2>1, AckTypes
    <2>2. ASSUME NEW c \in Conns, Authenticate(c), UNCHANGED callbacks
          PROVE  TypeInv'
      BY <2>2, AuthenticateType DEF TypeInv
    <2>3. ASSUME ForgetClient, UNCHANGED callbacks
          PROVE  TypeInv'
      BY <2>3, ForgetType DEF TypeInv
    <2> QED
      BY <1>2, <2>1, <2>2, <2>3 DEF ListenerStep
  <1>3. CASE PhoneStep
    <2>1. PhoneTypes'
      BY <1>3, ArrivalType, TaskType DEF PhoneStep, TypeInv
    <2> QED
      BY <1>3, <2>1
      DEF PhoneStep, pcVars, TypeInv, CallTypes, PcTypeOK, IdxInv
  <1>4. CASE SocketStep
    <2>1. PhoneTypes'
      BY <1>4, SocketType DEF SocketStep, SocketMoves, TypeInv
    <2> QED
      BY <1>4, <2>1
      DEF SocketStep, pcVars, TypeInv, CallTypes, PcTypeOK, IdxInv
  <1>5. CASE UNCHANGED vars
    <2>1. PhoneTypes'
      BY <1>5, ServerType DEF vars, socketVars, TypeInv, PhoneTypes
    <2> QED
      BY <1>5, <2>1 DEF vars, pcVars, TypeInv, CallTypes, PcTypeOK, IdxInv
  <1> QED
    BY <1>1, <1>2, <1>3, <1>4, <1>5 DEF Next

\* The types hold at the start.
LEMMA TypeInit ==
  ASSUME Init
  PROVE  TypeInv
  BY StartType DEF Init, TypeInv

\* Every variable has its type in every reachable state.
THEOREM TypeCorrect == Spec => []TypeOK
  <1>1. Init => TypeInv
    BY TypeInit
  <1>2. TypeInv /\ [Next]_vars => TypeInv'
    BY TypeStep
  <1>3. TypeInv => TypeOK
    BY DEF TypeInv, PhoneTypes, CallTypes, TypeOK
  <1> QED
    BY <1>1, <1>2, <1>3, PTL DEF Spec

\* TypeInv for the theorems that start from it.
LEMMA Typed == Spec => []TypeInv
  <1>1. Init => TypeInv
    BY TypeInit
  <1>2. TypeInv /\ [Next]_vars => TypeInv'
    BY TypeStep
  <1> QED
    BY <1>1, <1>2, PTL DEF Spec

----------------------------------------------------------------------------
(* One send at a time. *)

\* What sendFile does to the channels, and to its own call.
LEMMA SendStepEffect ==
  ASSUME TypeInv, NEW t \in Transfers, SendStep(t)
  PROVE  /\ AcksFade /\ UNCHANGED <<idx, receiveVars>>
         /\ \A u \in Transfers : u # t => spc'[u] = spc[u]
         /\ \/ /\ DownFades
               /\ \/ spc[t] = "idle" /\ spc'[t] = "stat" /\ Picks(t)
                  \/ spc[t] \notin {"idle", "done"} /\ spc'[t] = "failed"
            \/ \E g \in Downs :
                 /\ Reply(via[t], <<g>>) /\ DownGains(g)
                 /\ \/ /\ spc[t] = "stat" /\ spc'[t] = "meta"
                       /\ g = Meta(t)
                    \/ /\ spc[t] = "reading" /\ spc'[t] = "chunk"
                       /\ g = Chunk(t, idx[t] + 1)
                    \/ /\ spc[t] = "reading" /\ spc'[t] = "done"
                       /\ g = End(t) /\ idx[t] = NumChunks[t]
  <1>1. /\ UNCHANGED <<idx, receiveVars, up, pending>>
        /\ \A u \in Transfers : u # t => spc'[u] = spc[u]
    BY DEF SendStep, StartSend, SendMeta, SendChunk, SendEnd, FileFails,
           Timeout, ServerTask, TypeInv, CallTypes, PcTypeOK
  <1>2. AcksFade
    BY <1>1, UnchangedFade
  <1>3. CASE StartSend(t)
    <2>1. DownFades
      BY <1>3, DownStays DEF StartSend
    <2>2. spc[t] = "idle" /\ spc'[t] = "stat" /\ Picks(t)
      BY <1>3 DEF StartSend, Picks, TypeInv, CallTypes, PcTypeOK
    <2> QED
      BY <1>1, <1>2, <2>1, <2>2
  <1>4. CASE FileFails(t) \/ Timeout(t)
    <2>1. DownFades
      BY <1>4, DownStays DEF FileFails, Timeout
    <2>2. spc[t] \notin {"idle", "done"} /\ spc'[t] = "failed"
      BY <1>4 DEF FileFails, Timeout, TypeInv, CallTypes, PcTypeOK
    <2> QED
      BY <1>1, <1>2, <2>1, <2>2
  <1>5. CASE SendMeta(t) \/ SendChunk(t) \/ SendEnd(t)
    <2>1. PICK g \in Downs :
            /\ Reply(via[t], <<g>>)
            /\ \/ /\ spc[t] = "stat" /\ spc'[t] = "meta"
                  /\ g = Meta(t)
               \/ /\ spc[t] = "reading" /\ spc'[t] = "chunk"
                  /\ g = Chunk(t, idx[t] + 1)
               \/ /\ spc[t] = "reading" /\ spc'[t] = "done"
                  /\ g = End(t) /\ idx[t] = NumChunks[t]
      <3>1. /\ Meta(t) \in Downs /\ End(t) \in Downs
            /\ Chunk(t, idx[t] + 1) \in Downs
            /\ spc \in [Transfers -> SendStates]
        BY FrameTypes DEF TypeInv, CallTypes, PcTypeOK
      <3>2. CASE SendMeta(t)
        BY <3>1, <3>2 DEF SendMeta
      <3>3. CASE SendChunk(t)
        BY <3>1, <3>3 DEF SendChunk
      <3>4. CASE SendEnd(t)
        BY <3>1, <3>4 DEF SendEnd
      <3> QED
        BY <1>5, <3>2, <3>3, <3>4
    <2>2. DownGains(g)
      BY <2>1, ReplyGains DEF TypeInv
    <2> QED
      BY <1>1, <1>2, <2>1, <2>2
  <1> QED
    BY <1>3, <1>4, <1>5 DEF SendStep

\* What the listener does when it takes an ACK.
LEMMA AckEffect ==
  ASSUME TypeInv, NEW c \in Conns, HandleAck(c), NEW f, f = Head(up[c])
  PROVE  /\ AcksFade /\ DownFades /\ UNCHANGED receiveVars
         /\ \A u \in Transfers : u # f.t => UNCHANGED <<spc[u], idx[u]>>
         /\ \/ UNCHANGED <<spc, idx>>
            \/ /\ f.t \in Transfers /\ Matches(f.t, f.k)
               /\ spc'[f.t] = "reading" /\ idx'[f.t] = f.k
  <1>1. AcksFade
    BY TakeLoses DEF HandleAck, TakeFrame, TypeInv
  <1>2. DownFades /\ UNCHANGED receiveVars
    BY DownStays DEF HandleAck
  <1>3. CASE f.t \in callbacks /\ Matches(f.t, f.k)
    BY <1>1, <1>2, <1>3
    DEF HandleAck, Advance, TypeInv, CallTypes, PcTypeOK
  <1>4. CASE UNCHANGED <<spc, idx>>
    BY <1>1, <1>2, <1>4
  <1> QED
    BY <1>3, <1>4 DEF HandleAck

\* A call that failed stays so, and one that is done.
LEMMA StaysEnded ==
  ASSUME TypeInv, [Next]_vars
  PROVE  /\ Clean' => Clean
         /\ \A u \in Transfers : spc[u] = "done" => spc'[u] = "done"
  <1>1. ASSUME NEW u \in Transfers, spc[u] \in {"done", "failed"}
        PROVE  spc'[u] = spc[u]
    <2>1. ASSUME NEW t \in Transfers, SendStep(t)
          PROVE  spc'[u] = spc[u]
      <3>1. spc[t] \notin {"done", "failed"}
        BY <2>1 DEF SendStep, StartSend, SendMeta, SendChunk, SendEnd,
                    FileFails, Timeout, Picks
      <3> QED
        BY <1>1, <2>1, <3>1, SendStepEffect
    <2>2. ASSUME NEW c \in Conns, HandleAck(c)
          PROVE  spc'[u] = spc[u]
      BY <1>1, <2>2, AckEffect DEF Matches
    <2>3. CASE UNCHANGED spc
      BY <2>3
    <2> QED
      BY <2>1, <2>2, <2>3
      DEF Next, ListenerStep, Authenticate, ForgetClient, PhoneStep,
          SocketStep, pcVars, vars
  <1> QED
    BY <1>1 DEF Clean

\* No second call starts while one runs.
LEMMA OneSenderStep ==
  ASSUME ~ Overlap, TypeInv, OneSender, [Next]_vars
  PROVE  OneSender'
  <1>1. ASSUME NEW t \in Transfers, StartSend(t)
        PROVE  OneSender'
    <2>1. \A u \in Transfers : ~ Sending(u)
      BY <1>1 DEF StartSend, Picks
    <2>2. \A u \in Transfers : u # t => spc'[u] = spc[u]
      BY <1>1 DEF StartSend, TypeInv, CallTypes, PcTypeOK
    <2> QED
      BY <2>1, <2>2 DEF OneSender, Sending
  <1>2. ASSUME \A u \in Transfers : Sending(u)' => Sending(u)
        PROVE  OneSender'
    BY <1>2 DEF OneSender
  <1>3. ASSUME NEW t \in Transfers, SendStep(t), ~ StartSend(t)
        PROVE  \A u \in Transfers : Sending(u)' => Sending(u)
    BY <1>3
    DEF SendStep, SendMeta, SendChunk, SendEnd, FileFails, Timeout, Sending,
        TypeInv, CallTypes, PcTypeOK
  <1>4. ASSUME NEW c \in Conns, HandleAck(c)
        PROVE  \A u \in Transfers : Sending(u)' => Sending(u)
    BY <1>4, AckEffect DEF Matches, Sending
  <1>5. UNCHANGED spc => \A u \in Transfers : Sending(u)' => Sending(u)
    BY DEF Sending
  <1>6. CASE \E t \in Transfers : SendStep(t)
    BY <1>1, <1>2, <1>3, <1>6
  <1>7. CASE \E c \in Conns : HandleAck(c)
    BY <1>2, <1>4, <1>7
  <1>8. CASE UNCHANGED spc
    BY <1>2, <1>5, <1>8
  <1> QED
    BY <1>6, <1>7, <1>8
    DEF Next, ListenerStep, Authenticate, ForgetClient, PhoneStep,
        SocketStep, pcVars, vars

\* What holds of each call, and what follows of FILE_END, is kept.
LEMMA CallsStep ==
  ASSUME OneSendInv, [Next]_vars
  PROVE  CallsInv'
  <1> SUFFICES ASSUME Clean', NEW u \in Transfers
               PROVE  CallInv(u)'
    BY DEF CallsInv
  <1>0. /\ TypeInv /\ PhoneTypes /\ PcTypeOK /\ OneSender /\ Clean
        /\ \A t \in Transfers : CallInv(t)
    BY StaysEnded DEF OneSendInv, CallsInv, TypeInv, CallTypes
  <1>1. ASSUME NEW t \in Transfers, SendStep(t)
        PROVE  CallInv(u)'
    <2>0. /\ AcksFade /\ UNCHANGED <<idx, receiveVars>>
          /\ spc'[t] # "failed"
      BY <1>0, <1>1, SendStepEffect DEF Clean
    <2>1. CASE u # t
      <3>1. UNCHANGED <<spc[u], idx[u]>>
        BY <1>0, <1>1, <2>1, SendStepEffect
      <3>2. DownFades \/ \E g : g.t = t /\ DownGains(g)
        BY <1>0, <1>1, SendStepEffect DEF Meta, Chunk, End
      <3> QED
        BY <1>0, <2>0, <2>1, <3>1, <3>2, OtherKeepsCall
    <2>2. CASE u = t /\ spc[t] = "idle" /\ spc'[t] = "stat" /\ DownFades
      <3>1. RestsFor(u)
        BY <2>0, <2>2 DEF RestsFor, receiveVars
      <3> QED
        BY <1>0, <2>0, <2>2, <3>1, Fading, Undisturbed
    <2>3. ASSUME u = t, NEW g \in Downs, DownGains(g),
                 \/ /\ spc[t] = "stat" /\ spc'[t] = "meta" /\ g = Meta(t)
                 \/ /\ spc[t] = "reading" /\ spc'[t] = "chunk"
                    /\ g = Chunk(t, idx[t] + 1)
                 \/ /\ spc[t] = "reading" /\ spc'[t] = "done"
                    /\ g = End(t) /\ idx[t] = NumChunks[t]
          PROVE  CallInv(u)'
      BY <1>0, <2>0, <2>3, MetaSent, ChunkSent, EndSent
    <2> QED
      BY <1>0, <1>1, <2>0, <2>1, <2>2, <2>3, SendStepEffect
  <1>2. ASSUME NEW c \in Conns, HandleAck(c)
        PROVE  CallInv(u)'
    <2>1. PICK f : f = Head(up[c])
      OBVIOUS
    <2>2. CASE u = f.t
      <3>1. \/ UNCHANGED <<spc[u], idx[u]>>
            \/ spc'[u] = "reading" /\ idx'[u] = f.k
        BY <1>0, <1>2, <2>1, <2>2, AckEffect
      <3>2. TakeFrame(c, "ack") /\ UNCHANGED <<down, receiveVars>>
        BY <1>2 DEF HandleAck
      <3> QED
        BY <1>0, <2>1, <2>2, <3>1, <3>2, AckTaken
    <2>3. CASE u # f.t
      <3>1. /\ UNCHANGED <<spc[u], idx[u], receiveVars>>
            /\ DownFades /\ AcksFade
        BY <1>0, <1>2, <2>1, <2>3, AckEffect
      <3>2. FadesFor(u)
        BY <3>1, Fading
      <3>3. RestsFor(u)
        BY <3>1 DEF RestsFor, receiveVars
      <3> QED
        BY <1>0, <3>2, <3>3, Undisturbed
    <2> QED
      BY <2>2, <2>3
  <1>3. CASE (\E c \in Conns : Authenticate(c)) \/ ForgetClient
    BY <1>0, <1>3, AuthKeepsCall
  <1>4. CASE PhoneStep
    BY <1>0, <1>4, PhoneKeepsCall DEF PhoneStep
  <1>5. CASE SocketStep
    BY <1>0, <1>5, SocketKeepsCall DEF SocketStep, SocketMoves
  <1>6. CASE UNCHANGED vars
    <2>1. UNCHANGED <<spc, idx, receiveVars, down, pending, up>>
      BY <1>6 DEF vars, socketVars, pcVars
    <2> QED
      BY <1>0, <2>1, DownStays, UnchangedFade, RestKeepsCall
  <1> QED
    BY <1>1, <1>2, <1>3, <1>4, <1>5, <1>6 DEF Next, ListenerStep

\* Nor is FILE_END sent by a call that does not succeed.
LEMMA DoneStep ==
  ASSUME TypeInv, DoneInv, [Next]_vars
  PROVE  DoneInv'
  <1>0. /\ PhoneTypes
        /\ \A t \in Transfers : spc[t] = "done" => spc'[t] = "done"
    BY StaysEnded DEF TypeInv
  <1>1. ASSUME NEW t \in Transfers, SendStep(t)
        PROVE  DoneInv'
    <2>1. UNCHANGED fin
      BY <1>1, SendStepEffect DEF receiveVars
    <2>2. \/ DownFades
          \/ \E g : /\ DownGains(g)
                    /\ \A u \in Transfers : g = End(u) => spc'[u] = "done"
      <3>1. \A u \in Transfers, k \in Nat :
              Meta(t) # End(u) /\ Chunk(t, k) # End(u)
        BY DEF Meta, Chunk, End
      <3>2. \A u \in Transfers : End(t) = End(u) => t = u
        BY DEF End
      <3>3. idx[t] + 1 \in Nat
        BY DEF TypeInv, CallTypes, PcTypeOK
      <3> QED
        BY <1>1, <3>1, <3>2, <3>3, SendStepEffect
    <2> QED
      BY <1>0, <2>1, <2>2, RestKeepsDone
  <1>2. CASE ListenerStep
    <2>1. UNCHANGED <<fin, down>>
      BY <1>2
      DEF ListenerStep, HandleAck, Authenticate, ForgetClient, receiveVars,
          socketVars
    <2> QED
      BY <1>0, <2>1, DownStays, RestKeepsDone
  <1>3. CASE PhoneStep
    BY <1>0, <1>3, PhoneKeepsDone DEF PhoneStep
  <1>4. CASE SocketStep
    <2>1. DownFades /\ UNCHANGED fin
      BY <1>0, <1>4, SocketDown DEF SocketStep, SocketMoves, receiveVars
    <2> QED
      BY <1>0, <2>1, RestKeepsDone
  <1>5. CASE UNCHANGED vars
    <2>1. UNCHANGED <<fin, down>>
      BY <1>5 DEF vars, socketVars, receiveVars
    <2> QED
      BY <1>0, <2>1, DownStays, RestKeepsDone
  <1> QED
    BY <1>1, <1>2, <1>3, <1>4, <1>5 DEF Next

\* A server that runs one sendFile at a time has, of the running call, one
\* thing under way at most, until a call is given up: META or a chunk on its
\* way, the phone's work on it, or the ACK (sendFile, FileTransferService).
THEOREM NodeOneSend == ~ Overlap => (Spec => []OneSendInv)
  <1> SUFFICES ASSUME ~ Overlap
               PROVE  Spec => []OneSendInv
    OBVIOUS
  <1>1. Init => OneSendInv
    BY TypeInit, CallsInit, SaveInit DEF Init, OneSendInv
  <1>2. OneSendInv /\ [Next]_vars => OneSendInv'
    BY TypeStep, OneSenderStep, CallsStep, DoneStep DEF OneSendInv
  <1> QED
    BY <1>1, <1>2, PTL DEF Spec

\* A running or successful call has had acknowledged what the phone holds,
\* or all of it but the last chunk (sendFile, _handleBinary).
THEOREM NodeAcked == ~ Overlap => (Spec => []AckedMeansCollected)
  <1> SUFFICES ASSUME ~ Overlap
               PROVE  Spec => []AckedMeansCollected
    OBVIOUS
  <1>1. OneSendInv => AckedMeansCollected
    BY CollectedInv DEF OneSendInv, TypeInv
  <1> QED
    BY <1>1, NodeOneSend, PTL

\* Where each transfer has a file of its own, a file that was flushed and
\* reported holds what was sent, once and in order (_handleFileEnd).
THEOREM NodeSaved == ~ Overlap /\ OwnFiles => (Spec => []SavedIsComplete)
  <1> SUFFICES ASSUME ~ Overlap, OwnFiles
               PROVE  Spec => []SavedIsComplete
    OBVIOUS
  <1>1. Init => SaveInv
    BY SaveInit DEF Init
  <1>2. ASSUME OneSendInv, SaveInv, [Next]_vars
        PROVE  SaveInv'
    <2>1. /\ PhoneTypes /\ PcTypeOK /\ (Clean' => Clean)
          /\ CallsInv
      BY <1>2, StaysEnded DEF OneSendInv, TypeInv, CallTypes
    <2>2. CASE UNCHANGED receiveVars
      BY <1>2, <2>1, <2>2, RestKeepsSave
    <2>3. CASE PhoneStep /\ Clean
      BY <1>2, <2>1, <2>3, PhoneKeepsSave DEF PhoneStep, CallsInv
    <2>4. CASE ~ Clean
      BY <2>1, <2>4 DEF SaveInv
    <2> QED
      BY <1>2, <2>2, <2>3, <2>4, SendStepEffect
      DEF Next, ListenerStep, HandleAck, Authenticate, ForgetClient,
          SocketStep, vars, OneSendInv
  <1>3. OneSendInv /\ SaveInv => SavedIsComplete
    BY SavedInv DEF OneSendInv, TypeInv, CallTypes
  <1> QED
    BY <1>1, <1>2, <1>3, NodeOneSend, PTL DEF Spec

----------------------------------------------------------------------------
(* However many sends run at a time. *)

\* Whatever the calls and the phone do, no chunk is kept twice, in one file
\* or in two (sendFile, _handleBinary).
THEOREM KeptOnce == Spec => []NoChunkKeptTwice
  <1>1. Init => PlacesInv
    BY PlacesInit DEF Init
  <1>2. ASSUME TypeInv, PlacesInv, [Next]_vars
        PROVE  PlacesInv'
    <2>0. PhoneTypes /\ CallTypes /\ PcTypeOK
      BY <1>2 DEF TypeInv, CallTypes
    <2>1. ASSUME NEW t \in Transfers, SendStep(t)
          PROVE  PlacesInv'
      <3>1. ASSUME NEW s \in Transfers, NEW k \in Nat, SentChunk(s, k)
            PROVE  SentChunk(s, k)'
        BY <1>2, <2>0, <2>1, <3>1, SendStepEffect
        DEF SentChunk, CallTypes, PcTypeOK
      <3>2. \/ DownFades
            \/ \E g : /\ DownGains(g)
                      /\ \A s \in Transfers, k \in Nat : g = Chunk(s, k) =>
                           ~ SentChunk(s, k) /\ SentChunk(s, k)'
        <4>1. ASSUME NEW g \in Downs, DownGains(g),
                     g = Meta(t) \/ g = End(t)
              PROVE  \A s \in Transfers, k \in Nat : g # Chunk(s, k)
          BY <4>1 DEF Meta, End, Chunk
        <4>2. ASSUME NEW g \in Downs, DownGains(g),
                     spc[t] = "reading", spc'[t] = "chunk",
                     g = Chunk(t, idx[t] + 1),
                     NEW s \in Transfers, NEW k \in Nat, g = Chunk(s, k)
              PROVE  ~ SentChunk(s, k) /\ SentChunk(s, k)'
          <5>1. s = t /\ k = idx[t] + 1 /\ idx[t] \in Nat /\ idx' = idx
            BY <1>2, <2>0, <2>1, <4>2, SendStepEffect DEF Chunk, PcTypeOK
          <5> QED
            BY <4>2, <5>1 DEF SentChunk
        <4> QED
          BY <1>2, <2>1, <4>1, <4>2, SendStepEffect
      <3> QED
        BY <1>2, <2>1, <3>1, <3>2, SendStepEffect, RestKeepsPlaces
    <2>2. ASSUME NEW c \in Conns, HandleAck(c)
          PROVE  PlacesInv'
      <3>1. PICK f : f = Head(up[c])
        OBVIOUS
      <3>2. ASSUME NEW s \in Transfers, NEW k \in Nat, SentChunk(s, k)
            PROVE  SentChunk(s, k)'
        <4>1. CASE UNCHANGED <<spc[s], idx[s]>>
          BY <3>2, <4>1 DEF SentChunk
        <4>2. CASE s = f.t /\ Matches(f.t, f.k) /\ idx'[f.t] = f.k
          BY <2>0, <3>2, <4>2
          DEF SentChunk, Matches, CallTypes, IdxInv, PcTypeOK
        <4> QED
          BY <1>2, <2>2, <3>1, <4>1, <4>2, AckEffect
      <3> QED
        BY <1>2, <2>2, <3>1, <3>2, AckEffect, RestKeepsPlaces
    <2>3. CASE PhoneStep
      BY <1>2, <2>0, <2>3, PhoneKeepsPlaces DEF PhoneStep
    <2>4. CASE /\ UNCHANGED <<spc, idx, receiveVars>>
               /\ DownFades
      <3>1. \A s \in Transfers, k \in Nat :
              SentChunk(s, k) => SentChunk(s, k)'
        BY <2>4 DEF SentChunk
      <3> QED
        BY <1>2, <2>4, <3>1, RestKeepsPlaces
    <2>5. CASE SocketStep
      <3>1. DownFades /\ UNCHANGED <<spc, idx, receiveVars>>
        BY <2>0, <2>5, SocketDown DEF SocketStep, SocketMoves, pcVars
      <3> QED
        BY <2>4, <3>1
    <2>6. CASE \/ \E c \in Conns : Authenticate(c)
               \/ ForgetClient
               \/ UNCHANGED vars
      <3>1. UNCHANGED <<down, spc, idx, receiveVars>>
        BY <2>6
        DEF Authenticate, ForgetClient, vars, socketVars, pcVars
      <3> QED
        BY <2>4, <3>1, DownStays
    <2> QED
      BY <1>2, <2>1, <2>2, <2>3, <2>5, <2>6 DEF Next, ListenerStep
  <1>3. ASSUME TypeInv, PlacesInv
        PROVE  NoChunkKeptTwice
    <2> SUFFICES ASSUME NEW t \in Transfers, NEW u \in Transfers,
                        NEW i \in DOMAIN chunks[t],
                        NEW j \in DOMAIN chunks[u],
                        chunks[t][i] = chunks[u][j]
                 PROVE  t = u /\ i = j
      BY DEF NoChunkKeptTwice
    <2>1. chunks[t] \in Seq(Chunks)
      BY <1>3 DEF TypeInv, PhoneTypes, ReceiveTypeOK
    <2>2. chunks[t][i] \in Chunks
      BY <2>1, ElementOfSeq, LenProperties
    <2>3. PICK s \in Transfers, k \in Nat : chunks[t][i] = <<s, k>>
      BY <2>2 DEF Chunks
    <2>4. OnePlace(s, k) /\ KeptAt(t, i, s, k) /\ KeptAt(u, j, s, k)
      BY <1>3, <2>3 DEF PlacesInv, KeptAt
    <2> QED
      BY <2>4 DEF OnePlace
  <1> QED
    BY <1>1, <1>2, <1>3, Typed, PTL DEF Spec

----------------------------------------------------------------------------
(* While the connection holds. *)

\* The calls use connections the phone has opened; while none was broken,
\* there is one at most, and it holds.
ConnInv ==
  /\ \A c \in Conns : c > conn => up[c] = <<>>
  /\ client <= conn
  /\ \A t \in Transfers : spc[t] # "idle" => via[t] \in 1 .. conn
  /\ drops = 0 => conn <= 1 /\ (conn = 1 => link = "up")

\* A call that waits for an ACK has its callback in the map.
CallbackInv ==
  \A t \in Transfers :
    spc[t] \in {"meta", "reading", "chunk"} => t \in callbacks

\* While nothing was broken or given up, every call is served.
ServedCalls == drops = 0 /\ Clean => \A t \in Transfers : Served(t)

LinkInv == ConnInv /\ CallbackInv /\ ServedCalls

\* Broken connections are counted for good.
LEMMA DropsGrow ==
  ASSUME TypeInv, [Next]_vars
  PROVE  drops' = 0 => drops = 0
  <1>1. Drop => drops' # 0
    BY DEF Drop, TypeInv, PhoneTypes
  <1>2. ~ Drop => drops' = drops
    BY DEF Next, SendStep, StartSend, SendMeta, SendChunk, SendEnd, FileFails,
           Timeout, ServerTask, ListenerStep, HandleAck, TakeFrame,
           Authenticate, ForgetClient, PhoneStep, FrameArrives, HandleMeta,
           DropBinary, TakeBinary, HandleEnd, Arrives, Deliver, PhoneTask,
           InitFile, Flush, Report, InitReady, InitGivesUp, Decoded,
           DecodeFails, Yielded, Background, SocketStep, Connect,
           NoticeClose, vars, socketVars
  <1> QED
    BY <1>1, <1>2

\* Each step keeps the invariant of the connections.
LEMMA ConnStep ==
  ASSUME TypeInv, ConnInv, [Next]_vars
  PROVE  ConnInv'
  <1>0. /\ PhoneTypes /\ PcTypeOK /\ (drops' = 0 => drops = 0)
        /\ conn \in Nat /\ client \in Nat
    BY DropsGrow DEF TypeInv, CallTypes, PhoneTypes, PcTypeOK
  <1>1. ASSUME NEW t \in Transfers, SendStep(t)
        PROVE  ConnInv'
    <2>1. UNCHANGED <<link, conn, drops, up, client>>
      BY <1>1
      DEF SendStep, StartSend, SendMeta, SendChunk, SendEnd, FileFails,
          Timeout, ServerTask
    <2>2. via'[t] \in 1 .. conn
      BY <1>0, <1>1
      DEF ConnInv, SendStep, StartSend, SendMeta, SendChunk, SendEnd,
          FileFails, Timeout, Picks, PcTypeOK
    <2>3. \A u \in Transfers : u # t => UNCHANGED <<spc[u], via[u]>>
      BY <1>0, <1>1
      DEF SendStep, StartSend, SendMeta, SendChunk, SendEnd, FileFails,
          Timeout, Picks, PcTypeOK
    <2> QED
      BY <2>1, <2>2, <2>3 DEF ConnInv
  <1>2. ASSUME NEW c \in Conns, HandleAck(c)
        PROVE  ConnInv'
    <2>1. /\ UNCHANGED <<link, conn, drops, via, client>>
          /\ up[c] # <<>> /\ up' = [up EXCEPT ![c] = Tail(@)]
      BY <1>2 DEF HandleAck, TakeFrame
    <2>2. \A d \in Conns : d > conn => up'[d] = <<>>
      BY <1>0, <2>1 DEF ConnInv, PhoneTypes
    <2>3. \A u \in Transfers : spc'[u] # "idle" => spc[u] # "idle"
      BY <1>2, AckEffect DEF Matches
    <2> QED
      BY <2>1, <2>2, <2>3 DEF ConnInv
  <1>3. ASSUME NEW c \in Conns, Authenticate(c)
        PROVE  ConnInv'
    <2>1. /\ UNCHANGED <<conn, drops, via, spc>> /\ client' = c
          /\ up[c] # <<>> /\ up' = [up EXCEPT ![c] = Tail(@)]
          /\ link' = IF client # c /\ Live(client) THEN "dead" ELSE link
      BY <1>3 DEF Authenticate
    <2>2. c <= conn
      BY <1>0, <2>1 DEF ConnInv
    <2>3. \A d \in Conns : d > conn => up'[d] = <<>>
      BY <1>0, <2>1 DEF ConnInv, PhoneTypes
    <2>4. drops' = 0 => conn' <= 1 /\ (conn' = 1 => link' = "up")
      <3>1. drops = 0 => conn <= 1 /\ (conn = 1 => link = "up")
        BY DEF ConnInv
      <3>2. client # c /\ Live(client) => client = conn
        BY DEF Live
      <3> QED
        BY <1>0, <2>1, <2>2, <3>1, <3>2
    <2> QED
      BY <2>1, <2>2, <2>3, <2>4 DEF ConnInv
  <1>4. CASE ForgetClient
    BY <1>0, <1>4 DEF ForgetClient, socketVars, ConnInv
  <1>5. CASE PhoneStep
    <2>1. UNCHANGED <<link, conn, drops, spc, via, client>>
      BY <1>5
      DEF PhoneStep, FrameArrives, HandleMeta, DropBinary, TakeBinary,
          HandleEnd, Arrives, Deliver, PhoneTask, InitFile, Flush, Report,
          InitReady, InitGivesUp, Decoded, DecodeFails, Yielded, Background,
          pcVars
    <2>2. UNCHANGED up \/ \E f : Send(f)
      BY <1>5
      DEF PhoneStep, FrameArrives, HandleMeta, DropBinary, TakeBinary,
          HandleEnd, Arrives, PhoneTask, InitFile, Flush, Report,
          InitReady, InitGivesUp, Decoded, DecodeFails, Yielded
    <2>3. \A c \in Conns : c > conn => up'[c] = up[c]
      <3>1. ASSUME NEW f, Send(f)
            PROVE  \A c \in Conns : c > conn => up'[c] = up[c]
        <4>1. UNCHANGED up \/ \E x : up' = [up EXCEPT ![conn] = x]
          BY <3>1 DEF Send
        <4>2. DOMAIN up = Conns /\ conn \in Nat
          BY <1>0 DEF PhoneTypes
        <4>3. ASSUME NEW x, up' = [up EXCEPT ![conn] = x],
                     NEW c \in Conns, c > conn
              PROVE  up'[c] = up[c]
          BY <4>2, <4>3
        <4> QED
          BY <4>1, <4>3
      <3> QED
        BY <2>2, <3>1
    <2> QED
      BY <2>1, <2>3 DEF ConnInv
  <1>6. CASE SocketStep
    <2>0. UNCHANGED <<spc, via, client>>
      BY <1>6 DEF SocketStep, pcVars
    <2>1. CASE Connect
      <3>1. conn' = conn + 1 /\ link = "down" /\ link' = "up"
            /\ drops' = drops
            /\ \A c \in Conns : c > conn' => up'[c] = up[c]
        BY <1>0, <2>1 DEF Connect, PhoneTypes
      <3>2. drops' = 0 => conn = 0
        BY <1>0, <3>1 DEF ConnInv
      <3> QED
        BY <1>0, <2>0, <3>1, <3>2 DEF ConnInv
    <2>2. CASE Drop
      <3>1. /\ drops' # 0 /\ conn' = conn
            /\ \A c \in Conns : c > conn => up'[c] = up[c]
        BY <1>0, <2>2 DEF Drop, PhoneTypes
      <3> QED
        BY <2>0, <3>1 DEF ConnInv
    <2>3. CASE NoticeClose
      <3>1. link = "dead" /\ UNCHANGED <<conn, drops, up>> /\ conn \in Conns
        BY <1>0, <2>3 DEF NoticeClose, PhoneTypes
      <3> QED
        BY <1>0, <2>0, <3>1 DEF ConnInv
    <2> QED
      BY <1>6, <2>1, <2>2, <2>3 DEF SocketStep
  <1>7. CASE UNCHANGED vars
    BY <1>7 DEF vars, socketVars, pcVars, ConnInv
  <1> QED
    BY <1>1, <1>2, <1>3, <1>4, <1>5, <1>6, <1>7 DEF Next, ListenerStep

\* And that of the callbacks.
LEMMA CallbackStep ==
  ASSUME TypeInv, CallbackInv, [Next]_vars
  PROVE  CallbackInv'
  <1>1. ASSUME NEW t \in Transfers, SendStep(t)
        PROVE  CallbackInv'
    BY <1>1
    DEF SendStep, StartSend, SendMeta, SendChunk, SendEnd, FileFails,
        Timeout, CallbackInv, TypeInv, CallTypes, PcTypeOK
  <1>2. ASSUME NEW c \in Conns, HandleAck(c)
        PROVE  CallbackInv'
    <2>1. callbacks' = callbacks
      BY <1>2 DEF HandleAck
    <2>2. \A u \in Transfers :
            spc'[u] # spc[u] => spc[u] \in {"meta", "chunk"}
      BY <1>2, AckEffect DEF Matches
    <2> QED
      BY <2>1, <2>2 DEF CallbackInv
  <1>3. UNCHANGED <<spc, callbacks>> => CallbackInv'
    BY DEF CallbackInv
  <1> QED
    BY <1>1, <1>2, <1>3
    DEF Next, ListenerStep, Authenticate, ForgetClient, PhoneStep,
        SocketStep, pcVars, vars

\* A call that sends a frame over the connection that holds is served, and
\* nothing a step of the server does takes an answer from another.
LEMMA ServedStep ==
  ASSUME OneSendInv, OneSender', LinkInv, [Next]_vars
  PROVE  ServedCalls'
  <1> SUFFICES ASSUME drops' = 0, Clean', NEW u \in Transfers
               PROVE  Served(u)'
    BY DEF ServedCalls
  <1>0. /\ TypeInv /\ PhoneTypes /\ PcTypeOK /\ OneSender /\ Clean
        /\ drops = 0 /\ Served(u) /\ ConnInv /\ CallbackInv
        /\ \A t \in Transfers : CallInv(t)
    BY StaysEnded, DropsGrow
    DEF OneSendInv, LinkInv, CallsInv, ServedCalls, TypeInv, CallTypes
  <1>1. /\ conn <= 1 /\ (conn = 1 => link = "up") /\ link # "dead"
        /\ \A t \in Transfers : spc[t] # "idle" => Live(via[t])
    <2>1. conn \in Nat /\ conn <= 1 /\ (conn = 1 => link = "up")
      BY <1>0 DEF ConnInv, PhoneTypes
    <2>2. link # "down" => conn \in Conns
      BY <1>0 DEF PhoneTypes
    <2>3. \A t \in Transfers : spc[t] # "idle" => via[t] = 1 /\ conn = 1
      BY <1>0, <2>1 DEF ConnInv
    <2> QED
      BY <2>1, <2>2, <2>3 DEF Live
  <1>2. ASSUME NEW t \in Transfers, SendStep(t)
        PROVE  Served(u)'
    <2>0. UNCHANGED <<idx, receiveVars, up, pending>>
      BY <1>2
      DEF SendStep, StartSend, SendMeta, SendChunk, SendEnd, FileFails,
          Timeout, ServerTask
    <2>1. \A f : AckIn(f) => AckIn(f)'
      BY <2>0, UnchangedFade DEF AcksKept
    <2>2. \A f : InFlight(down, f) => InFlight(down, f)'
      <3>1. CASE UNCHANGED down
        BY <3>1, DownStays
      <3>2. ASSUME NEW g \in Downs, Reply(via[t], <<g>>)
            PROVE  \A f : InFlight(down, f) => InFlight(down, f)'
        BY <1>0, <3>2, ReplyGains
      <3>3. UNCHANGED down \/ \E g \in Downs : Reply(via[t], <<g>>)
        <4>1. /\ Meta(t) \in Downs /\ End(t) \in Downs
              /\ Chunk(t, idx[t] + 1) \in Downs
          BY <1>0, FrameTypes DEF PcTypeOK
        <4>2. CASE StartSend(t) \/ FileFails(t) \/ Timeout(t)
          BY <4>2 DEF StartSend, FileFails, Timeout
        <4>3. CASE SendMeta(t) \/ SendChunk(t) \/ SendEnd(t)
          BY <4>1, <4>3 DEF SendMeta, SendChunk, SendEnd
        <4> QED
          BY <1>2, <4>2, <4>3 DEF SendStep
      <3> QED
        BY <3>1, <3>2, <3>3
    <2>3. CASE u # t
      <3>1. KeepsAll(u)
        BY <1>0, <1>2, <2>0, <2>1, <2>2, <2>3, SendStepEffect
        DEF KeepsAll, receiveVars
      <3> QED
        BY <1>0, <3>1, StaysServed
    <2>4. CASE u = t
      <3>1. ASSUME NEW g \in Downs, Reply(via[t], <<g>>), spc[t] # "idle"
            PROVE  InFlight(down, g)'
        BY <1>0, <1>1, <3>1, ReplyGains
      <3>2. ASSUME spc'[t] = "meta", NEW g \in Downs, g = Meta(t),
                   InFlight(down, g)'
            PROVE  Served(t)'
        BY <3>2 DEF Served, OnItsWay, Meta
      <3>3. ASSUME spc'[t] = "chunk", NEW g \in Downs,
                   g = Chunk(t, idx[t] + 1), InFlight(down, g)'
            PROVE  Served(t)'
        BY <2>0, <3>3 DEF Served, OnItsWay, Chunk
      <3>4. spc'[t] \notin {"meta", "chunk"} => Served(t)'
        BY DEF Served
      <3>5. spc'[t] # "failed"
        BY DEF Clean
      <3> QED
        BY <1>0, <1>2, <2>4, <3>1, <3>2, <3>3, <3>4, <3>5, SendStepEffect
    <2> QED
      BY <2>3, <2>4
  <1>3. ASSUME NEW c \in Conns, HandleAck(c)
        PROVE  Served(u)'
    <2>1. PICK f : f = Head(up[c])
      OBVIOUS
    <2>2. /\ TakeFrame(c, "ack") /\ UNCHANGED <<down, receiveVars>>
          /\ UNCHANGED <<spc, idx>> \/ spc'[f.t] = "reading"
          /\ f.t \in callbacks /\ Matches(f.t, f.k) => spc'[f.t] = "reading"
      BY <1>0, <1>3, <2>1
      DEF HandleAck, Advance, PcTypeOK, TypeInv
    <2>3. /\ AckIn(f) /\ \A e : e # f /\ AckIn(e) => AckIn(e)'
      BY <1>0, <2>1, <2>2, TakeLoses DEF TakeFrame
    <2>4. CASE u # f.t
      <3>1. UNCHANGED <<spc[u], idx[u]>>
        BY <1>0, <1>3, <2>1, <2>4, AckEffect
      <3>2. KeepsAll(u)
        BY <2>2, <2>3, <2>4, <3>1, DownStays DEF KeepsAll, receiveVars
      <3> QED
        BY <1>0, <3>2, StaysServed
    <2>5. CASE u = f.t /\ spc'[u] = "reading"
      BY <2>5 DEF Served
    <2>6. CASE u = f.t /\ UNCHANGED <<spc, idx>>
      <3>1. \/ spc[u] \in {"sent", "meta"} /\ f = Ack(u, 0)
            \/ spc[u] = "chunk" /\ f = Ack(u, idx[u] + 1)
        BY <1>0, <2>3, <2>6, WorkTells DEF Clean
      <3>2. spc[u] = "sent" \/ Matches(u, f.k)
        BY <3>1 DEF Matches, Ack
      <3>3. spc[u] = "sent" \/ u \in callbacks
        BY <1>0, <3>1 DEF CallbackInv
      <3>4. spc'[u] \in {"sent", "reading"}
        BY <2>2, <2>6, <3>2, <3>3
      <3> QED
        BY <3>4 DEF Served
    <2> QED
      BY <2>2, <2>4, <2>5, <2>6
  <1>4. ASSUME UNCHANGED <<spc, idx, receiveVars>>,
               \A f : InFlight(down, f) => InFlight(down, f)',
               \A f : f.t = u /\ AckIn(f) => AckIn(f)'
        PROVE  Served(u)'
    <2>1. KeepsAll(u)
      BY <1>4 DEF KeepsAll, receiveVars
    <2> QED
      BY <1>0, <2>1, StaysServed
  <1>5. ASSUME NEW c \in Conns, Authenticate(c)
        PROVE  Served(u)'
    <2>1. PICK f : f = Head(up[c])
      OBVIOUS
    <2>2. /\ up[c] # <<>> /\ up' = [up EXCEPT ![c] = Tail(@)]
          /\ UNCHANGED <<pending, down, spc, idx, receiveVars>>
          /\ f.kind = "auth"
      BY <1>5, <2>1 DEF Authenticate
    <2>3. AckIn(f) /\ \A e : e # f /\ AckIn(e) => AckIn(e)'
      BY <1>0, <2>1, <2>2, TakeLoses
    <2>4. f.t = u => FALSE
      <3>1. f.t = u => f.kind = "ack"
        BY <1>0, <2>3, WorkTells DEF Clean, Ack
      <3> QED
        BY <2>2, <3>1
    <2> QED
      BY <1>4, <2>2, <2>3, <2>4, DownStays
  <1>6. CASE ForgetClient \/ UNCHANGED vars
    <2>1. UNCHANGED <<spc, idx, receiveVars, down, pending, up>>
      BY <1>6 DEF ForgetClient, vars, socketVars, pcVars
    <2> QED
      BY <1>4, <2>1, DownStays, UnchangedFade DEF AcksKept
  <1>7. CASE PhoneStep
    BY <1>0, <1>1, <1>7, PhoneKeepsServed DEF PhoneStep
  <1>8. CASE SocketStep
    <2>1. ~ Drop /\ ~ NoticeClose
      BY <1>0, <1>1 DEF Drop, NoticeClose, PhoneTypes
    <2>2. Connect /\ UNCHANGED pcVars
      BY <1>8, <2>1 DEF SocketStep
    <2>3. spc[u] = "idle"
      <3>1. conn \in Nat /\ link = "down"
        BY <1>0, <2>2 DEF Connect, PhoneTypes
      <3>2. conn = 0
        BY <1>1, <3>1
      <3> QED
        BY <1>0, <3>2 DEF ConnInv
    <2> QED
      BY <2>2, <2>3 DEF Served, pcVars
  <1> QED
    BY <1>2, <1>3, <1>5, <1>6, <1>7, <1>8 DEF Next, ListenerStep

\* While the connection holds, no call was given up and the phone's file
\* system works, the answer a call waits for is under way (sendFile,
\* FileTransferService).
THEOREM NodeNoStranded == ~ Overlap => (Spec => []NoStrandedSend)
  <1> SUFFICES ASSUME ~ Overlap
               PROVE  Spec => []NoStrandedSend
    OBVIOUS
  <1>1. Init => LinkInv
    <2> SUFFICES ASSUME Init
                 PROVE  LinkInv
      OBVIOUS
    <2>1. ConnInv
      BY DEF Init, SocketInit, PcInit, ConnInv
    <2>2. CallbackInv /\ ServedCalls
      BY DEF Init, PcInit, CallbackInv, ServedCalls, Served
    <2> QED
      BY <2>1, <2>2 DEF LinkInv
  <1>2. OneSendInv /\ OneSendInv' /\ LinkInv /\ [Next]_vars => LinkInv'
    BY ConnStep, CallbackStep, ServedStep DEF LinkInv, OneSendInv
  <1>3. OneSendInv /\ LinkInv => NoStrandedSend
    BY ServedInv
    DEF OneSendInv, TypeInv, CallTypes, LinkInv, ServedCalls, NoStrandedSend,
        Clean
  <1> QED
    BY <1>1, <1>2, <1>3, NodeOneSend, PTL DEF Spec

=============================================================================
