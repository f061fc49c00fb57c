----------------------------- MODULE GoToPhone -----------------------------
(***************************************************************************)
(* The Go server sending files to the phone: SendFile, which blocks the    *)
(* command loop and takes its ACKs from a buffered channel, and handleAck, *)
(* which the goroutine of each connection runs, against the handlers of    *)
(* PhoneReceive.                                                           *)
(***************************************************************************)
EXTENDS PcSend

CONSTANT ChanCap  \* the capacity of an ACK channel: 50

ASSUME GoAssumption == ChanCap \in Nat \ {0}

VARIABLES
  registered,  \* transfers with a channel in ackCallbacks
  acks,        \* acks[t]: what the channel of t holds
  handing,     \* handing[c]: the ACK handleAck of connection c holds after
               \* it has looked up its channel
  alive        \* FALSE once the process has panicked

goVars == <<registered, acks, handing, alive>>
vars   == <<socketVars, receiveVars, pcVars, goVars>>

NoAck == Ack(NONE, 0)

TypeOK ==
  /\ SocketTypes(Frames)
  /\ ReceiveTypeOK
  /\ PcTypeOK
  /\ registered \subseteq Transfers
  /\ acks \in [Transfers -> Seq(Nat)]
  /\ \A t \in Transfers : Len(acks[t]) <= ChanCap
  /\ handing \in [Conns -> [kind : {"ack"}, t : Ids, k : Nat]]
  /\ alive \in BOOLEAN

Init ==
  /\ SocketInit
  /\ ReceiveInit
  /\ PcInit
  /\ registered = {}
  /\ acks = [t \in Transfers |-> <<>>]
  /\ handing = [c \in Conns |-> NoAck]
  /\ alive = TRUE

----------------------------------------------------------------------------
(* SendFile. *)

\* A step of the goroutine that runs SendFile.
CallStep == alive /\ ServerTask

\* A write to a connection that no longer reaches the phone may fail.
WriteFails(t) == ~Live(via[t])

\* SendFile up to META, whose write may fail.
StartSend(t) ==
  /\ CallStep
  /\ Picks(t)
  /\ \/ /\ spc' = [spc EXCEPT ![t] = "sent"]
        /\ Reply(client, <<Meta(t)>>)
     \/ /\ ~Live(client)
        /\ spc' = [spc EXCEPT ![t] = "failed"]
        /\ UNCHANGED down
  /\ UNCHANGED <<idx, client, goVars>>

\* Only then is the channel registered.
Register(t) ==
  /\ CallStep
  /\ spc[t] = "sent"
  /\ spc' = [spc EXCEPT ![t] = "meta"]
  /\ registered' = registered \cup {t}
  /\ UNCHANGED <<down, idx, via, client, acks, handing, alive>>

\* The deferred function: the channel is forgotten and closed.
Return(t, state) ==
  /\ spc' = [spc EXCEPT ![t] = state]
  /\ registered' = registered \ {t}
  /\ UNCHANGED <<idx, via, client, acks, handing, alive>>

\* The select takes the next ACK off the channel; one that does not match
\* is ignored and the wait starts anew.
TakeAck(t) ==
  /\ CallStep
  /\ spc[t] \in {"meta", "chunk"}
  /\ acks[t] # <<>>
  /\ acks' = [acks EXCEPT ![t] = Tail(@)]
  /\ IF Matches(t, Head(acks[t]))
     THEN Advance(t, Head(acks[t]))
     ELSE UNCHANGED <<spc, idx>>
  /\ UNCHANGED <<down, via, client, registered, handing, alive>>

\* The next chunk is read and written, or one of the two fails.
SendChunk(t) ==
  /\ CallStep
  /\ spc[t] = "reading"
  /\ idx[t] < NumChunks[t]
  /\ spc' = [spc EXCEPT ![t] = "chunk"]
  /\ Reply(via[t], <<Chunk(t, idx[t] + 1)>>)
  /\ UNCHANGED <<idx, via, client, goVars>>

\* Mutant of SendEnd: FILE_END is sent with the last chunk still to come.
SendEndEarly(t) ==
  /\ CallStep
  /\ spc[t] = "reading"
  /\ idx[t] + 1 >= NumChunks[t]
  /\ Reply(via[t], <<End(t)>>)
  /\ Return(t, "done")

\* The end of the file: FILE_END, and success.
SendEnd(t) ==
  /\ CallStep
  /\ spc[t] = "reading"
  /\ idx[t] = NumChunks[t]
  /\ Reply(via[t], <<End(t)>>)
  /\ Return(t, "done")

\* f.Read, WriteMessage or sendMessage fails.
SendFails(t) ==
  /\ CallStep
  /\ spc[t] = "reading"
  /\ idx[t] < NumChunks[t] \/ WriteFails(t)
  /\ Return(t, "failed")
  /\ UNCHANGED down

\* Mutant of Timeout: the ACK of a chunk is awaited without a timer.
TimeoutMetaOnly(t) ==
  /\ CallStep
  /\ spc[t] = "meta"
  /\ Return(t, "failed")
  /\ UNCHANGED down

\* time.After fires: 10 s for META, 8 s for a chunk.
Timeout(t) ==
  /\ CallStep
  /\ spc[t] \in {"meta", "chunk"}
  /\ Return(t, "failed")
  /\ UNCHANGED down

----------------------------------------------------------------------------
(* handleClient. *)

\* The goroutine of c is between two frames.
Idle(c) == alive /\ handing[c] = NoAck

\* handleAck looks up the channel under ackMu, and releases the lock.
HandleAck(c) ==
  /\ Idle(c)
  /\ TakeFrame(c, "ack")
  /\ handing' = [handing EXCEPT ![c] =
                   IF Head(up[c]).t \in registered THEN Head(up[c]) ELSE @]
  /\ UNCHANGED <<down, pcVars, receiveVars, registered, acks, alive>>

\* Mutant of HandOver: an ACK replaces those not taken yet.
HandOverReplaces(c) ==
  /\ alive
  /\ handing[c] # NoAck
  /\ LET t == handing[c].t IN
       /\ acks' = [acks EXCEPT ![t] = <<handing[c].k + 1>>]
       /\ UNCHANGED alive
  /\ handing' = [handing EXCEPT ![c] = NoAck]
  /\ UNCHANGED <<down, pcVars, registered>>
  /\ ServerTask

\* It then hands the ACK over without blocking.  If the channel has been
\* closed in the meantime, the send panics.
HandOver(c) ==
  /\ alive
  /\ handing[c] # NoAck
  /\ LET t == handing[c].t IN
       IF t \in registered
       THEN /\ acks' = IF Len(acks[t]) < ChanCap
                       THEN [acks EXCEPT ![t] = Append(@, handing[c].k)]
                       ELSE acks
            /\ UNCHANGED alive
       ELSE /\ alive' = FALSE
            /\ UNCHANGED acks
  /\ handing' = [handing EXCEPT ![c] = NoAck]
  /\ UNCHANGED <<down, pcVars, registered>>
  /\ ServerTask

SendStep(t) == \/ StartSend(t) \/ Register(t) \/ TakeAck(t) \/ SendChunk(t)
               \/ SendEnd(t) \/ SendFails(t) \/ Timeout(t)

ClientStep ==
  \/ \E c \in Conns : HandleAck(c) \/ HandOver(c)
  \/ (\E c \in Conns : Idle(c) /\ Authenticate(c)) /\ UNCHANGED goVars
  \/ alive /\ ForgetClient /\ UNCHANGED goVars

PhoneStep ==
  /\ FrameArrives \/ PhoneTask
  /\ UNCHANGED <<pcVars, goVars>>

SocketStep ==
  /\ Connect \/ Drop \/ NoticeClose
  /\ UNCHANGED <<receiveVars, pcVars, goVars>>

Next == \/ \E t \in Transfers : SendStep(t)
        \/ ClientStep
        \/ PhoneStep
        \/ SocketStep

Spec == Init /\ [][Next]_vars

\* Fairness: SendFile's goroutine runs, its reads and writes return, and its
\* timers fire.
FairSpec ==
  /\ Spec
  /\ \A t \in Transfers :
       /\ WF_vars(Register(t))
       /\ WF_vars(SendChunk(t) \/ SendEnd(t))
       /\ WF_vars(Timeout(t))

----------------------------------------------------------------------------
(* Properties; those of either backend are in PcSend. *)

\* A send ends, or the process has.
EverySendEndsOrPanics ==
  \A t \in Transfers :
    Sending(t) ~> spc[t] \in {"done", "failed"} \/ ~alive

\* docs/issues/chunks_mismatch.md: a late ACK "is ignored safely".
ServerSurvives == alive

\* The channel of a call that waits never holds an ACK of a chunk the call
\* has not sent yet, nor two of the same: stop-and-wait leaves no stale ACK
\* for the select to take as an answer to the next chunk, unless another
\* send was given up.
NoEarlyAck ==
  \A t \in registered : AloneFailing(t) =>
    /\ \A i \in DOMAIN acks[t] :
         acks[t][i] <= IF spc[t] = "chunk" THEN idx[t] + 1 ELSE idx[t]
    /\ \A i, j \in DOMAIN acks[t] : acks[t][i] = acks[t][j] => i = j
=============================================================================
