---------------------------- MODULE NodeToPhone ----------------------------
(***************************************************************************)
(* The Node server sending files to the phone: sendFile, an async function *)
(* whose ACKs come through the server-wide ackCallbacks map, against the   *)
(* handlers of PhoneReceive.                                               *)
(***************************************************************************)
EXTENDS PcSend

VARIABLE callbacks  \* transfers with an entry in ackCallbacks

vars == <<socketVars, receiveVars, pcVars, callbacks>>

TypeOK ==
  /\ SocketTypes(Frames)
  /\ ReceiveTypeOK
  /\ PcTypeOK
  /\ callbacks \subseteq Transfers

Init == SocketInit /\ ReceiveInit /\ PcInit /\ callbacks = {}

----------------------------------------------------------------------------
(* sendFile. *)

\* The connection is picked before fs.stat is awaited.
StartSend(t) ==
  /\ Picks(t)
  /\ spc' = [spc EXCEPT ![t] = "stat"]
  /\ ServerTask
  /\ UNCHANGED <<down, idx, client, callbacks>>

\* META goes out and the ACK of readiness is awaited.  A closed socket
\* swallows what is sent on it.
SendMeta(t) ==
  /\ spc[t] = "stat"
  /\ spc' = [spc EXCEPT ![t] = "meta"]
  /\ callbacks' = callbacks \cup {t}
  /\ Reply(via[t], <<Meta(t)>>)
  /\ ServerTask
  /\ UNCHANGED <<idx, via, client>>

\* Mutant of SendChunk: chunks are sent without waiting for their ACKs.
SendChunkNoWait(t) ==
  /\ spc[t] = "reading"
  /\ idx[t] < NumChunks[t]
  /\ idx' = [idx EXCEPT ![t] = @ + 1]
  /\ Reply(via[t], <<Chunk(t, idx[t] + 1)>>)
  /\ ServerTask
  /\ UNCHANGED <<spc, via, client, callbacks>>

\* fs.read resolves with the next chunk.
SendChunk(t) ==
  /\ spc[t] = "reading"
  /\ idx[t] < NumChunks[t]
  /\ spc' = [spc EXCEPT ![t] = "chunk"]
  /\ Reply(via[t], <<Chunk(t, idx[t] + 1)>>)
  /\ ServerTask
  /\ UNCHANGED <<idx, via, client, callbacks>>

\* fs.read finds the end of the file: FILE_END, and success.
SendEnd(t) ==
  /\ spc[t] = "reading"
  /\ idx[t] = NumChunks[t]
  /\ spc' = [spc EXCEPT ![t] = "done"]
  /\ callbacks' = callbacks \ {t}
  /\ Reply(via[t], <<End(t)>>)
  /\ ServerTask
  /\ UNCHANGED <<idx, via, client>>

\* fs.stat, fs.open or fs.read rejects; ackCallbacks keeps its entry.
FileFails(t) ==
  /\ spc[t] \in {"stat", "reading"}
  /\ spc' = [spc EXCEPT ![t] = "failed"]
  /\ ServerTask
  /\ UNCHANGED <<down, idx, via, client, callbacks>>

\* Mutant of Timeout: the ACK of a chunk is awaited without a timer.
TimeoutMetaOnly(t) ==
  /\ spc[t] = "meta"
  /\ spc' = [spc EXCEPT ![t] = "failed"]
  /\ ServerTask
  /\ UNCHANGED <<down, idx, via, client, callbacks>>

\* Mutant of Timeout: a chunk whose ACK is late is sent once more.
TimeoutResends(t) ==
  /\ spc[t] \in {"meta", "chunk"}
  /\ IF spc[t] = "meta"
     THEN spc' = [spc EXCEPT ![t] = "failed"] /\ UNCHANGED down
     ELSE Reply(via[t], <<Chunk(t, idx[t] + 1)>>) /\ UNCHANGED spc
  /\ ServerTask
  /\ UNCHANGED <<idx, via, client, callbacks>>

\* Mutant of Timeout: the send goes on after a chunk whose ACK is late.
TimeoutContinues(t) ==
  /\ spc[t] \in {"meta", "chunk"}
  /\ IF spc[t] = "meta"
     THEN spc' = [spc EXCEPT ![t] = "failed"] /\ UNCHANGED idx
     ELSE Advance(t, idx[t] + 1)
  /\ ServerTask
  /\ UNCHANGED <<down, via, client, callbacks>>

\* The 10 s timer of META's ACK (which leaves the callback behind) or the
\* 8 s timer of a chunk's ACK fires.
Timeout(t) ==
  /\ spc[t] \in {"meta", "chunk"}
  /\ spc' = [spc EXCEPT ![t] = "failed"]
  /\ callbacks' = IF spc[t] = "chunk" THEN callbacks \ {t} ELSE callbacks
  /\ ServerTask
  /\ UNCHANGED <<down, idx, via, client>>

----------------------------------------------------------------------------
(* The 'message' listener. *)

\* The callback of the ACK's transfer accepts it, or it changes nothing.
HandleAck(c) ==
  /\ TakeFrame(c, "ack")
  /\ LET f == Head(up[c]) IN
       IF f.t \in callbacks /\ Matches(f.t, f.k)
       THEN Advance(f.t, f.k)
       ELSE UNCHANGED <<spc, idx>>
  /\ UNCHANGED <<down, via, client, callbacks, receiveVars>>

SendStep(t) == \/ StartSend(t) \/ SendMeta(t) \/ SendChunk(t) \/ SendEnd(t)
               \/ FileFails(t) \/ Timeout(t)

ListenerStep ==
  \/ \E c \in Conns : HandleAck(c)
  \/ (\E c \in Conns : Authenticate(c)) /\ UNCHANGED callbacks
  \/ ForgetClient /\ UNCHANGED callbacks

PhoneStep ==
  /\ FrameArrives \/ PhoneTask
  /\ UNCHANGED <<pcVars, callbacks>>

SocketStep ==
  /\ Connect \/ Drop \/ NoticeClose
  /\ UNCHANGED <<receiveVars, pcVars, callbacks>>

Next == \/ \E t \in Transfers : SendStep(t)
        \/ ListenerStep
        \/ PhoneStep
        \/ SocketStep

Spec == Init /\ [][Next]_vars

\* Fairness: the server's file reads resolve or reject and its timers fire.
FairSpec ==
  /\ Spec
  /\ \A t \in Transfers :
       /\ WF_vars(SendMeta(t))
       /\ WF_vars(SendChunk(t) \/ SendEnd(t))
       /\ WF_vars(Timeout(t))

----------------------------------------------------------------------------
(* Properties; those of either backend are in PcSend. *)

\* docs/issues/race-condition-file-corruption.md: "No more dropped chunks"
\* -- while the connection holds, no call has given up and the phone's file
\* system works, a call that waits for an ACK will get it: the end of one
\* file takes nothing from the next.
NoStrandedSend ==
  drops = 0 /\ (\A t \in Transfers : spc[t] # "failed" /\ ~Faulted(t)) =>
    \A t \in Transfers : AnswerUnderWay(t)

\* docs/transfer_corruption_fix.md counts on each chunk being aggregated
\* once -- whatever sends run at a time, no chunk is kept twice, in one
\* file or in two: its bytes never stand in two places.
NoChunkKeptTwice ==
  \A t, u \in Transfers :
    \A i \in DOMAIN chunks[t], j \in DOMAIN chunks[u] :
      chunks[t][i] = chunks[u][j] => <<t, i>> = <<u, j>>
=============================================================================
