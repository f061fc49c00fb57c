------------------------------- MODULE PcSend -------------------------------
(***************************************************************************)
(* What the Node server and the Go server have in common when they send    *)
(* files to the phone: the state of each sendFile call, the connection the *)
(* clients map holds for the phone, and the properties of either backend.  *)
(***************************************************************************)
EXTENDS PhoneReceive

CONSTANT Overlap  \* TRUE: a sendFile may start while another one runs

ASSUME PcSendAssumption == Overlap \in BOOLEAN

VARIABLES
  spc,     \* spc[t]: where the sendFile call of t stands
  idx,     \* idx[t]: chunks of t whose ACK the call has accepted
  via,     \* via[t]: the connection the call has picked, 0 before
  client   \* the phone's entry in the clients map, 0 if none

pcVars == <<spc, idx, via, client>>

SendStates == {"idle", "stat", "sent", "meta", "reading", "chunk", "done",
               "failed"}
Sending(t) == spc[t] \notin {"idle", "done", "failed"}

PcTypeOK ==
  /\ spc \in [Transfers -> SendStates]
  /\ idx \in [Transfers -> Nat]
  /\ \A t \in Transfers : idx[t] <= NumChunks[t]
  /\ via \in [Transfers -> 0 .. MaxConns]
  /\ client \in 0 .. MaxConns

PcInit ==
  /\ spc = [t \in Transfers |-> "idle"]
  /\ idx = [t \in Transfers |-> 0]
  /\ via = [t \in Transfers |-> 0]
  /\ client = 0

\* The connection still reaches the phone.
Live(c) == c = conn /\ link = "up"

\* handleAuth: the connection becomes the phone's, and the one it replaces
\* is closed, which the phone sees if that was its newest.
Authenticate(c) ==
  /\ up[c] # <<>>
  /\ Head(up[c]).kind = "auth"
  /\ up' = [up EXCEPT ![c] = Tail(@)]
  /\ client' = c
  /\ link' = IF client # c /\ Live(client) THEN "dead" ELSE link
  /\ UNCHANGED <<conn, drops, pending, down, spc, idx, via, receiveVars>>

\* The close of the phone's connection is handled, after all it carried.
ForgetClient ==
  /\ client # 0
  /\ ~Live(client)
  /\ up[client] = <<>>
  /\ client' = 0
  /\ UNCHANGED <<spc, idx, via, socketVars, receiveVars>>

\* A step of the server that takes no frame.
ServerTask == UNCHANGED <<link, conn, drops, pending, up, receiveVars>>

\* A call picks the phone's connection.
Picks(t) ==
  /\ spc[t] = "idle"
  /\ client # 0
  /\ Overlap \/ \A u \in Transfers : ~Sending(u)
  /\ via' = [via EXCEPT ![t] = client]

\* The ACK the call of t waits for.
Matches(t, k) ==
  \/ spc[t] = "meta" /\ k = 0
  \/ spc[t] = "chunk" /\ k = idx[t] + 1

\* Mutant of Advance: an ACK counts for the chunk after it, too.
AdvanceTwice(t, k) ==
  /\ spc' = [spc EXCEPT ![t] = "reading"]
  /\ idx' = [idx EXCEPT ![t] = IF k = 0 THEN 0 ELSE k + 1]

\* It is accepted: the call goes on to read the next chunk.
Advance(t, k) ==
  /\ spc' = [spc EXCEPT ![t] = "reading"]
  /\ idx' = [idx EXCEPT ![t] = k]

----------------------------------------------------------------------------
(* Properties of either backend. *)

\* The first n chunks of t, in order.
OwnPrefix(t, n) == [i \in 1 .. n |-> <<t, i>>]

\* What the phone has collected of t.
Collected(t) == IF fin[t] = "no" THEN chunks[t] ELSE flushing[t]

\* No other send has been given up.
AloneFailing(t) == \A u \in Transfers \ {t} : spc[u] # "failed"

\* docs/logics/file_transfer.md: the PC waits for an ACK "verifying it
\* received chunk N" -- a running or successful send has had acknowledged
\* exactly what the phone holds, or all of it but the last chunk.  (An
\* abandoned send may leave a handler behind whose ACK names the next.)
AckedMeansCollected ==
  \A t \in Transfers : AloneFailing(t) =>
    CASE Sending(t) -> \/ Collected(t) = OwnPrefix(t, idx[t])
                       \/ Collected(t) = OwnPrefix(t, idx[t] + 1)
      [] spc[t] = "done" -> Collected(t) = OwnPrefix(t, NumChunks[t])
      [] OTHER -> TRUE

\* A file the phone reports as received, with its flush done, is the file
\* the PC sent: complete, in order, nothing foreign in it.
SavedIsComplete ==
  \A t \in Transfers : AloneFailing(t) /\ fin[t] = "saved" =>
    saved[t] = OwnPrefix(t, NumChunks[t])

\* The file system or the decoder has lost a chunk of t.
Faulted(t) ==
  \/ init[t] = "failed"
  \/ got[t] > Len(Collected(t))
               + Cardinality({h \in waiting : h.t = t /\ h.at = "decode"})

\* The frame the call of t waits to be answered is under way, or the phone
\* is at work on it, or its ACK is under way.
AnswerUnderWay(t) ==
  CASE spc[t] = "meta" ->
         \/ InFlight(down, Meta(t))
         \/ init[t] = "pending"
         \/ InFlight(pending, Ack(t, 0))
         \/ \E c \in Conns : InFlight(up[c], Ack(t, 0))
    [] spc[t] = "chunk" ->
         \/ InFlight(down, Chunk(t, idx[t] + 1))
         \/ \E h \in waiting : h.chunk = <<t, idx[t] + 1>>
         \/ InFlight(pending, Ack(t, idx[t] + 1))
         \/ \E c \in Conns : InFlight(up[c], Ack(t, idx[t] + 1))
    [] OTHER -> TRUE

\* A running sendFile returns or throws.
EverySendEnds ==
  \A t \in Transfers : Sending(t) ~> spc[t] \in {"done", "failed"}
=============================================================================
