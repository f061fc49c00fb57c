------------------------------ MODULE FileCopy ------------------------------
(***************************************************************************)
(* What sending files promises, whatever the protocol: a copy in progress  *)
(* grows by the next chunk of its own file and by nothing else; a sender   *)
(* reports success only when the copy is complete; from then on the copy   *)
(* does not change, and it is closed at most once.  A send that gave up    *)
(* promises nothing about what is left behind, but that is never closed.   *)
(***************************************************************************)
EXTENDS Naturals, Sequences

CONSTANTS Transfers, NumChunks

VARIABLES
  status,  \* status[t]: "idle", "sending", "done" or "failed"
  copy,    \* copy[t]: the chunks in the receiver's file of t
  closed   \* transfers whose file the receiver has closed

copyVars == <<status, copy, closed>>

\* The first n chunks of t, in order.
Prefix(t, n) == [i \in 1 .. n |-> <<t, i>>]
Complete(t)  == copy[t] = Prefix(t, NumChunks[t])

Init ==
  /\ status = [t \in Transfers |-> "idle"]
  /\ copy = [t \in Transfers |-> <<>>]
  /\ closed = {}

Start(t) ==
  /\ status[t] = "idle"
  /\ status' = [status EXCEPT ![t] = "sending"]
  /\ UNCHANGED <<copy, closed>>

Grow(t) ==
  /\ status[t] = "sending"
  /\ Len(copy[t]) < NumChunks[t]
  /\ copy' = [copy EXCEPT ![t] = Append(@, <<t, Len(@) + 1>>)]
  /\ UNCHANGED <<status, closed>>

\* A chunk, of any file, lands in the file of an abandoned send.
Litter(t) ==
  /\ status[t] = "failed"
  /\ \E u \in Transfers : \E k \in 1 .. NumChunks[u] :
       copy' = [copy EXCEPT ![t] = Append(@, <<u, k>>)]
  /\ UNCHANGED <<status, closed>>

Succeed(t) ==
  /\ status[t] = "sending"
  /\ Complete(t)
  /\ status' = [status EXCEPT ![t] = "done"]
  /\ UNCHANGED <<copy, closed>>

Fail(t) ==
  /\ status[t] = "sending"
  /\ status' = [status EXCEPT ![t] = "failed"]
  /\ UNCHANGED <<copy, closed>>

Close(t) ==
  /\ status[t] = "done"
  /\ t \notin closed
  /\ closed' = closed \cup {t}
  /\ UNCHANGED <<status, copy>>

Next == \E t \in Transfers :
          \/ Start(t) \/ Grow(t) \/ Litter(t)
          \/ Succeed(t) \/ Fail(t) \/ Close(t)

Spec == Init /\ [][Next]_copyVars
=============================================================================
