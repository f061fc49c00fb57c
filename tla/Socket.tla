------------------------------- MODULE Socket -------------------------------
(***************************************************************************)
(* The phone's WebSocket as a file transfer sees it (WebSocketService):    *)
(* the newest socket, the queue of messages kept while it is not open, the *)
(* binary frames that are dropped then, and the frames in flight either    *)
(* way.  PhoneSend puts a sender on top of it, PhoneReceive a receiver.    *)
(***************************************************************************)
EXTENDS Naturals, Sequences, FiniteSets

CONSTANTS
  NONE,        \* "no transfer"
  MaxConns,    \* bound: sockets the phone opens
  MaxDrops     \* bound: connections the network breaks

ASSUME SocketAssumption ==
  /\ MaxConns \in Nat
  /\ MaxDrops \in Nat

VARIABLES
  link,     \* "up"; "dead" (broken, the phone still sees OPEN); "down"
  conn,     \* number of the phone's newest socket, 0 before the first
  drops,    \* connections broken so far
  pending,  \* pendingMessages: JSON messages waiting for an open socket
  up,       \* up[c]: frames sent on socket c that the PC has yet to handle
  down      \* frames the PC sent on the newest socket, not yet delivered

socketVars == <<link, conn, drops, pending, up, down>>

Conns == 1 .. MaxConns
Auth  == [kind |-> "auth", t |-> NONE, k |-> 0]

\* Frames is what the channels carry; each protocol has its own.
SocketTypes(Frames) ==
  /\ link \in {"up", "dead", "down"}
  /\ conn \in 0 .. MaxConns
  /\ link # "down" => conn \in Conns
  /\ drops \in 0 .. MaxDrops
  /\ pending \in Seq(Frames)
  /\ up \in [Conns -> Seq(Frames)]
  /\ down \in Seq(Frames)

SocketInit ==
  /\ link = "down"
  /\ conn = 0
  /\ drops = 0
  /\ pending = <<>>
  /\ up = [c \in Conns |-> <<>>]
  /\ down = <<>>

\* _send: an open socket takes the message (a dead one loses it), otherwise
\* it waits in pendingMessages.
Send(f) ==
  \/ /\ link = "up"
     /\ up' = [up EXCEPT ![conn] = Append(@, f)]
     /\ UNCHANGED pending
  \/ /\ link = "dead"
     /\ UNCHANGED <<up, pending>>
  \/ /\ link = "down"
     /\ pending' = Append(pending, f)
     /\ UNCHANGED up

\* sendBinary: like _send, but a frame that finds no open socket is dropped.
SendBinary(f) ==
  /\ IF link = "up"
     THEN up' = [up EXCEPT ![conn] = Append(@, f)]
     ELSE UNCHANGED up
  /\ UNCHANGED pending

\* Mutant of Connect: the queue is flushed before AUTH is sent.
ConnectQueueFirst ==
  /\ link = "down"
  /\ conn < MaxConns
  /\ conn' = conn + 1
  /\ link' = "up"
  /\ up' = [up EXCEPT ![conn + 1] = Append(pending, Auth)]
  /\ pending' = <<>>
  /\ UNCHANGED <<drops, down>>

\* onopen: AUTH goes out first, then _flushPending sends the queue in order.
Connect ==
  /\ link = "down"
  /\ conn < MaxConns
  /\ conn' = conn + 1
  /\ link' = "up"
  /\ up' = [up EXCEPT ![conn + 1] = <<Auth>> \o pending]
  /\ pending' = <<>>
  /\ UNCHANGED <<drops, down>>

\* The network breaks the connection: the PC gets a prefix of what was sent,
\* the phone a prefix of what was answered, and the phone still sees OPEN.
Drop ==
  /\ link = "up"
  /\ drops < MaxDrops
  /\ drops' = drops + 1
  /\ link' = "dead"
  /\ \E n \in 0 .. Len(up[conn]) :
       up' = [up EXCEPT ![conn] = SubSeq(@, 1, n)]
  /\ \E m \in 0 .. Len(down) : down' = SubSeq(down, 1, m)
  /\ UNCHANGED <<conn, pending>>

\* onclose: the phone learns of the loss; nothing more arrives on the socket.
NoticeClose ==
  /\ link = "dead"
  /\ link' = "down"
  /\ down' = <<>>
  /\ UNCHANGED <<conn, drops, pending, up>>

\* onmessage takes the next frame that has arrived.
Deliver ==
  /\ link \in {"up", "dead"}
  /\ down # <<>>
  /\ down' = Tail(down)
  /\ UNCHANGED <<link, conn, drops>>

\* What the PC sends on socket c: it arrives only while that socket is the
\* phone's newest one and the connection holds.
Reply(c, fs) ==
  down' = IF c = conn /\ link = "up" THEN down \o fs ELSE down

\* The ws listener of connection c takes the next frame.
TakeFrame(c, kind) ==
  /\ up[c] # <<>>
  /\ Head(up[c]).kind = kind
  /\ up' = [up EXCEPT ![c] = Tail(@)]
  /\ UNCHANGED <<link, conn, drops, pending>>

InFlight(fs, f) == \E i \in 1 .. Len(fs) : fs[i] = f
=============================================================================
