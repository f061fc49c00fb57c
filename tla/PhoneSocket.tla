---------------------------- MODULE PhoneSocket ----------------------------
(***************************************************************************)
(* The life of the phone's connection: WebSocketService as the rest of the *)
(* app uses it.  JavaScript runs each of its methods and listeners to the  *)
(* end, so a method is a function on the state of the service, and methods *)
(* that call each other compose.                                           *)
(***************************************************************************)
EXTENDS Naturals, Sequences

CONSTANTS
  NONE,
  MaxAttempts    \* maxReconnectAttempts

VARIABLE ws

Service0 ==
  [sock     |-> "none",  \* this.ws; "dying" until its onclose is called
   reply    |-> "none",  \* the PC's answer to the AUTH of this socket
   timer    |-> FALSE,   \* a reconnect is scheduled
   attempts |-> 0,
   manual   |-> FALSE,   \* _manualDisconnect
   target   |-> NONE,    \* connectionInfo and authInfo
   authed   |-> FALSE,   \* isAuthenticated
   pinging  |-> FALSE,   \* the ping interval runs
   status   |-> "disconnected",
   pending  |-> <<>>,    \* pendingMessages
   wire     |-> <<>>]    \* texts handed to a socket

Statuses == {"disconnected", "connecting", "connected", "reconnecting",
             "authenticated", "auth_failed", "failed"}
ServiceType(Target, Texts) ==
  [sock : {"none", "connecting", "open", "dying"},
   reply : {"none", "asked", "yes", "no", "accepted", "rejected"},
   timer : BOOLEAN, attempts : 0 .. MaxAttempts, manual : BOOLEAN,
   target : Target \cup {NONE}, authed : BOOLEAN, pinging : BOOLEAN,
   status : Statuses, pending : Seq(Texts), wire : Seq(Texts)]
-----------------------------------------------------------------------------
(* Methods.                                                                *)

\* _notifyStatus: the listeners are called at once, with what status is now.
Notify(w, status) == [w EXCEPT !.status = status]

\* _clearReconnectTimer
ClearTimer(w) == [w EXCEPT !.timer = FALSE]

\* _startPing, _stopPing
StartPing(w) == [w EXCEPT !.pinging = TRUE]
StopPing(w)  == [w EXCEPT !.pinging = FALSE]

\* _teardownSocket: the socket's listeners are gone, its flags stay.
Teardown(w) == [w EXCEPT !.sock = "none", !.reply = "none"]

\* Mutant of ArmTimer: attempts are not counted.
ArmTimerUncounted(w) == [w EXCEPT !.timer = TRUE]

\* The timer of the next attempt.
ArmTimer(w) == [w EXCEPT !.timer = TRUE, !.attempts = @ + 1]

\* Mutant of ScheduleReconnect: one attempt too many.
ScheduleOneMore(w) ==
  IF w.manual \/ w.target = NONE THEN w
  ELSE IF w.attempts > MaxAttempts THEN Notify(w, "failed")
  ELSE Notify(ArmTimer(w), "reconnecting")

\* _scheduleReconnect
ScheduleReconnect(w) ==
  IF w.manual \/ w.target = NONE THEN w
  ELSE IF w.attempts >= MaxAttempts THEN Notify(w, "failed")
  ELSE Notify(ArmTimer(w), "reconnecting")

\* Mutant of DoConnect: a socket that cannot be created ends the attempt.
DoConnectGivesUp(w) ==
  LET new == Notify(Teardown(w), "connecting")
  IN {[new EXCEPT !.sock = "connecting"], new}

\* Mutant of DoConnect: no status is reported for the attempt.
DoConnectSilently(w) ==
  {[Teardown(w) EXCEPT !.sock = "connecting"], ScheduleReconnect(Teardown(w))}

\* _doConnect: the socket is created, or its constructor throws.
DoConnect(w) ==
  LET new == Notify(Teardown(w), "connecting")
  IN {[new EXCEPT !.sock = "connecting"], ScheduleReconnect(new)}

\* connect(host, port, authInfo)
Connect(w, target) ==
  DoConnect(ClearTimer([w EXCEPT !.manual = FALSE, !.target = target,
                                 !.attempts = 0]))

\* reconnect, when there is a target
Reconnect(w) ==
  DoConnect(Teardown(ClearTimer([w EXCEPT !.manual = FALSE,
                                          !.attempts = 0])))

\* Mutant of Disconnect: the reconnect timer stays armed.
DisconnectKeepsTimer(w) ==
  Notify([Teardown(StopPing(w)) EXCEPT
            !.manual = TRUE, !.attempts = MaxAttempts, !.authed = FALSE],
         "disconnected")

\* disconnect
Disconnect(w) ==
  Notify([Teardown(ClearTimer(StopPing(w))) EXCEPT
            !.manual = TRUE, !.attempts = MaxAttempts, !.authed = FALSE],
         "disconnected")

\* _send, of a text
Send(w, text) ==
  IF w.sock \in {"open", "dying"}   \* readyState is OPEN until onclose
  THEN [w EXCEPT !.wire = Append(@, text)]
  ELSE [w EXCEPT !.pending = Append(@, text)]

\* _authenticate: AUTH goes out before anything queued.
Authenticate(w) == [w EXCEPT !.reply = "asked"]

\* _flushPending
FlushPending(w) == [w EXCEPT !.wire = @ \o w.pending, !.pending = <<>>]

\* Mutant of OnOpen: the queue is left for the next message to find.
OnOpenNoFlush(w) ==
  StartPing(Authenticate(Notify(
    [w EXCEPT !.sock = "open", !.attempts = 0], "connected")))

\* onopen
OnOpen(w) ==
  FlushPending(StartPing(Authenticate(Notify(
    [w EXCEPT !.sock = "open", !.attempts = 0], "connected"))))

\* onclose, after onerror if the socket never opened
OnClose(w) ==
  ScheduleReconnect(Notify(StopPing(
    [w EXCEPT !.sock = "none", !.reply = "none", !.authed = FALSE]),
    "disconnected"))
-----------------------------------------------------------------------------
(* Events.                                                                 *)

Opens == ws.sock = "connecting" /\ ws' = OnOpen(ws)
Refused == ws.sock = "connecting" /\ ws' = OnClose(ws)
Closes == ws.sock = "dying" /\ ws' = OnClose(ws)

\* The reconnect timer's callback.
TimerFires == ws.timer /\ ws' \in DoConnect(ClearTimer(ws))

\* The PC, or the network, ends the connection.
Breaks == ws.sock = "open" /\ ws' = [ws EXCEPT !.sock = "dying"]

\* The PC answers AUTH.
PcAnswers(known) ==
  /\ ws.sock = "open" /\ ws.reply = "asked"
  /\ ws' = [ws EXCEPT !.reply = IF known THEN "yes" ELSE "no"]

\* _handleAuthResponse
HandleAuthResponse ==
  \/ /\ ws.reply = "yes"
     /\ ws' = Notify([ws EXCEPT !.reply = "accepted", !.authed = TRUE],
                     "authenticated")
  \/ /\ ws.reply = "no"
     /\ ws' = Notify([ws EXCEPT !.reply = "rejected"], "auth_failed")

\* What the screens show: their status listener copies every status.
Shown == ws.status
-----------------------------------------------------------------------------
(* Properties of the service, whatever its callers do.                     *)

\* After disconnect() the phone stays disconnected until somebody connects:
\* no socket, no timer and no ping is left over (disconnect, onclose).
DisconnectHolds ==
  ws.manual => /\ ws.sock = "none"
               /\ ~ws.timer /\ ~ws.pinging /\ ~ws.authed

\* While the phone wants a connection there is exactly one thing that will
\* bring it: a socket or a timer, never both, and neither only when the
\* attempts are used up (connect, _doConnect, _scheduleReconnect).
NeverStuck ==
  ~ws.manual /\ ws.target # NONE =>
    IF ws.timer THEN ws.sock = "none"
    ELSE ws.sock # "none" \/ ws.status = "failed"

\* The screens show "authenticated" only while the current socket is the one
\* on which the PC accepted AUTH, across reconnects and changes of PC
\* (onStatusChange).
StatusIsHonest ==
  Shown = "authenticated" =>
    ws.sock \in {"open", "dying"} /\ ws.reply = "accepted"
=============================================================================
