-------------------------- MODULE PhoneApp_proofs --------------------------
(***************************************************************************)
(* Proofs about the phone's connection and its store, for any number of    *)
(* servers, attempts, pairings and faults: its type, that DisconnectHolds, *)
(* NeverStuck, StatusIsHonest and TextsKept hold whatever the screens do,  *)
(* and that the store keeps tokens with their device id and the last       *)
(* server in the list.                                                     *)
(***************************************************************************)
EXTENDS PhoneApp, SequenceTheorems, TLAPS

SType == ServiceType(Targets, Nat)

\* The properties of PhoneSocket as predicates of a state of the service,
\* and what makes them inductive: a socket that is not open has no answer.
Held(w) ==
  w.manual => /\ w.sock = "none"
              /\ ~w.timer /\ ~w.pinging /\ ~w.authed
Alive(w) ==
  ~w.manual /\ w.target # NONE =>
    IF w.timer THEN w.sock = "none"
    ELSE w.sock # "none" \/ w.status = "failed"
Honest(w) ==
  w.status = "authenticated" =>
    w.sock \in {"open", "dying"} /\ w.reply = "accepted"
Answered(w) == w.reply # "none" => w.sock \in {"open", "dying"}

Sound(w) == w \in SType /\ Held(w) /\ Alive(w) /\ Honest(w) /\ Answered(w)
-----------------------------------------------------------------------------
(* The service's methods.                                                  *)

\* The bounds are numbers.
LEMMA Bounds ==
  /\ MaxAttempts \in Nat /\ MaxPairings \in Nat
  /\ MaxTaps \in Nat /\ MaxFaults \in Nat
  BY AppAssumption

\* The two values the methods give to attempts.
LEMMA ZeroAttempts ==
  0 \in 0 .. MaxAttempts /\ MaxAttempts \in 0 .. MaxAttempts
  BY Bounds

\* The initial state of the service is sound (constructor).
LEMMA ServiceStarts == Sound(Service0)
  <1>1. Service0 \in SType
    BY Bounds DEF Service0, SType, ServiceType, Statuses
  <1> QED
    BY <1>1 DEF Sound, Held, Alive, Honest, Answered, Service0

\* _scheduleReconnect, on a service without socket or timer.
LEMMA ScheduleSound ==
  ASSUME NEW w \in SType, ~w.manual, ~w.timer, w.sock = "none",
         w.reply = "none", w.status # "authenticated"
  PROVE  Sound(ScheduleReconnect(w))
  <1>1. CASE w.target = NONE
    BY <1>1 DEF Sound, Held, Alive, Honest, Answered, ScheduleReconnect
  <1>2. CASE w.target # NONE /\ w.attempts >= MaxAttempts
    <2>1. ScheduleReconnect(w) = [w EXCEPT !.status = "failed"]
      BY <1>2 DEF ScheduleReconnect, Notify
    <2>2. [w EXCEPT !.status = "failed"] \in SType
      BY DEF SType, ServiceType, Statuses
    <2> QED
      BY <2>1, <2>2 DEF SType, ServiceType, Sound, Held, Alive, Honest,
                        Answered
  <1>3. CASE w.target # NONE /\ ~(w.attempts >= MaxAttempts)
    <2> DEFINE v == [w EXCEPT !.timer = TRUE, !.attempts = w.attempts + 1,
                              !.status = "reconnecting"]
    <2>1. ScheduleReconnect(w) = v
      BY <1>3 DEF ScheduleReconnect, Notify, ArmTimer, SType, ServiceType
    <2>2. w.attempts + 1 \in 0 .. MaxAttempts
      BY <1>3, Bounds DEF SType, ServiceType
    <2>3. v \in SType
      BY <2>2 DEF SType, ServiceType, Statuses
    <2> QED
      BY <2>1, <2>3 DEF SType, ServiceType, Sound, Held, Alive, Honest,
                        Answered
  <1> QED
    BY <1>1, <1>2, <1>3

\* _doConnect, when no timer runs: whatever the socket was.
LEMMA DoConnectSound ==
  ASSUME NEW w \in SType, ~w.manual, ~w.timer, NEW v \in DoConnect(w)
  PROVE  Sound(v)
  <1> DEFINE n == [w EXCEPT !.sock = "none", !.reply = "none",
                            !.status = "connecting"]
  <1>1. Notify(Teardown(w), "connecting") = n
    BY DEF Notify, Teardown, SType, ServiceType
  <1>2. n \in SType
    BY DEF SType, ServiceType, Statuses
  <1>3. ~n.manual /\ ~n.timer /\ n.sock = "none" /\ n.reply = "none"
        /\ n.status = "connecting"
    BY DEF SType, ServiceType
  <1>4. CASE v = [n EXCEPT !.sock = "connecting"]
    <2>1. v \in SType
      BY <1>2, <1>4 DEF SType, ServiceType
    <2>2. /\ v.sock = "connecting" /\ v.reply = "none"
          /\ v.status = "connecting" /\ ~v.manual /\ ~v.timer
      BY <1>2, <1>3, <1>4 DEF SType, ServiceType
    <2> QED
      BY <2>1, <2>2 DEF Sound, Held, Alive, Honest, Answered
  <1>5. CASE v = ScheduleReconnect(n)
    BY <1>2, <1>3, <1>5, ScheduleSound
  <1> QED
    BY <1>1, <1>4, <1>5 DEF DoConnect

\* connect: whatever the service was doing before.
LEMMA ConnectSound ==
  ASSUME NEW w \in SType, NEW t \in Targets, NEW v \in Connect(w, t)
  PROVE  Sound(v)
  <1> DEFINE n == [w EXCEPT !.manual = FALSE, !.target = t, !.attempts = 0,
                            !.timer = FALSE]
  <1>1. ClearTimer([w EXCEPT !.manual = FALSE, !.target = t,
                             !.attempts = 0]) = n
    BY DEF ClearTimer, SType, ServiceType
  <1>2. n \in SType
    BY ZeroAttempts DEF SType, ServiceType
  <1>4. ~n.manual /\ ~n.timer
    BY DEF SType, ServiceType
  <1>3. v \in DoConnect(n)
    BY <1>1 DEF Connect
  <1> QED
    BY <1>2, <1>3, <1>4, DoConnectSound

\* reconnect: whatever the service was doing before.
LEMMA ReconnectSound ==
  ASSUME NEW w \in SType, NEW v \in Reconnect(w)
  PROVE  Sound(v)
  <1> DEFINE n == [w EXCEPT !.manual = FALSE, !.attempts = 0,
                            !.timer = FALSE, !.sock = "none",
                            !.reply = "none"]
  <1>1. Teardown(ClearTimer([w EXCEPT !.manual = FALSE, !.attempts = 0])) = n
    BY DEF Teardown, ClearTimer, SType, ServiceType
  <1>2. n \in SType
    BY ZeroAttempts DEF SType, ServiceType
  <1>4. ~n.manual /\ ~n.timer
    BY DEF SType, ServiceType
  <1>3. v \in DoConnect(n)
    BY <1>1 DEF Reconnect
  <1> QED
    BY <1>2, <1>3, <1>4, DoConnectSound

\* disconnect leaves nothing behind.
LEMMA DisconnectSound ==
  ASSUME NEW w \in SType
  PROVE  Sound(Disconnect(w))
  <1> DEFINE n == [w EXCEPT !.pinging = FALSE, !.timer = FALSE,
                            !.sock = "none", !.reply = "none",
                            !.manual = TRUE, !.attempts = MaxAttempts,
                            !.authed = FALSE, !.status = "disconnected"]
  <1>1. Disconnect(w) = n
    BY DEF Disconnect, Notify, Teardown, ClearTimer, StopPing, SType,
           ServiceType
  <1>2. n \in SType
    BY ZeroAttempts DEF SType, ServiceType, Statuses
  <1>3. /\ n.manual /\ n.sock = "none" /\ n.reply = "none" /\ ~n.timer
        /\ ~n.pinging /\ ~n.authed /\ n.status = "disconnected"
    BY DEF SType, ServiceType
  <1> QED
    BY <1>1, <1>2, <1>3 DEF Sound, Held, Alive, Honest, Answered

\* Without a target, handleReconnect only reports a failure.
LEMMA FailSound ==
  ASSUME NEW w, Sound(w), w.target = NONE
  PROVE  Sound(Notify(w, "failed"))
  <1> DEFINE n == [w EXCEPT !.status = "failed"]
  <1>1. n \in SType
    BY DEF Sound, SType, ServiceType, Statuses
  <1> QED
    BY <1>1 DEF Notify, Sound, Held, Alive, Honest, Answered, SType,
                ServiceType

\* _send, of a text.
LEMMA SendSound ==
  ASSUME NEW w, Sound(w), NEW x \in Nat
  PROVE  Sound(Send(w, x))
  <1> w \in SType
    BY DEF Sound
  <1>1. CASE w.sock \in {"open", "dying"}
    <2> DEFINE n == [w EXCEPT !.wire = Append(w.wire, x)]
    <2>1. Append(w.wire, x) \in Seq(Nat)
      BY DEF SType, ServiceType
    <2>2. Send(w, x) = n
      BY <1>1 DEF Send
    <2>3. n \in SType
      BY <2>1 DEF SType, ServiceType
    <2> QED
      BY <2>2, <2>3 DEF Sound, Held, Alive, Honest, Answered, SType,
                        ServiceType
  <1>2. CASE w.sock \notin {"open", "dying"}
    <2> DEFINE n == [w EXCEPT !.pending = Append(w.pending, x)]
    <2>1. Append(w.pending, x) \in Seq(Nat)
      BY DEF SType, ServiceType
    <2>2. Send(w, x) = n
      BY <1>2 DEF Send
    <2>3. n \in SType
      BY <2>1 DEF SType, ServiceType
    <2> QED
      BY <2>2, <2>3 DEF Sound, Held, Alive, Honest, Answered, SType,
                        ServiceType
  <1> QED
    BY <1>1, <1>2

\* While a socket is there, no timer runs beside it (or there is no target).
LEMMA OnOpenSound ==
  ASSUME NEW w, Sound(w), w.sock = "connecting"
  PROVE  Sound(OnOpen(w))
  <1> DEFINE n == [w EXCEPT !.sock = "open", !.attempts = 0,
                            !.status = "connected", !.reply = "asked",
                            !.pinging = TRUE,
                            !.wire = w.wire \o w.pending, !.pending = <<>>]
  <1>0. w \in SType
    BY DEF Sound
  <1>1. OnOpen(w) = n
    BY <1>0 DEF OnOpen, FlushPending, StartPing, Authenticate, Notify,
                SType, ServiceType
  <1>2. w.wire \o w.pending \in Seq(Nat) /\ <<>> \in Seq(Nat)
    BY <1>0 DEF SType, ServiceType
  <1>3. n \in SType
    BY <1>0, <1>2, ZeroAttempts DEF SType, ServiceType, Statuses
  <1>4. /\ n.sock = "open" /\ n.status = "connected" /\ n.manual = w.manual
        /\ n.timer = w.timer /\ n.target = w.target
    BY <1>0 DEF SType, ServiceType
  <1>5. ~w.manual /\ (w.target # NONE => ~w.timer)
    BY DEF Sound, Held, Alive
  <1> QED
    BY <1>1, <1>3, <1>4, <1>5 DEF Sound, Held, Alive, Honest, Answered

\* onclose: the timer is armed only if none runs.
LEMMA OnCloseSound ==
  ASSUME NEW w, Sound(w), w.sock \in {"connecting", "dying"}
  PROVE  Sound(OnClose(w))
  <1> DEFINE n == [w EXCEPT !.sock = "none", !.reply = "none",
                            !.authed = FALSE, !.pinging = FALSE,
                            !.status = "disconnected"]
  <1>0. w \in SType
    BY DEF Sound
  <1>1. OnClose(w) = ScheduleReconnect(n)
    BY <1>0 DEF OnClose, Notify, StopPing, SType, ServiceType
  <1>2. n \in SType
    BY <1>0 DEF SType, ServiceType, Statuses
  <1>3. /\ n.sock = "none" /\ n.reply = "none" /\ n.status = "disconnected"
        /\ n.manual = w.manual /\ n.timer = w.timer /\ n.target = w.target
    BY <1>0 DEF SType, ServiceType
  <1>4. ~w.manual /\ (w.target # NONE => ~w.timer)
    BY DEF Sound, Held, Alive
  <1>5. CASE w.target = NONE
    BY <1>1, <1>2, <1>3, <1>4, <1>5
    DEF ScheduleReconnect, Sound, Held, Alive, Honest, Answered
  <1>6. CASE w.target # NONE
    BY <1>1, <1>2, <1>3, <1>4, <1>6, ScheduleSound
  <1> QED
    BY <1>5, <1>6
-----------------------------------------------------------------------------
(* The service's events.                                                   *)

\* What the socket, the timer and the PC do keeps the service sound.
LEMMA EventSound ==
  ASSUME Sound(ws),
         \/ Opens \/ Refused \/ Closes \/ Breaks \/ TimerFires
         \/ HandleAuthResponse \/ \E k \in BOOLEAN : PcAnswers(k)
  PROVE  Sound(ws')
  <1>0. ws \in SType
    BY DEF Sound
  <1>1. CASE Opens
    BY <1>1, OnOpenSound DEF Opens
  <1>2. CASE Refused \/ Closes
    BY <1>2, OnCloseSound DEF Refused, Closes
  <1>3. CASE TimerFires
    <2> DEFINE n == [ws EXCEPT !.timer = FALSE]
    <2>1. ClearTimer(ws) = n /\ n \in SType /\ ~n.timer /\ n.manual = ws.manual
      BY <1>0 DEF ClearTimer, SType, ServiceType
    <2>2. ~ws.manual
      BY <1>3 DEF TimerFires, Sound, Held
    <2> QED
      BY <1>3, <2>1, <2>2, DoConnectSound DEF TimerFires
  <1>4. CASE Breaks
    <2>1. ws' \in SType
      BY <1>0, <1>4 DEF Breaks, SType, ServiceType
    <2> QED
      BY <1>0, <1>4, <2>1 DEF Breaks, Sound, Held, Alive, Honest, Answered,
                              SType, ServiceType
  <1>5. ASSUME NEW k \in BOOLEAN, PcAnswers(k)
        PROVE  Sound(ws')
    <2>1. PICK r \in {"yes", "no"} : ws' = [ws EXCEPT !.reply = r]
      BY <1>5 DEF PcAnswers
    <2>2. ws.sock = "open" /\ ws.reply = "asked"
      BY <1>5 DEF PcAnswers
    <2>3. ws' \in SType
      BY <1>0, <2>1 DEF SType, ServiceType
    <2> QED
      BY <1>0, <2>1, <2>2, <2>3 DEF Sound, Held, Alive, Honest, Answered,
                                    SType, ServiceType
  <1>6. CASE HandleAuthResponse
    <2>1. ws.sock \in {"open", "dying"}
      BY <1>6 DEF HandleAuthResponse, Sound, Answered
    <2>2. ws' \in SType
      <3>1. CASE ws.reply = "yes"
        <4>1. ws' = [ws EXCEPT !.reply = "accepted", !.authed = TRUE,
                               !.status = "authenticated"]
          BY <1>0, <1>6, <3>1
          DEF HandleAuthResponse, Notify, SType, ServiceType
        <4> QED
          BY <1>0, <4>1 DEF SType, ServiceType, Statuses
      <3>2. CASE ws.reply = "no"
        <4>1. ws' = [ws EXCEPT !.reply = "rejected",
                               !.status = "auth_failed"]
          BY <1>0, <1>6, <3>2
          DEF HandleAuthResponse, Notify, SType, ServiceType
        <4> QED
          BY <1>0, <4>1 DEF SType, ServiceType, Statuses
      <3>3. ws.reply = "yes" \/ ws.reply = "no"
        BY <1>6, Zenon DEF HandleAuthResponse
      <3> QED
        BY <3>1, <3>2, <3>3, Zenon
    <2> QED
      BY <1>0, <1>6, <2>1, <2>2
      DEF HandleAuthResponse, Notify, Sound, Held, Alive, Honest, Answered,
          SType, ServiceType
  <1> QED
    BY <1>1, <1>2, <1>3, <1>4, <1>5, <1>6
-----------------------------------------------------------------------------
(* The calls under way.                                                    *)

IInv == TypeOK /\ Sound(ws)

\* What a call holds, by its next await.
LEMMA Shapes ==
  ASSUME NEW c \in Calls
  PROVE  /\ c.at \in {"newId", "http"} => c \in PairCalls
         /\ c.at \in {"answered", "list", "last"} => c \in SaveCalls
         /\ c.at \in {"settings", "lastServer"} => c \in AutoCalls
         /\ c.at = "getId" => c \in TailCalls
         /\ c.at \in {"lateId", "ready"} => c \in ReadyCalls
         /\ c.at \in {"filter", "readLast", "drop"} => c \in RemoveCalls
  BY DEF Calls, PairCalls, SaveCalls, AutoCalls, TailCalls, ReadyCalls,
         RemoveCalls

\* A call that goes on, ends or starts leaves the others as they are.
LEMMA CallsChange ==
  ASSUME calls \subseteq Calls
  PROVE  /\ \A c \in calls, d \in Calls :
              Becomes(c, d) => calls' \subseteq Calls
         /\ \A c \in calls : Ends(c) => calls' \subseteq Calls
         /\ \A S \in {PairCalls, AutoCalls, RemoveCalls} : \A c \in S :
              Starts(c) => /\ calls' \subseteq Calls
                           /\ \E d \in S : /\ calls' = calls \cup {d}
                                           /\ \E n : d = [c EXCEPT !.n = n]
  <1>1. ASSUME NEW S \in {PairCalls, AutoCalls, RemoveCalls}, NEW c \in S,
               Starts(c)
        PROVE  /\ calls' \subseteq Calls
               /\ \E d \in S : /\ calls' = calls \cup {d}
                               /\ \E n : d = [c EXCEPT !.n = n]
    <2>1. PICK n \in 1 .. MaxCalls : calls' = calls \cup {[c EXCEPT !.n = n]}
      BY <1>1 DEF Starts
    <2>2. n \in Nat
      BY <2>1, Bounds
    <2>3. [c EXCEPT !.n = n] \in S
      <3>1. CASE S = PairCalls
        BY <1>1, <2>2, <3>1 DEF PairCalls
      <3>2. CASE S = AutoCalls
        BY <1>1, <2>2, <3>2 DEF AutoCalls
      <3>3. CASE S = RemoveCalls
        BY <1>1, <2>2, <3>3 DEF RemoveCalls
      <3> QED
        BY <1>1, <3>1, <3>2, <3>3
    <2>4. S \subseteq Calls
      BY DEF Calls
    <2> QED
      BY <2>1, <2>3, <2>4
  <1> QED
    BY <1>1 DEF Becomes, Ends

\* The call HomeScreen makes as it mounts.
LEMMA MountType == {AutoConnect("mount")} \subseteq Calls
  <1>1. AutoConnect("mount") \in AutoCalls
    BY DEF AutoConnect, AutoCalls, AutoCallers
  <1> QED
    BY <1>1 DEF Calls

\* Only the connecting call, and no other operation, touches the service.
LEMMA OperationQuiet ==
  ASSUME NEW c, Operation(c), ~Connects(c)
  PROVE  ws' = ws /\ typed' = typed
  BY DEF Operation, KeepId, GetId, PairAccepted, PairFails, ReadServers,
         SaveServers, SaveLast, AutoSettings, AutoLast, RemoveWritesList,
         RemoveReadsLast, RemoveDropsLast, boundVars

\* What a connecting call hands to connect.
LEMMA ConnectsTo ==
  ASSUME TypeOK, NEW c \in calls, Connects(c)
  PROVE  \E t \in Targets : /\ t = [pc |-> c.server.pc, tok |-> c.server.tok,
                                    dev |-> c.dev]
                            /\ ws' \in Connect(ws, t)
  <1>1. c \in ReadyCalls
    BY Shapes DEF TypeOK, Connects
  <1> QED
    BY <1>1 DEF Connects, ReadyCalls, Servers, Targets

\* No step of the screens, of a call or of the connection leaves the service
\* in a state that is not sound.
LEMMA ServiceStaysSound ==
  ASSUME IInv, [Next]_vars
  PROVE  Sound(ws')
  <1> USE DEF IInv
  <1>1. CASE UNCHANGED ws
    BY <1>1 DEF Sound, SType, Held, Alive, Honest, Answered
  <1>2. ASSUME NEW c \in calls, Connects(c)
        PROVE  Sound(ws')
    <2>1. PICK t \in Targets : ws' \in Connect(ws, t)
      BY <1>2, ConnectsTo
    <2> QED
      BY <2>1, ConnectSound DEF Sound
  <1>4. CASE ReconnectTap
    BY <1>4, ReconnectSound, FailSound DEF ReconnectTap, Sound
  <1>5. CASE TextTap
    <2>1. typed' \in Nat
      BY <1>5, Bounds DEF TextTap, TypeOK
    <2> QED
      BY <1>5, <2>1, SendSound DEF TextTap
  <1>6. CASE DisconnectTap \/ ResetTap
    BY <1>6, DisconnectSound DEF DisconnectTap, ResetTap, Sound
  <1>7. CASE Connection
    <2>1. Known(ws.target) \in BOOLEAN
      BY DEF Known
    <2> QED
      BY <1>7, <2>1, EventSound DEF Connection
  <1>8. CASE Cut
    BY <1>8, EventSound DEF Cut
  <1>9. CASE Restart
    BY <1>9, ServiceStarts DEF Restart
  <1>10. ASSUME NEW c \in calls, Operation(c) PROVE Sound(ws')
    BY <1>1, <1>2, <1>10, OperationQuiet
  <1>11. CASE \/ \E pc \in Pcs : PairTap(pc) \/ RemoveTap(pc)
              \/ ToggleTap \/ ClearAll \/ UNCHANGED vars
    BY <1>1, <1>11 DEF PairTap, RemoveTap, ToggleTap, ClearAll, vars
  <1> QED
    BY <1>4, <1>5, <1>6, <1>7, <1>8, <1>9, <1>10, <1>11, Zenon
    DEF Next, Screens
-----------------------------------------------------------------------------
(* Types.                                                                  *)

\* The parts of TypeOK that a step changes, each with a name.
StoreOK == store \in Stores
IssuedOK == issued \in Seq([pc : Pcs, dev : Nat])
CallsOK == calls \subseteq Calls
FlagsOK == {raced, twoIds, torn} \subseteq BOOLEAN
CountsOK == {ids, clearing} \subseteq Nat
BoundsOK == /\ taps \in 0 .. MaxTaps /\ typed \in 0 .. taps
            /\ faults \in 0 .. MaxFaults
PartsOK == StoreOK /\ IssuedOK /\ CallsOK /\ FlagsOK /\ CountsOK /\ BoundsOK

\* TypeOK is its named parts.
LEMMA TypeParts == TypeOK <=> ws \in SType /\ PartsOK
  BY DEF TypeOK, SType, PartsOK, StoreOK, IssuedOK, CallsOK, FlagsOK,
         CountsOK, BoundsOK

\* getOrCreateDeviceId reads or draws an id.
LEMMA DeviceIdType ==
  ASSUME PartsOK
  PROVE  DeviceId \in Nat /\ (DrawId => ids' \in Nat)
  BY DEF PartsOK, StoreOK, Stores, CountsOK, DeviceId, DrawId

\* The steps of getOrCreateDeviceId and of the connecting call.
LEMMA IdSteps ==
  ASSUME PartsOK, NEW c \in calls, KeepId(c) \/ GetId(c) \/ Connects(c)
  PROVE  PartsOK'
  <1>0. StoreOK /\ IssuedOK /\ CallsOK /\ FlagsOK /\ CountsOK /\ BoundsOK
    BY DEF PartsOK
  <1>1. c \in Calls
    BY <1>0 DEF CallsOK
  <1>2. CASE KeepId(c)
    <2>1. \/ c.at = "newId" /\ c \in PairCalls
          \/ c.at = "lateId" /\ c \in ReadyCalls
      BY <1>1, <1>2, Shapes DEF KeepId
    <2>2. StoreOK'
      BY <1>0, <1>2, <2>1
      DEF KeepId, StoreId, StoreOK, Stores, PairCalls, ReadyCalls
    <2>3. CallsOK'
      <3> DEFINE d == [c EXCEPT !.at = IF c.at = "newId" THEN "http"
                                       ELSE "ready"]
      <3>1. d \in Calls
        BY <2>1 DEF Calls, PairCalls, ReadyCalls
      <3>2. Becomes(c, d)
        BY <1>2 DEF KeepId, StoreId
      <3> QED
        BY <1>0, <3>1, <3>2, CallsChange DEF CallsOK
    <2>4. FlagsOK'
      BY <1>0, <1>2 DEF KeepId, StoreId, FlagsOK
    <2> QED
      BY <1>0, <1>2, <2>2, <2>3, <2>4
      DEF KeepId, PartsOK, IssuedOK, CountsOK, BoundsOK, boundVars
  <1>3. CASE GetId(c)
    <2>1. c \in TailCalls
      BY <1>1, <1>3, Shapes DEF GetId
    <2>2. CallsOK'
      <3> DEFINE d == [by |-> c.by, n |-> c.n,
                       at |-> IdRead("ready", "lateId"),
                       server |-> c.server, dev |-> DeviceId]
      <3>1. d \in ReadyCalls
        BY <2>1, DeviceIdType DEF TailCalls, ReadyCalls, IdRead
      <3>2. d \in Calls
        BY <3>1, Zenon DEF Calls
      <3>3. Becomes(c, d)
        BY <1>3, Zenon DEF GetId
      <3> HIDE DEF d
      <3> QED
        BY <1>0, <3>2, <3>3, CallsChange DEF CallsOK
    <2>3. CountsOK'
      BY <1>0, <1>3, DeviceIdType DEF GetId, CountsOK
    <2> QED
      BY <1>0, <1>3, <2>2, <2>3
      DEF GetId, PartsOK, StoreOK, IssuedOK, FlagsOK, BoundsOK, boundVars,
          pastVars
  <1>4. CASE Connects(c)
    <2>1. CallsOK'
      BY <1>0, <1>4, CallsChange DEF Connects, CallsOK
    <2> QED
      BY <1>0, <1>4, <2>1
      DEF Connects, PartsOK, StoreOK, IssuedOK, FlagsOK, CountsOK, BoundsOK,
          boundVars, pastVars, storeVars
  <1> QED
    BY <1>2, <1>3, <1>4

\* The steps of a pairing (PairScreen).
LEMMA PairingSteps ==
  ASSUME PartsOK, NEW c \in calls,
         \/ PairAccepted(c) \/ PairFails(c) \/ ReadServers(c)
         \/ SaveServers(c) \/ SaveLast(c)
  PROVE  PartsOK'
  <1>0. StoreOK /\ IssuedOK /\ CallsOK /\ FlagsOK /\ CountsOK /\ BoundsOK
    BY DEF PartsOK
  <1>1. c \in Calls
    BY <1>0 DEF CallsOK
  <1>2. CASE PairAccepted(c)
    <2>1. c \in PairCalls
      BY <1>1, <1>2, Shapes DEF PairAccepted
    <2>2. IssuedOK'
      BY <1>0, <1>2, <2>1 DEF PairAccepted, IssuedOK, PairCalls
    <2>3. CallsOK'
      <3> DEFINE d == [by |-> c.by, n |-> c.n, at |-> "answered",
                       server |-> [pc |-> c.pc, tok |-> Len(issued) + 1],
                       servers |-> {}]
      <3>1. Len(issued) + 1 \in Nat
        BY <1>0 DEF IssuedOK
      <3>2. d \in SaveCalls
        BY <2>1, <3>1 DEF PairCalls, SaveCalls, Servers
      <3>3. d \in Calls
        BY <3>2, Zenon DEF Calls
      <3>4. Becomes(c, d) \/ Ends(c)
        BY <1>2, Zenon DEF PairAccepted
      <3> HIDE DEF d
      <3> QED
        BY <1>0, <3>3, <3>4, CallsChange DEF CallsOK
    <2> QED
      BY <1>0, <1>2, <2>2, <2>3
      DEF PairAccepted, PartsOK, StoreOK, FlagsOK, CountsOK, BoundsOK,
          boundVars, pastVars, storeVars
  <1>3. CASE PairFails(c)
    <2>1. CallsOK'
      BY <1>0, <1>3, CallsChange DEF PairFails, CallsOK
    <2> QED
      BY <1>0, <1>3, <2>1
      DEF PairFails, PartsOK, StoreOK, IssuedOK, FlagsOK, CountsOK, BoundsOK,
          boundVars, pastVars, storeVars
  <1>4. CASE ReadServers(c)
    <2>1. c \in SaveCalls
      BY <1>1, <1>4, Shapes DEF ReadServers
    <2>2. [c EXCEPT !.at = "list", !.servers = store.servers] \in Calls
      BY <1>0, <2>1 DEF Calls, SaveCalls, StoreOK, Stores
    <2>3. CallsOK'
      BY <1>0, <1>4, <2>2, CallsChange DEF ReadServers, CallsOK
    <2> QED
      BY <1>0, <1>4, <2>3
      DEF ReadServers, PartsOK, StoreOK, IssuedOK, FlagsOK, CountsOK,
          BoundsOK, boundVars, pastVars, storeVars
  <1>5. CASE SaveServers(c)
    <2>1. c \in SaveCalls
      BY <1>1, <1>5, Shapes DEF SaveServers
    <2>2. [c EXCEPT !.at = "last"] \in Calls
      BY <2>1 DEF Calls, SaveCalls
    <2>3. CallsOK'
      BY <1>0, <1>5, <2>2, CallsChange DEF SaveServers, CallsOK
    <2>4. StoreOK'
      BY <1>0, <1>5, <2>1 DEF SaveServers, StoreOK, Stores, SaveCalls,
                              Servers
    <2>5. FlagsOK'
      BY <1>0, <1>5 DEF SaveServers, FlagsOK
    <2> QED
      BY <1>0, <1>5, <2>3, <2>4, <2>5
      DEF SaveServers, PartsOK, IssuedOK, CountsOK, BoundsOK, boundVars
  <1>6. CASE SaveLast(c)
    <2>1. c \in SaveCalls
      BY <1>1, <1>6, Shapes DEF SaveLast
    <2>2. [by |-> c.by, n |-> c.n, at |-> "getId", server |-> c.server]
            \in TailCalls
      BY <2>1 DEF SaveCalls, TailCalls
    <2>6. [by |-> c.by, n |-> c.n, at |-> "getId", server |-> c.server]
            \in Calls
      BY <2>2, Zenon DEF Calls
    <2>3. CallsOK'
      BY <1>0, <1>6, <2>6, CallsChange DEF SaveLast, CallsOK
    <2>4. StoreOK'
      BY <1>0, <1>6, <2>1 DEF SaveLast, StoreOK, Stores, SaveCalls
    <2> QED
      BY <1>0, <1>6, <2>3, <2>4
      DEF SaveLast, PartsOK, IssuedOK, FlagsOK, CountsOK, BoundsOK,
          boundVars, pastVars
  <1> QED
    BY <1>2, <1>3, <1>4, <1>5, <1>6

\* The steps of autoConnect, and of a removal.
LEMMA StoreSteps ==
  ASSUME PartsOK, NEW c \in calls,
         \/ AutoSettings(c) \/ AutoLast(c)
         \/ RemoveWritesList(c) \/ RemoveReadsLast(c) \/ RemoveDropsLast(c)
  PROVE  PartsOK'
  <1>0. StoreOK /\ IssuedOK /\ CallsOK /\ FlagsOK /\ CountsOK /\ BoundsOK
    BY DEF PartsOK
  <1>1. c \in Calls
    BY <1>0 DEF CallsOK
  <1>2. CASE AutoSettings(c)
    <2>1. c \in AutoCalls
      BY <1>1, <1>2, Shapes DEF AutoSettings
    <2>2. [c EXCEPT !.at = "lastServer"] \in Calls
      BY <2>1 DEF Calls, AutoCalls
    <2>3. CallsOK'
      BY <1>0, <1>2, <2>2, CallsChange DEF AutoSettings, CallsOK
    <2> QED
      BY <1>0, <1>2, <2>3
      DEF AutoSettings, PartsOK, StoreOK, IssuedOK, FlagsOK, CountsOK,
          BoundsOK, boundVars, pastVars, storeVars
  <1>3. CASE AutoLast(c)
    <2>1. c \in AutoCalls
      BY <1>1, <1>3, Shapes DEF AutoLast
    <2>2. CallsOK'
      <3>1. CASE store.last = NONE
        BY <1>0, <1>3, <3>1, CallsChange DEF AutoLast, CallsOK
      <3>2. CASE store.last # NONE
        <4> DEFINE d == [by |-> c.by, n |-> c.n, at |-> "getId",
                         server |-> store.last]
        <4>1. d \in TailCalls
          BY <1>0, <2>1, <3>2 DEF AutoCalls, TailCalls, StoreOK, Stores
        <4>2. d \in Calls
          BY <4>1, Zenon DEF Calls
        <4>3. Becomes(c, d)
          BY <1>3, <3>2, Zenon DEF AutoLast
        <4> HIDE DEF d
        <4> QED
          BY <1>0, <4>2, <4>3, CallsChange DEF CallsOK
      <3> QED
        BY <3>1, <3>2
    <2> QED
      BY <1>0, <1>3, <2>2
      DEF AutoLast, PartsOK, StoreOK, IssuedOK, FlagsOK, CountsOK,
          BoundsOK, boundVars, pastVars, storeVars
  <1>4. CASE RemoveWritesList(c)
    <2>1. c \in RemoveCalls
      BY <1>1, <1>4, Shapes DEF RemoveWritesList
    <2>2. [c EXCEPT !.at = "readLast"] \in Calls
      BY <2>1 DEF Calls, RemoveCalls
    <2>3. CallsOK'
      BY <1>0, <1>4, <2>2, CallsChange DEF RemoveWritesList, CallsOK
    <2>4. StoreOK'
      BY <1>0, <1>4, <2>1 DEF RemoveWritesList, StoreOK, Stores, RemoveCalls
    <2>5. FlagsOK'
      BY <1>0, <1>4 DEF RemoveWritesList, FlagsOK
    <2> QED
      BY <1>0, <1>4, <2>3, <2>4, <2>5
      DEF RemoveWritesList, PartsOK, IssuedOK, CountsOK, BoundsOK, boundVars
  <1>5. CASE RemoveReadsLast(c)
    <2>1. c \in RemoveCalls
      BY <1>1, <1>5, Shapes DEF RemoveReadsLast
    <2>2. [c EXCEPT !.at = "drop"] \in Calls
      BY <2>1 DEF Calls, RemoveCalls
    <2>3. CallsOK'
      BY <1>0, <1>5, <2>2, CallsChange DEF RemoveReadsLast, CallsOK
    <2> QED
      BY <1>0, <1>5, <2>3
      DEF RemoveReadsLast, PartsOK, StoreOK, IssuedOK, FlagsOK, CountsOK,
          BoundsOK, boundVars, pastVars, storeVars
  <1>6. CASE RemoveDropsLast(c)
    <2>1. CallsOK'
      BY <1>0, <1>6, CallsChange DEF RemoveDropsLast, CallsOK
    <2>2. StoreOK'
      BY <1>0, <1>6 DEF RemoveDropsLast, StoreOK, Stores
    <2> QED
      BY <1>0, <1>6, <2>1, <2>2
      DEF RemoveDropsLast, PartsOK, IssuedOK, FlagsOK, CountsOK, BoundsOK,
          boundVars, pastVars
  <1> QED
    BY <1>2, <1>3, <1>4, <1>5, <1>6

\* What the user does on the screens.
LEMMA ScreenSteps ==
  ASSUME PartsOK, Screens
  PROVE  PartsOK'
  <1>0. StoreOK /\ IssuedOK /\ CallsOK /\ FlagsOK /\ CountsOK /\ BoundsOK
    BY DEF PartsOK
  <1>1. ASSUME NEW pc \in Pcs, PairTap(pc) PROVE PartsOK'
    <2> DEFINE c == [by |-> "pair", n |-> 1, at |-> IdRead("http", "newId"),
                     pc |-> pc, dev |-> DeviceId]
    <2>1. c \in PairCalls
      BY DeviceIdType DEF PairCalls, IdRead
    <2>2. Starts(c)
      BY <1>1, Zenon DEF PairTap
    <2>3. CallsOK'
      <3> HIDE DEF c
      <3> QED
        BY <1>0, <2>1, <2>2, CallsChange DEF CallsOK
    <2>4. CountsOK'
      BY <1>0, <1>1, DeviceIdType DEF PairTap, CountsOK
    <2>5. BoundsOK'
      BY <1>0, <1>1, Bounds DEF PairTap, Tap, BoundsOK
    <2> QED
      BY <1>0, <1>1, <2>3, <2>4, <2>5
      DEF PairTap, PartsOK, StoreOK, IssuedOK, FlagsOK, pastVars
  <1>2. ASSUME NEW pc \in Pcs, RemoveTap(pc) PROVE PartsOK'
    <2> DEFINE c == [by |-> "remove", n |-> 1, at |-> "filter",
                     pc |-> pc, servers |-> store.servers]
    <2>1. c \in RemoveCalls
      BY <1>0 DEF RemoveCalls, StoreOK, Stores
    <2>2. Starts(c)
      BY <1>2, Zenon DEF RemoveTap
    <2>3. CallsOK'
      <3> HIDE DEF c
      <3> QED
        BY <1>0, <2>1, <2>2, CallsChange DEF CallsOK
    <2>4. BoundsOK'
      BY <1>0, <1>2, Bounds DEF RemoveTap, Tap, BoundsOK
    <2> QED
      BY <1>0, <1>2, <2>3, <2>4
      DEF RemoveTap, PartsOK, StoreOK, IssuedOK, FlagsOK, CountsOK, pastVars,
          storeVars
  <1>3. CASE ReconnectTap
    <2>1. BoundsOK'
      BY <1>0, <1>3, Bounds DEF ReconnectTap, Tap, BoundsOK
    <2>2. AutoConnect("reconnect") \in AutoCalls
      BY DEF AutoConnect, AutoCalls, AutoCallers
    <2>3. calls' = calls \/ Starts(AutoConnect("reconnect"))
      BY <1>3, Zenon DEF ReconnectTap
    <2>4. CallsOK'
      BY <1>0, <2>2, <2>3, CallsChange DEF CallsOK
    <2> QED
      BY <1>0, <1>3, <2>1, <2>4
      DEF ReconnectTap, PartsOK, StoreOK, IssuedOK, FlagsOK, CountsOK,
          storeVars, pastVars
  <1>4. CASE TextTap
    <2>1. BoundsOK'
      BY <1>0, <1>4, Bounds DEF TextTap, Tap, BoundsOK
    <2> QED
      BY <1>0, <1>4, <2>1
      DEF TextTap, PartsOK, StoreOK, IssuedOK, CallsOK, FlagsOK, CountsOK,
          storeVars, opVars, pastVars
  <1>5. CASE DisconnectTap \/ ToggleTap \/ ResetTap
    <2>1. BoundsOK'
      BY <1>0, <1>5, Bounds
      DEF DisconnectTap, ToggleTap, ResetTap, Tap, BoundsOK
    <2>2. StoreOK'
      BY <1>0, <1>5
      DEF DisconnectTap, ToggleTap, ResetTap, StoreOK, Stores, storeVars
    <2>3. CountsOK'
      BY <1>0, <1>5
      DEF DisconnectTap, ToggleTap, ResetTap, CountsOK, opVars, storeVars
    <2> QED
      BY <1>0, <1>5, <2>1, <2>2, <2>3
      DEF DisconnectTap, ToggleTap, ResetTap, PartsOK, IssuedOK, CallsOK,
          FlagsOK, opVars, pastVars
  <1> QED
    BY <1>1, <1>2, <1>3, <1>4, <1>5 DEF Screens

\* A reset, the connection's own steps, the app's end, and the steps that
\* change nothing.
LEMMA OtherSteps ==
  ASSUME PartsOK, ClearAll \/ Connection \/ Cut \/ Restart \/ UNCHANGED vars
  PROVE  PartsOK'
  <1>0. StoreOK /\ IssuedOK /\ CallsOK /\ FlagsOK /\ CountsOK /\ BoundsOK
    BY DEF PartsOK
  <1>1. CASE Connection \/ UNCHANGED vars
    BY <1>0, <1>1
    DEF Connection, vars, PartsOK, StoreOK, IssuedOK, CallsOK, FlagsOK,
        CountsOK, BoundsOK, storeVars, opVars, boundVars, pastVars
  <1>2. CASE Cut
    <2>1. BoundsOK'
      BY <1>0, <1>2, Bounds DEF Cut, Fault, BoundsOK
    <2> QED
      BY <1>0, <1>2, <2>1
      DEF Cut, PartsOK, StoreOK, IssuedOK, CallsOK, FlagsOK, CountsOK,
          storeVars, opVars, pastVars
  <1>3. CASE Restart
    <2>1. BoundsOK'
      BY <1>0, <1>3, Bounds DEF Restart, Fault, BoundsOK
    <2>2. CallsOK'
      BY <1>3, MountType DEF Restart, CallsOK
    <2>3. FlagsOK' /\ CountsOK'
      BY <1>0, <1>3 DEF Restart, FlagsOK, CountsOK, HalfRemoved, storeVars
    <2> QED
      BY <1>0, <1>3, <2>1, <2>2, <2>3
      DEF Restart, PartsOK, StoreOK, IssuedOK, storeVars
  <1>4. CASE ClearAll
    <2>1. StoreOK'
      BY <1>4 DEF ClearAll, Empty, StoreOK, Stores
    <2>2. FlagsOK' /\ CountsOK'
      BY <1>0, <1>4 DEF ClearAll, FlagsOK, CountsOK, Holding
    <2> QED
      BY <1>0, <1>4, <2>1, <2>2
      DEF ClearAll, PartsOK, IssuedOK, CallsOK, BoundsOK, boundVars
  <1> QED
    BY <1>1, <1>2, <1>3, <1>4

\* Every operation keeps the types.
LEMMA OperationSteps ==
  ASSUME PartsOK, NEW c \in calls, Operation(c)
  PROVE  PartsOK'
  BY IdSteps, PairingSteps, StoreSteps, Zenon DEF Operation
-----------------------------------------------------------------------------
(* The theorems.                                                           *)

\* The invariant holds when the app is first started.
LEMMA InvStarts == Init => IInv
  <1> SUFFICES ASSUME Init PROVE IInv
    OBVIOUS
  <1>1. Sound(ws)
    BY ServiceStarts DEF Init
  <1>2. StoreOK
    BY DEF Init, Empty, StoreOK, Stores
  <1>3. IssuedOK
    BY DEF Init, IssuedOK
  <1>6. CountsOK
    BY DEF Init, CountsOK
  <1>7. FlagsOK
    BY DEF Init, FlagsOK
  <1>5. BoundsOK
    BY Bounds DEF Init, BoundsOK
  <1>4. CallsOK
    BY MountType DEF Init, CallsOK
  <1> QED
    BY <1>1, <1>2, <1>3, <1>4, <1>5, <1>6, <1>7, TypeParts
    DEF IInv, Sound, PartsOK

\* Every step keeps the invariant.
LEMMA InvHolds == IInv /\ [Next]_vars => IInv'
  <1> SUFFICES ASSUME IInv, [Next]_vars PROVE IInv'
    OBVIOUS
  <1>1. Sound(ws')
    BY ServiceStaysSound
  <1>2. PartsOK
    BY TypeParts DEF IInv
  <1>3. PartsOK'
    BY <1>2, Zenon, OperationSteps, ScreenSteps, OtherSteps DEF Next
  <1>4. TypeOK' <=> ws' \in SType /\ PartsOK'
    BY DEF TypeOK, SType, PartsOK, StoreOK, IssuedOK, CallsOK, FlagsOK,
           CountsOK, BoundsOK
  <1> QED
    BY <1>1, <1>3, <1>4 DEF IInv, Sound

\* The invariant holds in every state.
LEMMA SpecInv == Spec => []IInv
  BY InvStarts, InvHolds, PTL DEF Spec

\* Every variable of the app keeps its type, however many calls overlap: in
\* particular each holds what its next await needs.
THEOREM TypeCorrect == Spec => []TypeOK
  <1>1. IInv => TypeOK
    BY DEF IInv
  <1> QED
    BY <1>1, SpecInv, PTL

\* After disconnect() nothing is left that could connect, whatever operation
\* or socket was under way, until the user or autoConnect asks again.
THEOREM DisconnectIsKept == Spec => []DisconnectHolds
  <1>1. IInv => DisconnectHolds
    BY DEF IInv, Sound, Held, DisconnectHolds
  <1> QED
    BY <1>1, SpecInv, PTL

\* A phone that wants a connection has one socket or one timer, never both,
\* and neither only when it has given up and says so.
THEOREM PhoneNeverStuck == Spec => []NeverStuck
  <1>1. IInv => NeverStuck
    BY DEF IInv, Sound, Alive, NeverStuck
  <1> QED
    BY <1>1, SpecInv, PTL

\* "authenticated" on the screens is the PC's answer on the current socket.
THEOREM StatusHonest == Spec => []StatusIsHonest
  <1>1. IInv => StatusIsHonest
    BY DEF IInv, Sound, Honest, StatusIsHonest, Shown
  <1> QED
    BY <1>1, SpecInv, PTL
-----------------------------------------------------------------------------
(* The texts.                                                              *)

\* A socket that takes texts has taken those of the queue first.
Flushed(w) == w.sock \in {"open", "dying"} => w.pending = <<>>

TextInv == TextsKept /\ Flushed(ws)

\* A step that leaves the texts where they are, and opens no socket.
Quiet(w, v) == /\ v.wire = w.wire /\ v.pending = w.pending
               /\ v.sock \in {"open", "dying"} =>
                    w.sock \in {"open", "dying"}

\* _scheduleReconnect touches neither socket nor texts.
LEMMA ScheduleQuiet ==
  ASSUME NEW w \in SType
  PROVE  /\ ScheduleReconnect(w).wire = w.wire
         /\ ScheduleReconnect(w).pending = w.pending
         /\ ScheduleReconnect(w).sock = w.sock
  BY DEF ScheduleReconnect, Notify, ArmTimer, SType, ServiceType

\* _doConnect touches no text.
LEMMA DoConnectQuiet ==
  ASSUME NEW w \in SType, NEW v \in DoConnect(w)
  PROVE  Quiet(w, v)
  <1> DEFINE n == [w EXCEPT !.sock = "none", !.reply = "none",
                            !.status = "connecting"]
  <1>1. Notify(Teardown(w), "connecting") = n
    BY DEF Notify, Teardown, SType, ServiceType
  <1>2. n \in SType /\ n.wire = w.wire /\ n.pending = w.pending
        /\ n.sock = "none"
    BY DEF SType, ServiceType, Statuses
  <1>3. CASE v = [n EXCEPT !.sock = "connecting"]
    BY <1>2, <1>3 DEF Quiet, SType, ServiceType
  <1>4. CASE v = ScheduleReconnect(n)
    BY <1>2, <1>4, ScheduleQuiet DEF Quiet
  <1> QED
    BY <1>1, <1>3, <1>4 DEF DoConnect

\* connect touches no text.
LEMMA ConnectQuiet ==
  ASSUME NEW w \in SType, NEW t \in Targets, NEW v \in Connect(w, t)
  PROVE  Quiet(w, v)
  <1> DEFINE n == [w EXCEPT !.manual = FALSE, !.target = t, !.attempts = 0,
                            !.timer = FALSE]
  <1>2. n \in SType
    BY ZeroAttempts DEF SType, ServiceType
  <1>3. n.wire = w.wire /\ n.pending = w.pending /\ n.sock = w.sock
    BY DEF SType, ServiceType
  <1>4. ClearTimer([w EXCEPT !.manual = FALSE, !.target = t,
                             !.attempts = 0]) = n
    BY DEF ClearTimer, SType, ServiceType
  <1>5. v \in DoConnect(n)
    BY <1>4 DEF Connect
  <1>6. Quiet(n, v)
    BY <1>2, <1>5, DoConnectQuiet
  <1> QED
    BY <1>3, <1>6 DEF Quiet

\* reconnect touches no text.
LEMMA ReconnectQuiet ==
  ASSUME NEW w \in SType, NEW v \in Reconnect(w)
  PROVE  Quiet(w, v)
  <1> DEFINE n == [w EXCEPT !.manual = FALSE, !.attempts = 0,
                            !.timer = FALSE, !.sock = "none",
                            !.reply = "none"]
  <1>1. Teardown(ClearTimer([w EXCEPT !.manual = FALSE, !.attempts = 0])) = n
    BY DEF Teardown, ClearTimer, SType, ServiceType
  <1>2. n \in SType
    BY ZeroAttempts DEF SType, ServiceType
  <1>3. n.wire = w.wire /\ n.pending = w.pending /\ n.sock = "none"
    BY DEF SType, ServiceType
  <1>4. Quiet(n, v)
    BY <1>1, <1>2, DoConnectQuiet DEF Reconnect
  <1> QED
    BY <1>3, <1>4 DEF Quiet

\* disconnect touches no text.
LEMMA DisconnectQuiet ==
  ASSUME NEW w \in SType
  PROVE  Quiet(w, Disconnect(w))
  BY DEF Quiet, Disconnect, Notify, Teardown, ClearTimer, StopPing, SType,
         ServiceType

\* onclose touches no text.
LEMMA CloseQuiet ==
  ASSUME NEW w \in SType
  PROVE  Quiet(w, OnClose(w))
  <1> DEFINE n == [w EXCEPT !.sock = "none", !.reply = "none",
                            !.authed = FALSE, !.pinging = FALSE,
                            !.status = "disconnected"]
  <1>1. OnClose(w) = ScheduleReconnect(n)
    BY DEF OnClose, Notify, StopPing, SType, ServiceType
  <1>2. n \in SType /\ n.wire = w.wire /\ n.pending = w.pending
        /\ n.sock = "none"
    BY DEF SType, ServiceType, Statuses
  <1> QED
    BY <1>1, <1>2, ScheduleQuiet DEF Quiet

\* A quiet step keeps the texts.
LEMMA QuietKeeps ==
  ASSUME TextInv, Quiet(ws, ws'), typed' = typed
  PROVE  TextInv'
  BY DEF TextInv, TextsKept, Flushed, Quiet

\* The queue goes out before anything else (onopen).
LEMMA OpenKeepsTexts ==
  ASSUME TextInv, ws \in SType, Opens, typed' = typed
  PROVE  TextInv'
  <1>1. ws' = [ws EXCEPT !.sock = "open", !.attempts = 0,
                         !.status = "connected", !.reply = "asked",
                         !.pinging = TRUE,
                         !.wire = ws.wire \o ws.pending, !.pending = <<>>]
    BY DEF Opens, OnOpen, FlushPending, StartPing, Authenticate, Notify,
           SType, ServiceType
  <1>2. ws'.wire = ws.wire \o ws.pending /\ ws'.pending = <<>>
    BY <1>1 DEF SType, ServiceType
  <1>3. ws.wire \in Seq(Nat) /\ ws.pending \in Seq(Nat)
    BY DEF SType, ServiceType
  <1>4. (ws.wire \o ws.pending) \o <<>> = ws.wire \o ws.pending
    BY <1>3
  <1> QED
    BY <1>2, <1>4 DEF TextInv, TextsKept, Flushed

\* Appending to the second of two sequences appends to both.
LEMMA AppendConcat ==
  ASSUME NEW s \in Seq(Nat), NEW t \in Seq(Nat), NEW x \in Nat
  PROVE  s \o Append(t, x) = Append(s \o t, x)
  <1>1. Append(t, x) = t \o <<x>> /\ Append(s \o t, x) = (s \o t) \o <<x>>
    BY AppendIsConcat, ConcatProperties
  <1>2. <<x>> \in Seq(Nat)
    OBVIOUS
  <1> QED
    BY <1>1, <1>2, ConcatAssociative

\* Nothing follows an empty sequence.
LEMMA AppendEmpties ==
  ASSUME NEW s \in Seq(Nat), NEW x \in Nat
  PROVE  Append(s, x) \o <<>> = Append(s \o <<>>, x)
  <1>1. s \o <<>> = s
    OBVIOUS
  <1>2. Append(s, x) \in Seq(Nat)
    OBVIOUS
  <1>3. Append(s, x) \o <<>> = Append(s, x)
    BY <1>2, ConcatEmptySeq
  <1> QED
    BY <1>1, <1>3

\* A text goes behind all the others, on the socket or in the queue.
LEMMA SendKeepsTexts ==
  ASSUME TextInv, ws \in SType, NEW n \in Nat, typed = n, typed' = n + 1,
         ws' = Send(ws, typed')
  PROVE  TextInv'
  <1>0. ws.wire \in Seq(Nat) /\ ws.pending \in Seq(Nat)
    BY DEF SType, ServiceType
  <1>1. Append([i \in 1 .. n |-> i], n + 1) = [i \in 1 .. n + 1 |-> i]
    OBVIOUS
  <1>5. n + 1 \in Nat
    OBVIOUS
  <1>2. ws'.wire \o ws'.pending = Append(ws.wire \o ws.pending, n + 1)
    <2>1. CASE ws.sock \in {"open", "dying"}
      <3>1. ws.pending = <<>>
        BY <2>1 DEF TextInv, Flushed
      <3>2. ws'.wire = Append(ws.wire, n + 1) /\ ws'.pending = <<>>
        BY <2>1, <3>1 DEF Send, SType, ServiceType
      <3> QED
        BY <1>0, <1>5, <3>1, <3>2, AppendEmpties, Zenon
    <2>2. CASE ws.sock \notin {"open", "dying"}
      <3>1. ws'.wire = ws.wire /\ ws'.pending = Append(ws.pending, n + 1)
        BY <2>2 DEF Send, SType, ServiceType
      <3> QED
        BY <1>0, <1>5, <3>1, AppendConcat, Zenon
    <2> QED
      BY <2>1, <2>2
  <1>3. TextsKept'
    BY <1>1, <1>2 DEF TextInv, TextsKept
  <1>4. Flushed(ws')
    BY DEF TextInv, Flushed, Send, SType, ServiceType
  <1> QED
    BY <1>3, <1>4 DEF TextInv

\* Every step keeps the texts.
LEMMA TextSteps ==
  ASSUME IInv, TextInv, [Next]_vars
  PROVE  TextInv'
  <1> USE DEF IInv
  <1>0. ws \in SType
    BY DEF Sound
  <1>1. CASE UNCHANGED <<ws, typed>>
    BY <1>1 DEF TextInv, TextsKept, Flushed
  <1>2. ASSUME NEW c \in calls, Connects(c)
        PROVE  TextInv'
    <2>1. PICK t \in Targets : ws' \in Connect(ws, t)
      BY <1>2, ConnectsTo
    <2>2. typed' = typed
      BY <1>2 DEF Connects, boundVars
    <2> QED
      BY <1>0, <2>1, <2>2, ConnectQuiet, QuietKeeps
  <1>4. CASE ReconnectTap
    <2>1. CASE ws' \in Reconnect(ws)
      BY <1>0, <1>4, <2>1, ReconnectQuiet, QuietKeeps DEF ReconnectTap
    <2>2. CASE ws' = Notify(ws, "failed")
      <3>1. Quiet(ws, ws')
        BY <1>0, <2>2 DEF Notify, Quiet, SType, ServiceType
      <3> QED
        BY <1>4, <3>1, QuietKeeps DEF ReconnectTap
    <2> QED
      BY <1>4, <2>1, <2>2 DEF ReconnectTap
  <1>5. CASE TextTap
    <2>1. typed \in Nat
      BY Bounds DEF TypeOK
    <2> QED
      BY <1>0, <1>5, <2>1, SendKeepsTexts DEF TextTap
  <1>6. CASE DisconnectTap \/ ResetTap
    BY <1>0, <1>6, DisconnectQuiet, QuietKeeps DEF DisconnectTap, ResetTap
  <1>7. CASE Connection
    <2>0. typed' = typed
      BY <1>7 DEF Connection, boundVars
    <2>1. CASE Opens
      BY <1>0, <2>0, <2>1, OpenKeepsTexts
    <2>2. CASE Refused \/ Closes
      BY <1>0, <2>0, <2>2, CloseQuiet, QuietKeeps DEF Refused, Closes
    <2>3. CASE TimerFires
      <3> DEFINE n == [ws EXCEPT !.timer = FALSE]
      <3>1. n \in SType /\ n.wire = ws.wire /\ n.pending = ws.pending
            /\ n.sock = ws.sock
        BY <1>0 DEF SType, ServiceType
      <3>2. ws' \in DoConnect(n)
        BY <2>3 DEF TimerFires, ClearTimer
      <3>3. Quiet(n, ws')
        BY <3>1, <3>2, DoConnectQuiet
      <3>4. Quiet(ws, ws')
        BY <3>1, <3>3 DEF Quiet
      <3> QED
        BY <2>0, <3>4, QuietKeeps
    <2>4. CASE HandleAuthResponse \/ PcAnswers(Known(ws.target))
      <3>1. Quiet(ws, ws')
        BY <1>0, <2>4
        DEF HandleAuthResponse, PcAnswers, Notify, Quiet, SType, ServiceType
      <3> QED
        BY <2>0, <3>1, QuietKeeps
    <2> QED
      BY <1>7, <2>1, <2>2, <2>3, <2>4 DEF Connection
  <1>8. CASE Cut
    <2>1. Quiet(ws, ws')
      BY <1>0, <1>8 DEF Cut, Breaks, Quiet, SType, ServiceType
    <2> QED
      BY <1>8, <2>1, QuietKeeps DEF Cut
  <1>9. CASE Restart
    <2>1. ws'.wire = <<>> /\ ws'.pending = <<>> /\ typed' = 0
      BY <1>9 DEF Restart, Service0
    <2>2. <<>> \o <<>> = [i \in 1 .. 0 |-> i]
      OBVIOUS
    <2> QED
      BY <2>1, <2>2 DEF TextInv, TextsKept, Flushed
  <1>10. ASSUME NEW c \in calls, Operation(c) PROVE TextInv'
    BY <1>1, <1>2, <1>10, OperationQuiet
  <1>11. CASE \/ \E pc \in Pcs : PairTap(pc) \/ RemoveTap(pc)
              \/ ToggleTap \/ ClearAll \/ UNCHANGED vars
    BY <1>1, <1>11 DEF PairTap, RemoveTap, ToggleTap, ClearAll, vars,
                       boundVars
  <1> QED
    BY <1>4, <1>5, <1>6, <1>7, <1>8, <1>9, <1>10, <1>11, Zenon
    DEF Next, Screens

\* Every text the user was allowed to send is on a socket or in the queue,
\* once and in order.
THEOREM TextsAreKept == Spec => []TextsKept
  <1>1. Init => IInv /\ TextInv
    <2> SUFFICES ASSUME Init PROVE TextInv
      BY InvStarts
    <2>1. ws.wire = <<>> /\ ws.pending = <<>> /\ typed = 0
      BY DEF Init, Service0
    <2>2. <<>> \o <<>> = [i \in 1 .. 0 |-> i]
      OBVIOUS
    <2> QED
      BY <2>1, <2>2 DEF TextInv, TextsKept, Flushed
  <1>2. (IInv /\ TextInv) /\ [Next]_vars => (IInv /\ TextInv)'
    BY InvHolds, TextSteps
  <1>3. IInv /\ TextInv => TextsKept
    BY DEF TextInv
  <1> QED
    BY <1>1, <1>2, <1>3, PTL DEF Spec
-----------------------------------------------------------------------------
(* What is stored, and what the calls under way will store.                *)

\* Everything a pairing is about to make the last server is in the list; the
\* last server is in the list or about to be dropped.
ListInv ==
  /\ ~torn /\ ~raced =>
       \A c \in calls : c.at = "last" => c.server.pc \in store.servers
  /\ LastIsListed

\* Calls that only go on as far as the list and the last server can tell.
SameListing ==
  /\ (torn => torn') /\ (raced => raced')
  /\ store'.servers = store.servers /\ store'.last \in {store.last, NONE}
  /\ \A c \in calls' : c.at = "last" => c \in calls
  /\ \A c \in calls : c.at \in {"readLast", "drop"} =>
       c \in calls' \/ store'.last = NONE

\* Such a step keeps the list and the last server together.
LEMMA ListingKept == ASSUME ListInv, SameListing PROVE ListInv'
  BY DEF ListInv, LastIsListed, SameListing

\* The steps of a pairing.
LEMMA ListPairing ==
  ASSUME PartsOK, ListInv, NEW c \in calls,
         \/ PairAccepted(c) \/ PairFails(c) \/ ReadServers(c)
         \/ SaveServers(c) \/ SaveLast(c)
  PROVE  ListInv'
  <1>0. StoreOK /\ c \in Calls
    BY DEF PartsOK, CallsOK
  <1>1. CASE PairAccepted(c) \/ PairFails(c) \/ ReadServers(c)
    <2>1. /\ UNCHANGED <<store, torn, raced>>
          /\ c.at \in {"http", "answered"}
      BY <1>1 DEF PairAccepted, PairFails, ReadServers, storeVars, pastVars
    <2>2. \A d \in calls : d # c => d \in calls'
      BY <1>1 DEF PairAccepted, PairFails, ReadServers, Becomes, Ends
    <2>3. \A d \in calls' : d.at = "last" => d \in calls
      <3>1. CASE PairAccepted(c)
        BY <3>1 DEF PairAccepted, Becomes, Ends
      <3>2. CASE PairFails(c)
        BY <3>2 DEF PairFails, Ends
      <3>3. CASE ReadServers(c)
        <4>1. c \in SaveCalls
          BY <1>0, <3>3, Shapes DEF ReadServers
        <4> QED
          BY <3>3, <4>1 DEF ReadServers, Becomes, SaveCalls
      <3> QED
        BY <1>1, <3>1, <3>2, <3>3
    <2> QED
      BY <2>1, <2>2, <2>3, ListingKept DEF SameListing
  <1>2. CASE SaveServers(c)
    <2>1. c \in SaveCalls
      BY <1>0, <1>2, Shapes DEF SaveServers
    <2> DEFINE d == [c EXCEPT !.at = "last"]
    <2>2. /\ calls' = (calls \ {c}) \cup {d}
          /\ d.at = "last" /\ d.server = c.server
          /\ store'.servers = c.servers \cup {c.server.pc}
          /\ store'.last = store.last
          /\ raced' = raced /\ torn' = (torn \/ Stale(c))
          /\ c.at = "list"
      BY <1>0, <1>2, <2>1
      DEF SaveServers, Becomes, SaveCalls, StoreOK, Stores
    <2> HIDE DEF d
    <2>3. ~torn' => ~torn /\ store'.servers = store.servers
                                               \cup {c.server.pc}
      BY <2>2 DEF Stale
    <2> QED
      BY <2>2, <2>3 DEF ListInv, LastIsListed
  <1>3. CASE SaveLast(c)
    <2>1. /\ calls' = (calls \ {c}) \cup
               {[by |-> c.by, n |-> c.n, at |-> "getId",
                 server |-> c.server]}
          /\ store'.servers = store.servers /\ store'.last = c.server
          /\ UNCHANGED <<raced, torn>> /\ c.at = "last"
      BY <1>0, <1>3 DEF SaveLast, Becomes, StoreOK, Stores, pastVars
    <2> QED
      BY <2>1 DEF ListInv, LastIsListed
  <1> QED
    BY <1>1, <1>2, <1>3

\* The steps of a removal.
LEMMA ListRemoval ==
  ASSUME PartsOK, ListInv, NEW c \in calls,
         RemoveWritesList(c) \/ RemoveReadsLast(c) \/ RemoveDropsLast(c)
  PROVE  ListInv'
  <1>0. StoreOK /\ c \in Calls
    BY DEF PartsOK, CallsOK
  <1>1. c \in RemoveCalls
    BY <1>0, Shapes DEF RemoveWritesList, RemoveReadsLast, RemoveDropsLast
  <1>2. CASE RemoveWritesList(c)
    <2> DEFINE d == [c EXCEPT !.at = "readLast"]
    <2>2. /\ calls' = (calls \ {c}) \cup {d}
          /\ d.at = "readLast" /\ d.pc = c.pc
          /\ store'.servers = c.servers \ {c.pc}
          /\ store'.last = store.last
          /\ raced' = raced
          /\ torn' = (torn \/ Stale(c) \/ SavingLast(c.pc))
          /\ c.at = "filter"
      BY <1>0, <1>1, <1>2
      DEF RemoveWritesList, Becomes, RemoveCalls, StoreOK, Stores
    <2> HIDE DEF d
    <2>3. ~torn' => /\ ~torn /\ store'.servers = store.servers \ {c.pc}
                    /\ \A e \in calls : e.at = "last" => e.server.pc # c.pc
      BY <2>2 DEF Stale, SavingLast
    <2> QED
      BY <2>2, <2>3 DEF ListInv, LastIsListed
  <1>3. CASE RemoveReadsLast(c)
    <2>1. UNCHANGED <<store, raced, torn>> /\ c.at = "readLast"
      BY <1>3 DEF RemoveReadsLast, storeVars, pastVars
    <2>2. CASE store.last # NONE /\ store.last.pc = c.pc
      <3> DEFINE d == [c EXCEPT !.at = "drop"]
      <3>1. /\ calls' = (calls \ {c}) \cup {d}
            /\ d.at = "drop" /\ d.pc = c.pc
        BY <1>1, <1>3, <2>2 DEF RemoveReadsLast, Becomes, RemoveCalls
      <3> HIDE DEF d
      <3> QED
        BY <2>1, <3>1 DEF ListInv, LastIsListed
    <2>3. CASE ~(store.last # NONE /\ store.last.pc = c.pc)
      <3>1. calls' = calls \ {c}
        BY <1>3, <2>3 DEF RemoveReadsLast, Ends
      <3> QED
        BY <2>1, <2>3, <3>1 DEF ListInv, LastIsListed
    <2> QED
      BY <2>2, <2>3
  <1>4. CASE RemoveDropsLast(c)
    <2>1. /\ calls' = calls \ {c} /\ UNCHANGED <<raced, torn>>
          /\ store'.last = NONE /\ store'.servers = store.servers
      BY <1>0, <1>4 DEF RemoveDropsLast, Ends, StoreOK, Stores, pastVars
    <2> QED
      BY <2>1, ListingKept DEF SameListing
  <1> QED
    BY <1>2, <1>3, <1>4

\* The other calls touch neither the list nor the last server.
LEMMA ListCalls ==
  ASSUME PartsOK, ListInv, NEW c \in calls,
         \/ KeepId(c) \/ GetId(c) \/ Connects(c)
         \/ AutoSettings(c) \/ AutoLast(c)
  PROVE  ListInv'
  <1>0. StoreOK /\ c \in Calls
    BY DEF PartsOK, CallsOK
  <1>1. /\ store'.servers = store.servers /\ store'.last = store.last
        /\ UNCHANGED <<raced, torn>>
    BY <1>0 DEF KeepId, StoreId, GetId, Connects, AutoSettings, AutoLast,
                StoreOK, Stores, storeVars, pastVars
  <1>2. c.at \notin {"readLast", "drop"}
    BY DEF KeepId, GetId, Connects, AutoSettings, AutoLast
  <1>3. \A d \in calls : d # c => d \in calls'
    BY DEF KeepId, StoreId, GetId, Connects, AutoSettings, AutoLast,
           Becomes, Ends
  <1>4. \A d \in calls' : d.at = "last" => d \in calls
    <2>1. CASE KeepId(c)
      <3>1. c \in PairCalls \/ c \in ReadyCalls
        BY <1>0, <2>1, Shapes DEF KeepId
      <3> DEFINE d == [c EXCEPT !.at = IF c.at = "newId" THEN "http"
                                       ELSE "ready"]
      <3>2. d.at # "last"
        BY <3>1 DEF PairCalls, ReadyCalls
      <3>3. calls' = (calls \ {c}) \cup {d}
        BY <2>1, Zenon DEF KeepId, StoreId, Becomes
      <3> HIDE DEF d
      <3> QED
        BY <3>2, <3>3
    <2>2. CASE GetId(c)
      BY <2>2 DEF GetId, Becomes, IdRead
    <2>3. CASE Connects(c)
      BY <2>3 DEF Connects, Ends
    <2>4. CASE AutoSettings(c)
      <3>1. c \in AutoCalls
        BY <1>0, <2>4, Shapes DEF AutoSettings
      <3> QED
        BY <2>4, <3>1 DEF AutoSettings, AutoCalls, Becomes, Ends
    <2>5. CASE AutoLast(c)
      BY <2>5 DEF AutoLast, Becomes, Ends
    <2> QED
      BY <2>1, <2>2, <2>3, <2>4, <2>5
  <1> QED
    BY <1>1, <1>2, <1>3, <1>4, ListingKept DEF SameListing

\* A reset and the end of the app keep them together, or are excepted.
LEMMA ListEnds ==
  ASSUME PartsOK, ListInv, ClearAll \/ Restart
  PROVE  ListInv'
  <1>1. CASE ClearAll
    <2>1. /\ UNCHANGED <<calls, torn>> /\ store'.last = NONE
          /\ raced' = (raced \/ Holding)
      BY <1>1 DEF ClearAll, Empty
    <2> QED
      BY <2>1 DEF ListInv, LastIsListed, Holding
  <1>2. CASE Restart
    <2>1. /\ calls' = {AutoConnect("mount")} /\ UNCHANGED <<store, raced>>
          /\ torn' = (torn \/ HalfRemoved)
          /\ AutoConnect("mount").at = "settings"
      BY <1>2 DEF Restart, storeVars, AutoConnect
    <2> QED
      BY <2>1 DEF ListInv, LastIsListed, HalfRemoved
  <1> QED
    BY <1>1, <1>2

\* What starts a call, and what starts none.
LEMMA ListScreens ==
  ASSUME PartsOK, ListInv, Screens \/ Connection \/ Cut \/ UNCHANGED vars
  PROVE  ListInv'
  <1>0. StoreOK /\ CallsOK
    BY DEF PartsOK
  <1>1. ASSUME NEW pc \in Pcs, PairTap(pc) PROVE ListInv'
    <2> DEFINE c == [by |-> "pair", n |-> 1, at |-> IdRead("http", "newId"),
                     pc |-> pc, dev |-> DeviceId]
    <2>1. c \in PairCalls
      BY DeviceIdType DEF PairCalls, IdRead
    <2>2. Starts(c)
      BY <1>1, Zenon DEF PairTap
    <2>3. PICK d \in PairCalls : calls' = calls \cup {d}
      <3> HIDE DEF c
      <3> QED
        BY <1>0, <2>1, <2>2, CallsChange DEF CallsOK
    <2>4. d.at # "last"
      BY DEF PairCalls
    <2> QED
      BY <1>1, <2>3, <2>4, ListingKept DEF PairTap, pastVars, SameListing
  <1>2. ASSUME NEW pc \in Pcs, RemoveTap(pc) PROVE ListInv'
    <2> DEFINE c == [by |-> "remove", n |-> 1, at |-> "filter",
                     pc |-> pc, servers |-> store.servers]
    <2>1. c \in RemoveCalls
      BY <1>0 DEF RemoveCalls, StoreOK, Stores
    <2>2. Starts(c)
      BY <1>2, Zenon DEF RemoveTap
    <2>3. PICK d \in RemoveCalls : calls' = calls \cup {d}
      <3> HIDE DEF c
      <3> QED
        BY <1>0, <2>1, <2>2, CallsChange DEF CallsOK
    <2>4. d.at # "last"
      BY DEF RemoveCalls
    <2> QED
      BY <1>2, <2>3, <2>4, ListingKept
      DEF RemoveTap, pastVars, storeVars, SameListing
  <1>3. CASE ReconnectTap
    <2>1. AutoConnect("reconnect") \in AutoCalls
      BY DEF AutoConnect, AutoCalls, AutoCallers
    <2>2. calls' = calls \/ Starts(AutoConnect("reconnect"))
      BY <1>3, Zenon DEF ReconnectTap
    <2>3. calls' = calls \/ \E d \in AutoCalls : calls' = calls \cup {d}
      BY <1>0, <2>1, <2>2, CallsChange DEF CallsOK
    <2>4. \A d \in AutoCalls : d.at # "last"
      BY DEF AutoCalls
    <2> QED
      BY <1>3, <2>3, <2>4, ListingKept
      DEF ReconnectTap, pastVars, storeVars, SameListing
  <1>4. CASE \/ TextTap \/ DisconnectTap \/ ToggleTap \/ ResetTap
             \/ Connection \/ Cut \/ UNCHANGED vars
    <2>1. UNCHANGED <<calls, raced, torn>>
      BY <1>4 DEF TextTap, DisconnectTap, ToggleTap, ResetTap, Connection,
                  Cut, vars, opVars, pastVars
    <2>2. store'.servers = store.servers /\ store'.last = store.last
      BY <1>0, <1>4
      DEF TextTap, DisconnectTap, ToggleTap, ResetTap, Connection, Cut,
          vars, storeVars, StoreOK, Stores
    <2> QED
      BY <2>1, <2>2, ListingKept DEF SameListing
  <1> QED
    BY <1>1, <1>2, <1>3, <1>4 DEF Screens

\* The server the app will connect to when it starts is one the user sees in
\* the list, or about to be dropped, through any number of overlapping
\* pairings and removals and wherever the app ends: unless one of them wrote
\* a list over another's change, a server was removed between the two writes
\* of its pairing, a removal was cut off between its own, or a reset
\* overtook a call.
THEOREM LastStaysListed == Spec => []LastIsListed
  <1>1. Init => ListInv
    BY DEF Init, ListInv, LastIsListed, AutoConnect, Empty
  <1>2. IInv /\ ListInv /\ [Next]_vars => ListInv'
    <2> SUFFICES ASSUME IInv, ListInv, [Next]_vars PROVE ListInv'
      OBVIOUS
    <2>1. PartsOK
      BY TypeParts DEF IInv
    <2>2. ASSUME NEW c \in calls, Operation(c) PROVE ListInv'
      BY <2>1, <2>2, Zenon, ListPairing, ListRemoval, ListCalls
      DEF Operation
    <2> QED
      BY <2>1, <2>2, Zenon, ListEnds, ListScreens DEF Next
  <1>3. ListInv => LastIsListed
    BY DEF ListInv
  <1> QED
    BY <1>1, <1>2, <1>3, SpecInv, PTL DEF Spec
-----------------------------------------------------------------------------
(* Tokens and the device ids they were issued for.                         *)

\* A token among those issued, to this server for this device id.
Issued(server, dev) ==
  server.tok \in 1 .. Len(issued) /\ IssuedTo(server, dev)

\* What a call holds goes with the device id of the store.
Matches(c) ==
  /\ c.at = "http" => c.dev = store.id
  /\ c.at \in {"answered", "list", "last", "getId", "ready"} =>
       Issued(c.server, store.id)
  /\ c.at = "ready" => c.dev = store.id
  /\ c.at # "lateId"

\* Whatever will be sent or stored goes with the device id of the store.
CredInv ==
  ~raced /\ ~twoIds =>
    /\ ws.target # NONE => Issued(ws.target, ws.target.dev)
    /\ store.last # NONE => Issued(store.last, store.id)
    /\ \A c \in calls : Matches(c)

\* A new token leaves the earlier ones as they are.
LEMMA StaysIssued ==
  ASSUME IssuedOK, NEW s, NEW dev, Issued(s, dev),
         \/ issued' = issued
         \/ \E e \in [pc : Pcs, dev : Nat] : issued' = Append(issued, e)
  PROVE  Issued(s, dev)'
  <1>1. CASE issued' = issued
    BY <1>1 DEF Issued, IssuedTo
  <1>2. ASSUME NEW e \in [pc : Pcs, dev : Nat], issued' = Append(issued, e)
        PROVE  Issued(s, dev)'
    <2>1. /\ Len(issued) \in Nat /\ Len(issued') = Len(issued) + 1
          /\ \A i \in 1 .. Len(issued) : issued'[i] = issued[i]
      BY <1>2 DEF IssuedOK
    <2>2. s.tok \in 1 .. Len(issued')
      BY <2>1 DEF Issued
    <2> QED
      BY <2>1, <2>2 DEF Issued, IssuedTo
  <1> QED
    BY <1>1, <1>2

\* The device id of a token that was issued is an id.
LEMMA IssuedHasId ==
  ASSUME IssuedOK, NEW s, NEW dev, Issued(s, dev)
  PROVE  dev # NONE
  <1>1. issued[s.tok] \in [pc : Pcs, dev : Nat]
    <2>1. s.tok \in 1 .. Len(issued)
      BY DEF Issued
    <2> QED
      BY <2>1, ElementOfSeq DEF IssuedOK
  <1>2. NONE \notin Nat
    BY AppAssumption
  <1> QED
    BY <1>1, <1>2 DEF Issued, IssuedTo

\* Only connect changes whom the service is for.
LEMMA TargetStays ==
  ASSUME IInv, [Next]_vars, \A c \in calls : ~Connects(c), ~Restart
  PROVE  ws'.target = ws.target
  <1>0. ws \in SType
    BY DEF IInv, Sound
  <1>1. ASSUME NEW w \in SType
        PROVE  ScheduleReconnect(w).target = w.target
    BY DEF ScheduleReconnect, Notify, ArmTimer, SType, ServiceType
  <1>2. ASSUME NEW w \in SType, NEW v \in DoConnect(w)
        PROVE  v.target = w.target
    <2> DEFINE n == Notify(Teardown(w), "connecting")
    <2>1. n \in SType /\ n.target = w.target
      BY DEF Notify, Teardown, SType, ServiceType, Statuses
    <2>2. [n EXCEPT !.sock = "connecting"].target = n.target
      BY <2>1 DEF SType, ServiceType
    <2> QED
      BY <1>1, <2>1, <2>2 DEF DoConnect
  <1>3. CASE ReconnectTap
    <2>1. ASSUME ws' \in Reconnect(ws) PROVE ws'.target = ws.target
      <3> DEFINE m == [ws EXCEPT !.manual = FALSE, !.attempts = 0]
                 n == Teardown(ClearTimer(m))
      <3>1. n \in SType /\ n.target = ws.target
        BY <1>0, ZeroAttempts DEF Teardown, ClearTimer, SType, ServiceType
      <3>2. ws' \in DoConnect(n)
        BY <2>1 DEF Reconnect
      <3> QED
        BY <1>2, <3>1, <3>2
    <2>2. Notify(ws, "failed").target = ws.target
      BY <1>0 DEF Notify, SType, ServiceType
    <2> QED
      BY <1>3, <2>1, <2>2 DEF ReconnectTap
  <1>4. CASE TextTap
    BY <1>0, <1>4 DEF TextTap, Send, SType, ServiceType
  <1>5. CASE DisconnectTap \/ ResetTap
    BY <1>0, <1>5
    DEF DisconnectTap, ResetTap, Disconnect, Notify, Teardown, ClearTimer,
        StopPing, SType, ServiceType
  <1>6. CASE Cut
    BY <1>0, <1>6 DEF Cut, Breaks, SType, ServiceType
  <1>7. CASE Connection
    <2>1. CASE Opens
      BY <1>0, <2>1
      DEF Opens, OnOpen, FlushPending, StartPing, Authenticate, Notify,
          SType, ServiceType
    <2>2. CASE Refused \/ Closes
      <3> DEFINE n == Notify(StopPing([ws EXCEPT !.sock = "none",
                          !.reply = "none", !.authed = FALSE]),
                        "disconnected")
      <3>1. n \in SType /\ n.target = ws.target
        BY <1>0 DEF Notify, StopPing, SType, ServiceType, Statuses
      <3>2. ws' = ScheduleReconnect(n)
        BY <2>2 DEF Refused, Closes, OnClose
      <3> QED
        BY <1>1, <3>1, <3>2
    <2>3. CASE TimerFires
      <3> DEFINE n == ClearTimer(ws)
      <3>1. n \in SType /\ n.target = ws.target
        BY <1>0 DEF ClearTimer, SType, ServiceType
      <3>2. ws' \in DoConnect(n)
        BY <2>3 DEF TimerFires
      <3> QED
        BY <1>2, <3>1, <3>2
    <2>4. CASE HandleAuthResponse \/ PcAnswers(Known(ws.target))
      BY <1>0, <2>4
      DEF HandleAuthResponse, PcAnswers, Notify, SType, ServiceType
    <2> QED
      BY <1>7, <2>1, <2>2, <2>3, <2>4 DEF Connection
  <1>8. ASSUME NEW c \in calls, Operation(c) PROVE ws'.target = ws.target
    <2>1. ~Connects(c)
      OBVIOUS
    <2> QED
      BY <1>8, <2>1, OperationQuiet
  <1>9. CASE \/ \E pc \in Pcs : PairTap(pc) \/ RemoveTap(pc)
             \/ ToggleTap \/ ClearAll \/ UNCHANGED vars
    BY <1>9 DEF PairTap, RemoveTap, ToggleTap, ClearAll, vars
  <1> QED
    BY <1>3, <1>4, <1>5, <1>6, <1>7, <1>8, <1>9, Zenon DEF Next, Screens

\* A connecting call makes the service one for its server, with the id of
\* the store.
LEMMA ConnectsToIssued ==
  ASSUME IInv, NEW c \in calls, Connects(c), Issued(c.server, c.dev)
  PROVE  Issued(ws'.target, ws'.target.dev)
  <1>1. PICK t \in Targets : /\ t = [pc |-> c.server.pc,
                                     tok |-> c.server.tok, dev |-> c.dev]
                             /\ ws' \in Connect(ws, t)
    BY ConnectsTo DEF IInv
  <1> DEFINE m == [ws EXCEPT !.manual = FALSE, !.target = t, !.attempts = 0]
             n == Notify(Teardown(ClearTimer(m)), "connecting")
  <1>2. n \in SType /\ n.target = t
    BY ZeroAttempts
    DEF IInv, Sound, Notify, Teardown, ClearTimer, SType, ServiceType,
        Statuses
  <1>3. ws' \in {[n EXCEPT !.sock = "connecting"], ScheduleReconnect(n)}
    BY <1>1 DEF Connect, DoConnect
  <1>4. ws'.target = t
    <2> HIDE DEF n
    <2> QED
      BY <1>2, <1>3
      DEF ScheduleReconnect, Notify, ArmTimer, SType, ServiceType
  <1>5. t.pc = c.server.pc /\ t.tok = c.server.tok /\ t.dev = c.dev
    BY <1>1
  <1> QED
    BY <1>4, <1>5 DEF Issued, IssuedTo

\* A step that issues nothing, keeps the device id, and only starts or moves
\* calls that match.
SameTokens ==
  /\ (raced => raced') /\ (twoIds => twoIds')
  /\ issued' = issued /\ store'.id = store.id
  /\ \A d \in calls' : d \in calls \/ (CredInv /\ ~raced /\ ~twoIds
                                         => Matches(d))

\* Such a step keeps tokens and device ids together.
LEMMA TokensKept ==
  ASSUME CredInv, SameTokens,
         \/ ws'.target = ws.target
         \/ Issued(ws'.target, ws'.target.dev),
         \/ store'.last \in {store.last, NONE}
         \/ \E c \in calls : c.at = "last" /\ store'.last = c.server
  PROVE  CredInv'
  <1> SUFFICES ASSUME ~raced', ~twoIds'
               PROVE  /\ ws'.target # NONE =>
                           Issued(ws.target, ws.target.dev)'
                      /\ store'.last # NONE => Issued(store.last, store.id)'
                      /\ \A c \in calls' : Matches(c)'
    BY DEF CredInv
  <1>1. /\ ~raced /\ ~twoIds /\ issued' = issued /\ store'.id = store.id
        /\ \A d \in calls' : Matches(d)
    BY DEF SameTokens, CredInv
  <1>2. \A c \in calls' : Matches(c)'
    BY <1>1 DEF Matches, Issued, IssuedTo
  <1>3. store'.last # NONE => Issued(store'.last, store.id)
    BY <1>1 DEF CredInv, Matches
  <1>4. ws'.target # NONE => Issued(ws'.target, ws'.target.dev)
    BY <1>1 DEF CredInv
  <1> QED
    BY <1>1, <1>2, <1>3, <1>4 DEF Issued, IssuedTo

\* The steps of getOrCreateDeviceId and of the connecting call.
LEMMA CredIds ==
  ASSUME IInv, CredInv, NEW c \in calls,
         KeepId(c) \/ GetId(c) \/ Connects(c),
         Connects(c) \/ ws'.target = ws.target
  PROVE  CredInv'
  <1>0. StoreOK /\ IssuedOK /\ calls \subseteq Calls /\ c \in Calls
    BY TypeParts DEF IInv, PartsOK, CallsOK
  <1>1. CASE KeepId(c)
    <2> SUFFICES ASSUME ~raced', ~twoIds' PROVE CredInv'
      BY DEF CredInv
    <2>1. /\ ~raced /\ ~twoIds /\ store.id = NONE
          /\ issued' = issued /\ ws' = ws
          /\ store'.last = store.last /\ store'.id = c.dev
      BY <1>0, <1>1 DEF KeepId, StoreId, StoreOK, Stores
    <2>2. c.at = "newId" /\ c \in PairCalls
      BY <1>0, <1>1, <2>1, Shapes DEF KeepId, CredInv, Matches
    <2>3. store.last = NONE
      BY <1>0, <2>1, IssuedHasId DEF CredInv
    <2>4. \A d \in calls : d.at \in {"newId", "settings", "lastServer",
                                     "filter", "readLast", "drop"}
      <3> SUFFICES ASSUME NEW d \in calls
                   PROVE  d.at \in {"newId", "settings", "lastServer",
                                    "filter", "readLast", "drop"}
        OBVIOUS
      <3>1. Matches(d)
        BY <2>1 DEF CredInv
      <3>2. d.at \notin {"answered", "list", "last", "getId", "ready"}
        BY <1>0, <2>1, <3>1, IssuedHasId DEF Matches
      <3>3. d.at # "lateId"
        BY <3>1 DEF Matches
      <3>4. d.at # "http"
        <4> SUFFICES ASSUME d.at = "http" PROVE FALSE
          OBVIOUS
        <4>1. d \in PairCalls
          BY <1>0, Shapes
        <4> QED
          BY <2>1, <3>1, <4>1, AppAssumption DEF Matches, PairCalls
      <3>5. d.at \in {"newId", "http", "answered", "list", "last",
                      "settings", "lastServer", "getId", "lateId", "ready",
                      "filter", "readLast", "drop"}
        BY <1>0 DEF Calls, PairCalls, SaveCalls, AutoCalls, TailCalls,
                    ReadyCalls, RemoveCalls
      <3> QED
        BY <3>2, <3>3, <3>4, <3>5
    <2> DEFINE e == [c EXCEPT !.at = "http"]
    <2>5. calls' = (calls \ {c}) \cup {e} /\ e.at = "http" /\ e.dev = c.dev
      BY <1>1, <2>2 DEF KeepId, StoreId, Becomes, PairCalls
    <2> HIDE DEF e
    <2>6. \A d \in calls' : Matches(d)'
      BY <2>1, <2>4, <2>5 DEF Matches
    <2> QED
      BY <2>1, <2>3, <2>6 DEF CredInv, Issued, IssuedTo
  <1>2. CASE GetId(c)
    <2> DEFINE d == [by |-> c.by, n |-> c.n,
                     at |-> IdRead("ready", "lateId"),
                     server |-> c.server, dev |-> DeviceId]
    <2>1. /\ UNCHANGED <<store, issued, raced, twoIds>> /\ c.at = "getId"
          /\ calls' = (calls \ {c}) \cup {d}
      BY <1>2 DEF GetId, Becomes, pastVars
    <2>2. ASSUME ~raced, ~twoIds PROVE Matches(d)
      <3>1. Issued(c.server, store.id)
        BY <2>1, <2>2 DEF CredInv, Matches
      <3>2. store.id # NONE
        BY <1>0, <3>1, IssuedHasId
      <3>3. d.at = "ready" /\ d.dev = store.id /\ d.server = c.server
        BY <3>2 DEF IdRead, DeviceId
      <3> HIDE DEF d
      <3> QED
        BY <3>1, <3>3 DEF Matches
    <2> HIDE DEF d
    <2>3. ws'.target = ws.target
      BY <1>2 DEF GetId
    <2>4. SameTokens
      BY <2>1, <2>2 DEF SameTokens
    <2> QED
      BY <2>1, <2>3, <2>4, TokensKept
  <1>3. CASE Connects(c)
    <2>1. /\ UNCHANGED <<store, issued, raced, twoIds>> /\ c.at = "ready"
          /\ calls' = calls \ {c}
      BY <1>3 DEF Connects, Ends, storeVars, pastVars
    <2>2. SameTokens
      BY <2>1 DEF SameTokens
    <2>3. CASE raced \/ twoIds
      BY <2>1, <2>3 DEF CredInv
    <2>4. CASE ~raced /\ ~twoIds
      <3>1. Issued(c.server, c.dev)
        BY <2>1, <2>4 DEF CredInv, Matches
      <3>2. Issued(ws'.target, ws'.target.dev)
        BY <1>3, <3>1, ConnectsToIssued
      <3> QED
        BY <2>1, <2>2, <3>2, TokensKept
    <2> QED
      BY <2>3, <2>4
  <1> QED
    BY <1>1, <1>2, <1>3

\* The steps of a pairing, of autoConnect and of a removal.
LEMMA CredSteps ==
  ASSUME IInv, CredInv, NEW c \in calls, ws' = ws,
         \/ PairAccepted(c) \/ PairFails(c) \/ ReadServers(c)
         \/ SaveServers(c) \/ SaveLast(c) \/ AutoSettings(c) \/ AutoLast(c)
         \/ RemoveWritesList(c) \/ RemoveReadsLast(c) \/ RemoveDropsLast(c)
  PROVE  CredInv'
  <1>0. StoreOK /\ IssuedOK /\ c \in Calls
    BY TypeParts DEF IInv, PartsOK, CallsOK
  <1>1. CASE PairAccepted(c)
    <2> SUFFICES ASSUME ~raced, ~twoIds PROVE CredInv'
      BY <1>1 DEF CredInv, PairAccepted, pastVars
    <2>s. PICK s : s = [pc |-> c.pc, tok |-> Len(issued) + 1]
      OBVIOUS
    <2> DEFINE d == [by |-> c.by, n |-> c.n, at |-> "answered",
                     server |-> s, servers |-> {}]
               e == [pc |-> c.pc, dev |-> c.dev]
    <2>1. c \in PairCalls /\ c.dev = store.id
      BY <1>0, <1>1, Shapes DEF PairAccepted, CredInv, Matches
    <2>2. e \in [pc : Pcs, dev : Nat]
      BY <2>1 DEF PairCalls
    <2>3. /\ store' = store /\ issued' = Append(issued, e)
          /\ calls' = (calls \ {c}) \cup {d} \/ calls' = calls \ {c}
      BY <1>1, <2>s DEF PairAccepted, Becomes, Ends, storeVars
    <2>4. Issued(s, store.id)'
      <3>1. Len(issued) \in Nat /\ Len(issued') = Len(issued) + 1
            /\ issued'[Len(issued) + 1] = e
        BY <1>0, <2>2, <2>3 DEF IssuedOK
      <3>2. e = [pc |-> s.pc, dev |-> store'.id] /\ s.tok = Len(issued')
        BY <2>s, <2>1, <2>3, <3>1
      <3>3. Len(issued') \in 1 .. Len(issued')
        BY <3>1
      <3> HIDE DEF e
      <3> QED
        BY <3>1, <3>2, <3>3 DEF Issued, IssuedTo
    <2> HIDE DEF e
    <2>5. \A t, dev : Issued(t, dev) => Issued(t, dev)'
      BY <1>0, <2>2, <2>3, StaysIssued
    <2>6. \A f \in calls : Matches(f)'
      BY <2>3, <2>5 DEF CredInv, Matches
    <2>7. Matches(d)'
      BY <2>3, <2>4 DEF Matches
    <2> HIDE DEF d
    <2>8. \A f \in calls' : Matches(f)'
      BY <2>3, <2>6, <2>7
    <2>9. ws.target # NONE => Issued(ws.target, ws.target.dev)'
      BY <2>5 DEF CredInv, Issued, IssuedTo
    <2> QED
      BY <2>3, <2>5, <2>8, <2>9 DEF CredInv, Issued, IssuedTo
  <1>2. CASE ~PairAccepted(c)
    <2>1. UNCHANGED <<issued, raced, twoIds>> /\ store'.id = store.id
      BY <1>0, <1>2
      DEF PairFails, ReadServers, SaveServers, SaveLast, AutoSettings,
          AutoLast, RemoveWritesList, RemoveReadsLast, RemoveDropsLast,
          StoreOK, Stores, storeVars, pastVars
    <2>2. \/ store'.last \in {store.last, NONE}
          \/ c.at = "last" /\ store'.last = c.server
      BY <1>0, <1>2
      DEF PairFails, ReadServers, SaveServers, SaveLast, AutoSettings,
          AutoLast, RemoveWritesList, RemoveReadsLast, RemoveDropsLast,
          StoreOK, Stores, storeVars
    <2>3. \A d \in calls' : d \in calls \/ (CredInv /\ ~raced /\ ~twoIds
                                              => Matches(d))
      <3>1. CASE PairFails(c)
        BY <3>1 DEF PairFails, Ends
      <3>2. CASE ReadServers(c) \/ SaveServers(c)
        <4>1. c \in SaveCalls
          BY <1>0, <3>2, Shapes DEF ReadServers, SaveServers
        <4>2. PICK d \in SaveCalls :
                /\ calls' = (calls \ {c}) \cup {d}
                /\ d.server = c.server /\ d.at \in {"list", "last"}
          <5>1. CASE ReadServers(c)
            <6>1. [c EXCEPT !.at = "list", !.servers = store.servers]
                    \in SaveCalls
              BY <1>0, <4>1 DEF SaveCalls, StoreOK, Stores
            <6> QED
              BY <4>1, <5>1, <6>1 DEF ReadServers, Becomes, SaveCalls
          <5>2. CASE SaveServers(c)
            <6>1. [c EXCEPT !.at = "last"] \in SaveCalls
              BY <4>1 DEF SaveCalls
            <6> QED
              BY <4>1, <5>2, <6>1 DEF SaveServers, Becomes, SaveCalls
          <5> QED
            BY <3>2, <5>1, <5>2
        <4>3. c.at \in {"answered", "list"}
          BY <3>2 DEF ReadServers, SaveServers
        <4> QED
          BY <4>2, <4>3 DEF CredInv, Matches
      <3>3. CASE SaveLast(c)
        BY <3>3 DEF SaveLast, Becomes, CredInv, Matches
      <3>4. CASE AutoSettings(c)
        <4>1. c \in AutoCalls
          BY <1>0, <3>4, Shapes DEF AutoSettings
        <4> QED
          BY <3>4, <4>1 DEF AutoSettings, Becomes, Ends, AutoCalls, Matches
      <3>5. CASE AutoLast(c)
        BY <3>5 DEF AutoLast, Becomes, Ends, CredInv, Matches
      <3>6. CASE RemoveWritesList(c) \/ RemoveReadsLast(c)
                   \/ RemoveDropsLast(c)
        <4>1. c \in RemoveCalls
          BY <1>0, <3>6, Shapes
          DEF RemoveWritesList, RemoveReadsLast, RemoveDropsLast
        <4> QED
          BY <3>6, <4>1
          DEF RemoveWritesList, RemoveReadsLast, RemoveDropsLast, Becomes,
              Ends, RemoveCalls, Matches
      <3> QED
        BY <1>2, <3>1, <3>2, <3>3, <3>4, <3>5, <3>6
    <2>4. SameTokens
      BY <2>1, <2>3 DEF SameTokens
    <2> QED
      BY <2>2, <2>4, TokensKept
  <1> QED
    BY <1>1, <1>2

\* A reset leaves nothing behind, unless it overtook a call; the end of the
\* app leaves what is stored.
LEMMA CredEnds ==
  ASSUME IInv, CredInv, ClearAll \/ Restart
  PROVE  CredInv'
  <1>1. CASE ClearAll
    <2>1. /\ UNCHANGED <<ws, issued, calls, twoIds>> /\ store'.last = NONE
          /\ raced' = (raced \/ Holding)
      BY <1>1 DEF ClearAll, Empty
    <2>2. ~Holding => \A c \in calls' : Matches(c)'
      BY <2>1 DEF Holding, Matches
    <2> QED
      BY <2>1, <2>2 DEF CredInv, Issued, IssuedTo
  <1>2. CASE Restart
    <2>1. /\ UNCHANGED <<store, issued, raced, twoIds>>
          /\ ws'.target = NONE
          /\ calls' = {AutoConnect("mount")}
      BY <1>2 DEF Restart, storeVars, Service0
    <2>2. \A c \in calls' : Matches(c)'
      BY <2>1 DEF AutoConnect, Matches
    <2> QED
      BY <2>1, <2>2 DEF CredInv, Issued, IssuedTo
  <1> QED
    BY <1>1, <1>2

\* What the user does, and the connection's own steps, leave target, tokens
\* and last server as they are.
LEMMA CredScreens ==
  ASSUME IInv, CredInv, ws'.target = ws.target,
         Screens \/ Connection \/ Cut \/ UNCHANGED vars
  PROVE  CredInv'
  <1>0. PartsOK /\ StoreOK /\ CallsOK
    BY TypeParts DEF IInv, PartsOK
  <1>1. ASSUME NEW pc \in Pcs, PairTap(pc) PROVE CredInv'
    <2> DEFINE c == [by |-> "pair", n |-> 1, at |-> IdRead("http", "newId"),
                     pc |-> pc, dev |-> DeviceId]
    <2>1. c \in PairCalls
      BY <1>0, DeviceIdType DEF PairCalls, IdRead
    <2>2. Starts(c)
      BY <1>1, Zenon DEF PairTap
    <2>3. PICK d \in PairCalls : /\ calls' = calls \cup {d}
                                 /\ \E n : d = [c EXCEPT !.n = n]
      <3> HIDE DEF c
      <3> QED
        BY <1>0, <2>1, <2>2, CallsChange DEF CallsOK
    <2>4. d.at = IdRead("http", "newId") /\ d.dev = DeviceId
      BY <2>3
    <2>5. Matches(d)
      BY <2>4 DEF IdRead, DeviceId, Matches
    <2>6. SameTokens
      BY <1>1, <2>3, <2>5 DEF PairTap, pastVars, SameTokens
    <2> QED
      BY <1>1, <2>6, TokensKept DEF PairTap
  <1>2. ASSUME NEW pc \in Pcs, RemoveTap(pc) PROVE CredInv'
    <2> DEFINE c == [by |-> "remove", n |-> 1, at |-> "filter",
                     pc |-> pc, servers |-> store.servers]
    <2>1. c \in RemoveCalls
      BY <1>0 DEF RemoveCalls, StoreOK, Stores
    <2>2. Starts(c)
      BY <1>2, Zenon DEF RemoveTap
    <2>3. PICK d \in RemoveCalls : calls' = calls \cup {d}
      <3> HIDE DEF c
      <3> QED
        BY <1>0, <2>1, <2>2, CallsChange DEF CallsOK
    <2>4. Matches(d)
      BY DEF RemoveCalls, Matches
    <2>5. SameTokens
      BY <1>2, <2>3, <2>4 DEF RemoveTap, pastVars, storeVars, SameTokens
    <2> QED
      BY <1>2, <2>5, TokensKept DEF RemoveTap, storeVars
  <1>3. CASE ReconnectTap
    <2>1. AutoConnect("reconnect") \in AutoCalls
      BY DEF AutoConnect, AutoCalls, AutoCallers
    <2>2. calls' = calls \/ Starts(AutoConnect("reconnect"))
      BY <1>3, Zenon DEF ReconnectTap
    <2>3. calls' = calls \/ \E d \in AutoCalls : calls' = calls \cup {d}
      BY <1>0, <2>1, <2>2, CallsChange DEF CallsOK
    <2>4. \A d \in AutoCalls : Matches(d)
      BY DEF AutoCalls, Matches
    <2>5. SameTokens
      BY <1>3, <2>3, <2>4 DEF ReconnectTap, pastVars, storeVars, SameTokens
    <2> QED
      BY <1>3, <2>5, TokensKept DEF ReconnectTap, storeVars
  <1>4. CASE \/ TextTap \/ DisconnectTap \/ ToggleTap \/ ResetTap
             \/ Connection \/ Cut \/ UNCHANGED vars
    <2>1. UNCHANGED <<issued, calls, raced, twoIds>>
      BY <1>4 DEF TextTap, DisconnectTap, ToggleTap, ResetTap, Connection,
                  Cut, vars, opVars, pastVars
    <2>2. store'.id = store.id /\ store'.last = store.last
      BY <1>0, <1>4
      DEF TextTap, DisconnectTap, ToggleTap, ResetTap, Connection, Cut,
          vars, storeVars, StoreOK, Stores
    <2>3. SameTokens
      BY <2>1, <2>2 DEF SameTokens
    <2> QED
      BY <2>2, <2>3, TokensKept
  <1> QED
    BY <1>1, <1>2, <1>3, <1>4 DEF Screens

\* Every step keeps tokens and device ids together.
LEMMA CredHolds ==
  ASSUME IInv, CredInv, [Next]_vars
  PROVE  CredInv'
  <1>1. ASSUME NEW c \in calls, Connects(c) PROVE CredInv'
    BY <1>1, CredIds
  <1>2. CASE Restart
    BY <1>2, CredEnds
  <1>3. CASE (\A c \in calls : ~Connects(c)) /\ ~Restart
    <2>1. ws'.target = ws.target
      BY <1>3, TargetStays
    <2>2. ASSUME NEW c \in calls, Operation(c) PROVE CredInv'
      <3>1. ws' = ws
        BY <1>3, <2>2, OperationQuiet
      <3> QED
        BY <2>1, <2>2, <3>1, CredIds, CredSteps, Zenon DEF Operation
    <2> QED
      BY <2>1, <2>2, CredEnds, CredScreens, Zenon DEF Next
  <1> QED
    BY <1>1, <1>2, <1>3

\* The phone authenticates with a token issued to the device id it sends,
\* and what it stored will do so again, through any number of overlapping
\* pairings, connects and removals: unless a reset overtook a call under way,
\* or two first pairings each stored an id.
THEOREM TokensMatch == Spec => []CredentialsMatch
  <1>1. Init => CredInv
    BY DEF Init, CredInv, Matches, AutoConnect, Empty, Service0
  <1>2. IInv /\ CredInv /\ [Next]_vars => CredInv'
    BY CredHolds
  <1>3. CredInv => CredentialsMatch
    BY DEF CredInv, Issued, CredentialsMatch
  <1> QED
    BY <1>1, <1>2, <1>3, SpecInv, PTL DEF Spec
=============================================================================
