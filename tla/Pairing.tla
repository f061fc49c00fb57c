------------------------------ MODULE Pairing ------------------------------
(***************************************************************************)
(* What both servers keep about the phones they know: the pairing code and *)
(* its timers, the device store in memory and on disk, the clients map,    *)
(* and the requests and connections of the phones.  GoPairing and          *)
(* NodePairing add the handlers, Pc composes them.  The properties both    *)
(* servers share are stated here.                                          *)
(***************************************************************************)
EXTENDS Naturals, FiniteSets

CONSTANTS
  NONE,
  Devices,     \* phones, by device id
  MaxReqs,     \* bound: pairing requests
  MaxConns,    \* bound: WebSocket connections
  MaxCodes,    \* bound: pairing codes issued
  MaxFaults    \* bound: broken connections and ends of the PC process

ASSUME PairingAssumption ==
  /\ {MaxReqs, MaxConns, MaxCodes, MaxFaults} \subseteq Nat
  /\ NONE \notin Nat

VARIABLES
  backend,  \* which of the two servers runs
  proc,     \* its process: "up", "stopping", "off", or
            \* "refused" to start
  faults,   \* connections broken or given up, ends of the process
  code,     \* pairingCode, NONE while pairingActive is false
  issued,   \* codes issued so far; a code is its number
  timers,   \* codes whose five minutes still run
  devices,  \* the store in memory: the token of each device
  disk,     \* devices.enc: whole, emptied by a save, or mixed from two
  saves,    \* saves under way
  clean,    \* no save met another, or the end of the process
  req,      \* per pairing request: how far it is, what it asks
  conn,     \* per connection: its link, its AUTH, its device, its token
  clients,  \* the clients map: the connection of each device
  asking,   \* the phone's own request, NONE when it waits for no answer
  tok       \* the token the phone holds

storeVars == <<devices, disk, saves, clean>>
procVars  == <<backend, proc, faults>>
codeVars  == <<code, issued, timers>>
phoneVars == <<asking, tok>>
vars == <<procVars, codeVars, storeVars, phoneVars, req, conn, clients>>

Reqs   == 1 .. MaxReqs
Conns  == 1 .. MaxConns
Codes  == 1 .. MaxCodes
Tokens == Reqs \cup {NONE}          \* a token is drawn per request
DeviceMaps == [Devices -> Tokens]
Nothing == [d \in Devices |-> NONE]
Link(link, d, t) == [link |-> link, auth |-> "new", dev |-> d, tok |-> t]
Gone == Link("gone", NONE, NONE)

\* A save carries the map as it was when it was serialised; "open" until the
\* file has been opened, and so emptied.
Saves == [of : {"pair", "auth"}, id : Reqs \cup Conns, map : DeviceMaps,
          open : BOOLEAN]
Busy == {"checked", "saving", "cleared"}

TypeOK ==
  /\ backend \in {"go", "node"}
  /\ proc \in {"up", "stopping", "off", "refused"}
  /\ faults \in 0 .. MaxFaults
  /\ code \in Codes \cup {NONE}
  /\ issued \in 0 .. MaxCodes
  /\ timers \subseteq 1 .. issued
  /\ devices \in DeviceMaps
  /\ disk \in [is : {"whole", "empty", "mixed"}, map : DeviceMaps]
  /\ saves \subseteq Saves
  /\ backend = "go" => Cardinality(saves) <= 1
  /\ clean \in BOOLEAN
  /\ req \in [Reqs -> [at : {"idle", "sent", "refused", "told", "lost",
                             "dead"} \cup Busy,
                       dev : Devices \cup {NONE}, code : Codes \cup {NONE},
                       conn : Conns \cup {NONE}]]
  /\ conn \in [Conns -> [link : {"unused", "open", "closing", "gone"},
                         auth : {"new", "entered", "in", "refused"},
                         dev : Devices \cup {NONE}, tok : Tokens]]
  /\ clients \in [Devices -> Conns \cup {NONE}]
  /\ asking \in [Devices -> Tokens]
  /\ tok \in [Devices -> Tokens]

Init ==
  /\ backend \in {"go", "node"}
  /\ proc = "up"
  /\ faults = 0
  /\ code = NONE
  /\ issued = 0
  /\ timers = {}
  /\ devices = Nothing
  /\ disk = [is |-> "whole", map |-> Nothing]
  /\ saves = {}
  /\ clean = TRUE
  /\ req = [r \in Reqs |-> [at |-> "idle", dev |-> NONE, code |-> NONE,
                            conn |-> NONE]]
  /\ conn = [c \in Conns |-> Link("unused", NONE, NONE)]
  /\ clients = Nothing
  /\ asking = Nothing
  /\ tok = Nothing
-----------------------------------------------------------------------------
(* The phones.                                                             *)

Fault == faults < MaxFaults /\ faults' = faults + 1
Unused == {c \in Conns : conn[c].link = "unused"}
Fresh(S) == CHOOSE x \in S : \A y \in S : x <= y

\* The phone waits for no answer on connections that closed.
Unasked(closed) ==
  [d \in Devices |-> IF asking[d] # NONE /\ req[asking[d]].conn \in closed
                     THEN NONE ELSE asking[d]]

\* The phone opens socket c, having torn its older one down.
Opened(c, d, t) ==
  [x \in Conns |->
     IF x = c THEN Link("open", d, t)
     ELSE IF conn[x].dev = d /\ conn[x].link = "open"
          THEN [conn[x] EXCEPT !.link = "closing"]
          ELSE conn[x]]

\* A user typed code k, which was issued; the request is over connection c.
Ask(d, k, c) ==
  LET idle == {r \in Reqs : req[r].at = "idle"}
      r == Fresh(idle)
  IN /\ proc = "up" /\ idle # {} /\ asking[d] = NONE /\ k <= issued
     /\ asking' = [asking EXCEPT ![d] = r]
     /\ req' = [req EXCEPT ![r] = [at |-> "sent", dev |-> d, code |-> k,
                                   conn |-> c]]
     /\ UNCHANGED <<procVars, codeVars, storeVars, clients, tok>>

\* pairViaHttp.
PhoneAsks(d, k) == Ask(d, k, NONE) /\ UNCHANGED conn

\* sendPairRequest, on a socket opened for it.
PhoneAsksOnSocket(d, k) ==
  /\ Unused # {}
  /\ Ask(d, k, Fresh(Unused))
  /\ conn' = Opened(Fresh(Unused), d, NONE)

\* pairViaHttp gives up after ten seconds, or its connection breaks.
PhoneGivesUp(d) ==
  /\ asking[d] # NONE /\ req[asking[d]].conn = NONE
  /\ Fault
  /\ asking' = [asking EXCEPT ![d] = NONE]
  /\ UNCHANGED <<backend, proc, codeVars, storeVars, req, conn, clients, tok>>

\* A paired phone connects; its AUTH is on the way.
PhoneConnects(d) ==
  /\ proc = "up" /\ tok[d] # NONE /\ Unused # {}
  /\ conn' = Opened(Fresh(Unused), d, tok[d])
  /\ asking' = Unasked({c \in Conns : conn[c].dev = d})
  /\ UNCHANGED <<procVars, codeVars, storeVars, tok, req, clients>>

\* The network, or the phone, ends connection c, and the request on it.
Drop(c) ==
  /\ conn[c].link = "open"
  /\ Fault
  /\ conn' = [conn EXCEPT ![c].link = "closing"]
  /\ asking' = Unasked({c})
  /\ UNCHANGED <<backend, proc, codeVars, storeVars, tok, req, clients>>
-----------------------------------------------------------------------------
(* Parts of the handlers.                                                  *)

\* A frame of connection c that has arrived can still be handled while the
\* connection closes.
Readable(c) == conn[c].link \in {"open", "closing"}
HasArrived(r) == req[r].at = "sent" /\ (req[r].conn # NONE =>
                                          Readable(req[r].conn))
Valid(r) == code # NONE /\ code = req[r].code

\* The answer of request r, unless the phone has given up on it.
Answered(r) ==
  LET d == req[r].dev
      heard == /\ asking[d] = r
               /\ req[r].conn # NONE => conn[req[r].conn].link = "open"
  IN /\ asking' = IF heard THEN [asking EXCEPT ![d] = NONE] ELSE asking
     /\ tok' = IF heard THEN [tok EXCEPT ![d] = r] ELSE tok
     /\ req' = [req EXCEPT ![r].at = IF heard THEN "told" ELSE "lost"]

\* Request r ended without effect.
Over(r, at) == [req[r] EXCEPT !.at = at, !.code = NONE, !.conn = NONE]

\* "Invalid or expired pairing code".
Refuse(r) ==
  LET d == req[r].dev
  IN /\ HasArrived(r) /\ ~Valid(r)
     /\ req' = [req EXCEPT ![r] = Over(r, "refused")]
     /\ asking' = IF asking[d] = r THEN [asking EXCEPT ![d] = NONE]
                  ELSE asking
     /\ UNCHANGED <<procVars, codeVars, storeVars, conn, clients, tok>>

\* Mutant of Enter: the older connection is left open.
EnterBeside(c, d, auth) ==
  /\ clients' = [clients EXCEPT ![d] = c]
  /\ conn' = [conn EXCEPT ![c].auth = auth]

\* c becomes the entry of its device; an older entry's connection is closed.
Enter(c, d, auth) ==
  /\ clients' = [clients EXCEPT ![d] = c]
  /\ conn' = [x \in Conns |->
       IF x = c THEN [conn[x] EXCEPT !.auth = auth]
       ELSE IF x = clients[d] /\ conn[x].link = "open"
            THEN [conn[x] EXCEPT !.link = "closing"]
            ELSE conn[x]]

\* The connection of a pairing request that came over a socket is entered.
EnterPaired(r) ==
  IF req[r].conn = NONE THEN UNCHANGED <<conn, clients>>
  ELSE Enter(req[r].conn, req[r].dev, "in")

\* handleAuth's token test; what a failed one answers changes nothing here.
TokenValid(c) == devices[conn[c].dev] = conn[c].tok
AuthWaits(c) == Readable(c) /\ conn[c].auth = "new" /\ conn[c].tok # NONE
RefuseAuth(c) ==
  /\ AuthWaits(c) /\ ~TokenValid(c)
  /\ conn' = [conn EXCEPT ![c].auth = "refused"]
  /\ UNCHANGED <<procVars, codeVars, storeVars, phoneVars, req, clients>>

\* The connection has ended and its handler takes it out of the map.
Leave(c) ==
  /\ conn[c].link = "closing"
  /\ conn' = [conn EXCEPT ![c] = Gone]
  /\ clients' = [d \in Devices |-> IF clients[d] = c THEN NONE
                                   ELSE clients[d]]
  /\ UNCHANGED <<procVars, codeVars, storeVars, phoneVars, req>>

\* The bytes of save s reach a file it has opened.  Another save may have
\* written since: what is longer of it stays behind.
Write(s) ==
  /\ s.open
  /\ saves' = saves \ {s}
  /\ \/ disk' = [is |-> "whole", map |-> s.map]
     \/ disk.is # "empty" /\ disk' = [is |-> "mixed", map |-> Nothing]
  /\ UNCHANGED <<procVars, codeVars, phoneVars, devices, clean, req, conn,
                 clients>>
Saving(of, id) == \E s \in saves : s.of = of /\ s.id = id

\* Mutant of StartPairing: a timer is armed only when none runs.
StartPairingOneTimer ==
  /\ issued < MaxCodes
  /\ issued' = issued + 1
  /\ code' = issued + 1
  /\ timers' = IF timers = {} THEN {issued + 1} ELSE timers
  /\ UNCHANGED <<procVars, storeVars, phoneVars, req, conn, clients>>

\* startPairing: a new code with a timer of its own.
StartPairing ==
  /\ issued < MaxCodes
  /\ issued' = issued + 1
  /\ code' = issued + 1
  /\ timers' = timers \cup {issued + 1}
  /\ UNCHANGED <<procVars, storeVars, phoneVars, req, conn, clients>>
-----------------------------------------------------------------------------
(* The process.                                                            *)

\* A crash, or the end of quit, which waits for no connection's handler.
Halt ==
  /\ proc \in {"up", "stopping"}
  /\ IF proc = "up" THEN Fault ELSE UNCHANGED faults
  /\ proc' = "off"
  /\ code' = NONE
  /\ timers' = {}
  /\ devices' = Nothing
  /\ saves' = {}
  /\ clean' = (clean /\ saves = {})
  /\ clients' = Nothing
  /\ req' = [r \in Reqs |-> IF req[r].at \in Busy \cup {"sent"}
                            THEN Over(r, "dead") ELSE req[r]]
  /\ conn' = [c \in Conns |-> IF conn[c].link = "unused" THEN conn[c]
                              ELSE Gone]
  /\ asking' = Nothing       \* their connections break with the process
  /\ UNCHANGED <<backend, issued, disk, tok>>
=============================================================================
