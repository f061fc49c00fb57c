--------------------------------- MODULE Pc ---------------------------------
(***************************************************************************)
(* A PC and its phones: either server, with pairing, AUTH, reconnection,   *)
(* expiring codes, and a process that may end at any moment.               *)
(***************************************************************************)
EXTENDS GoPairing, NodePairing

Phones ==
  \E d \in Devices :
    \/ \E k \in Codes : PhoneAsks(d, k) \/ PhoneAsksOnSocket(d, k)
    \/ PhoneGivesUp(d)
    \/ PhoneConnects(d)

\* The server's own steps, as its runtime schedules them.
Running == proc \in {"up", "stopping"}
Server ==
  /\ Running
  /\ \/ backend = "go" /\ GoServer
     \/ backend = "node" /\ NodeServer

\* A five-minute timer fires.
Expiry ==
  /\ Running
  /\ \E k \in timers : \/ backend = "go" /\ GoExpire(k)
                       \/ backend = "node" /\ NodeExpire(k)

Pair == proc = "up" /\ StartPairing

Start == \/ backend = "go" /\ GoStart
         \/ backend = "node" /\ NodeStart

Next ==
  \/ Phones
  \/ Server
  \/ Expiry
  \/ Pair
  \/ Halt
  \/ backend = "go" /\ GoStop
  \/ Start
  \/ \E c \in Conns : Drop(c)

Spec == Init /\ [][Next]_vars
FairSpec == Spec /\ WF_vars(Server)
-----------------------------------------------------------------------------
(* Properties.                                                             *)

\* A code that is accepted has a timer of its own left to end it, whatever
\* codes were issued, used and expired before (startPairing).
ActiveHasTimer == code # NONE => code \in timers

\* The server finds the code of request q to be the active one.
Accepts(q) == req[q].at = "sent" /\ req'[q].at \in Busy

\* From the answer that a phone is paired on, its code lets no further request
\* in: on either way to pair, and whatever codes and timers came and went
\* meanwhile.  Requests accepted before the answer still pair their phones,
\* any number of them (handlePairRequest, /pair-http).
ToldEndsCode ==
  [][\A q, r \in Reqs : Accepts(q) /\ req[r].at \in {"told", "lost"} =>
                          req[q].code # req[r].code]_vars

\* The requests of d whose token the phone never got.
Unheard(d) == {r \in Reqs : req[r].dev = d /\ req[r].at \in
                              Busy \cup {"lost", "dead"}}

\* The token a phone was told last is the one the server accepts, unless the
\* phone has a request it has heard no answer of: through other phones'
\* saves, AUTHs, and the end of the process.  Go either knows the device
\* after a restart or does not start; Node only if no save was overlapped or
\* cut off (addDevice, save, load).
ToldIsKnown ==
  proc = "up" /\ (backend = "go" \/ clean) =>
    \A d \in Devices :
      tok[d] # NONE => devices[d] \in {tok[d]} \cup Unheard(d)

\* An entry of the clients map is a connection whose close is still to be
\* noticed.  On Node this excludes an entry that a pairing request makes
\* after its own connection has closed (the defer of handleClient, the
\* 'close' listener).
EntryIsLive ==
  \A d \in Devices : clients[d] # NONE =>
    \/ Readable(clients[d])
    \/ backend = "node" /\ \E r \in Reqs : req[r].conn = clients[d]

\* A connection that authenticated and that nobody has closed is its
\* device's entry: a second connection of the device closes the first, in
\* whatever order their AUTHs are handled (handleAuth).
ReplacedIsClosed ==
  \A c \in Conns :
    conn[c].auth \in {"entered", "in"} /\ conn[c].link = "open" =>
      clients[conn[c].dev] = c

\* A code ends by its own timer, by a pairing that completes, or with the
\* process; a timer of an earlier code leaves it alone.
EndsForCause ==
  code # NONE /\ code' = NONE /\ proc' # "off" =>
    \/ code \notin timers'
    \/ \E r \in Reqs : req[r].at = "saving" /\ req'[r].at # "saving"

\* "6-digit codes expire after 5 minutes" (README): not earlier.
CodeEndsForCause == [][EndsForCause]_vars

\* The same of the Go server, whose timer compares the code.
GoCodeEndsForCause == [][backend = "go" => EndsForCause]_vars

\* A request whose code was accepted is answered, or dies with the process:
\* nobody keeps the store's mutex, no continuation is forgotten.
EveryRequestEnds ==
  \A r \in Reqs : (req[r].at \in Busy) ~> (req[r].at \notin Busy)
=============================================================================
