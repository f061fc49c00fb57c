----------------------------- MODULE GoPairing -----------------------------
(***************************************************************************)
(* Pairing, AUTH and the device store of the Go server (server.go,         *)
(* store.go).  A save holds the store's mutex from the change of the map   *)
(* to the last byte; the pairing code is read under mu, and cleared under  *)
(* mu after the save.                                                      *)
(***************************************************************************)
EXTENDS Pairing

\* Mutant of GoExpire: the timer does not compare the code.
GoExpireAny(k) ==
  /\ k \in timers
  /\ timers' = timers \ {k}
  /\ code' = NONE
  /\ UNCHANGED <<procVars, issued, storeVars, phoneVars, req, conn, clients>>

\* The code's own timer: it compares the code, and so spares a newer one.
GoExpire(k) ==
  /\ k \in timers
  /\ timers' = timers \ {k}
  /\ code' = IF code = k THEN NONE ELSE code
  /\ UNCHANGED <<procVars, issued, storeVars, phoneVars, req, conn, clients>>

\* The store's mutex is free.
StoreFree == saves = {}

\* handlePairRequest, handlePairHTTP: the code is read under RLock.
GoCheck(r) ==
  /\ HasArrived(r) /\ Valid(r)
  /\ req' = [req EXCEPT ![r].at = "checked"]
  /\ UNCHANGED <<procVars, codeVars, storeVars, phoneVars, conn, clients>>

\* AddDevice: the map changes and save() empties the file, under the mutex.
GoAddDevice(r) ==
  LET map == [devices EXCEPT ![req[r].dev] = r]
  IN /\ req[r].at = "checked" /\ StoreFree
     /\ devices' = map
     /\ saves' = {[of |-> "pair", id |-> r, map |-> map, open |-> TRUE]}
     /\ disk' = [is |-> "empty", map |-> Nothing]
     /\ req' = [req EXCEPT ![r].at = "saving"]
     /\ UNCHANGED <<procVars, codeVars, phoneVars, clean, conn, clients>>

\* Mutant of GoClear: the HTTP handler forgets the code.
GoClearWsOnly(r) ==
  /\ req[r].at = "saving" /\ ~Saving("pair", r)
  /\ code' = IF req[r].conn = NONE THEN code ELSE NONE
  /\ req' = [req EXCEPT ![r].at = "cleared"]
  /\ UNCHANGED <<procVars, issued, timers, storeVars, phoneVars, conn,
                 clients>>

\* Mutant of GoClear: a code that has gone meanwhile ends the handler.
GoClearIfActive(r) ==
  /\ code # NONE /\ req[r].at = "saving" /\ ~Saving("pair", r)
  /\ code' = NONE
  /\ req' = [req EXCEPT ![r].at = "cleared"]
  /\ UNCHANGED <<procVars, issued, timers, storeVars, phoneVars, conn,
                 clients>>

\* The code is cleared, whichever it is by then.
GoClear(r) ==
  /\ req[r].at = "saving" /\ ~Saving("pair", r)
  /\ code' = NONE
  /\ req' = [req EXCEPT ![r].at = "cleared"]
  /\ UNCHANGED <<procVars, issued, timers, storeVars, phoneVars, conn,
                 clients>>

\* The connection, if there is one, is entered, and the phone is answered.
GoAnswer(r) ==
  /\ req[r].at = "cleared"
  /\ EnterPaired(r)
  /\ Answered(r)
  /\ UNCHANGED <<procVars, codeVars, storeVars>>

\* handleAuth up to the unlock of mu.
GoAuth(c) ==
  /\ AuthWaits(c) /\ StoreFree /\ TokenValid(c)
  /\ Enter(c, conn[c].dev, "entered")
  /\ UNCHANGED <<procVars, codeVars, storeVars, phoneVars, req>>

\* Mutant of GoTouch: lastSeen is saved without the mutex.
GoTouchUnlocked(c) ==
  /\ conn[c].auth = "entered"
  /\ saves' = saves \cup
       {[of |-> "auth", id |-> c, map |-> devices, open |-> TRUE]}
  /\ disk' = [is |-> "empty", map |-> Nothing]
  /\ conn' = [conn EXCEPT ![c].auth = "in"]
  /\ UNCHANGED <<procVars, codeVars, phoneVars, devices, clean, req,
                 clients>>

\* UpdateLastSeen: the map is saved again; AUTH_RESP follows the save.
GoTouch(c) ==
  /\ conn[c].auth = "entered" /\ StoreFree
  /\ saves' = {[of |-> "auth", id |-> c, map |-> devices, open |-> TRUE]}
  /\ disk' = [is |-> "empty", map |-> Nothing]
  /\ conn' = [conn EXCEPT ![c].auth = "in"]
  /\ UNCHANGED <<procVars, codeVars, phoneVars, devices, clean, req,
                 clients>>

\* The goroutine of connection c is inside a handler.
Handling(c) ==
  \/ conn[c].auth = "entered"
  \/ Saving("auth", c)
  \/ \E r \in Reqs : req[r].conn = c /\ req[r].at \in Busy

\* Mutant of GoLeave: the entry is removed by a goroutine of its own.
GoLeaveEarly(c) == Leave(c)

\* handleClient's deferred function.
GoLeave(c) == ~Handling(c) /\ Leave(c)

GoServer ==
  \/ \E r \in Reqs : Refuse(r) \/ GoCheck(r) \/ GoAddDevice(r)
                     \/ GoClear(r) \/ GoAnswer(r)
  \/ \E c \in Conns : GoAuth(c) \/ GoTouch(c) \/ GoLeave(c)
                      \/ (StoreFree /\ RefuseAuth(c))
  \/ \E s \in saves : Write(s)

\* Stop closes the clients' connections, then waits up to five seconds for
\* HTTP requests; the handlers run on until Halt.
GoStop ==
  LET closed == {c \in Conns : \E d \in Devices : clients[d] = c}
  IN /\ proc = "up"
     /\ Fault
     /\ proc' = "stopping"
     /\ conn' = [c \in Conns |->
                   IF c \in closed /\ conn[c].link = "open"
                   THEN [conn[c] EXCEPT !.link = "closing"] ELSE conn[c]]
     /\ asking' = Unasked(closed)
     /\ UNCHANGED <<backend, codeVars, storeVars, req, clients, tok>>

\* NewStore: a file that does not decrypt keeps the server from starting.
GoStart ==
  /\ proc = "off"
  /\ IF disk.is = "whole"
     THEN proc' = "up" /\ devices' = disk.map
     ELSE proc' = "refused" /\ UNCHANGED devices
  /\ UNCHANGED <<backend, faults, codeVars, disk, saves, clean, phoneVars,
                 req, conn, clients>>
=============================================================================
