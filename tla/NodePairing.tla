---------------------------- MODULE NodePairing ----------------------------
(***************************************************************************)
(* Pairing, AUTH and the device store of the Node server (server.js,       *)
(* store.js).  A handler runs to its first await at once; what is left of  *)
(* it waits for its own save.  Saves are not serialised.                   *)
(***************************************************************************)
EXTENDS Pairing

\* The timer of any code ends whichever code is active.
NodeExpire(k) ==
  /\ k \in timers
  /\ timers' = timers \ {k}
  /\ code' = NONE
  /\ UNCHANGED <<procVars, issued, storeVars, phoneVars, req, conn, clients>>

\* save(): the map is serialised now, the file opened and written later.
Save(of, id, map) ==
  /\ saves' = saves \cup {[of |-> of, id |-> id, map |-> map, open |-> FALSE]}
  /\ clean' = (clean /\ saves = {})
  /\ UNCHANGED disk

\* Mutant of AddDevice: the map is saved before the device is in it.
AddDeviceSavesFirst(r) ==
  /\ devices' = [devices EXCEPT ![req[r].dev] = r]
  /\ Save("pair", r, devices)

\* addDevice
AddDevice(r) ==
  /\ devices' = [devices EXCEPT ![req[r].dev] = r]
  /\ Save("pair", r, devices')

\* updateLastSeen, of a device that is known
UpdateLastSeen(c) == Save("auth", c, devices) /\ UNCHANGED devices

\* /pair-http, handlePairRequest up to the await of addDevice.
NodePair(r) ==
  /\ HasArrived(r) /\ Valid(r)
  /\ AddDevice(r)
  /\ req' = [req EXCEPT ![r].at = "saving"]
  /\ UNCHANGED <<procVars, codeVars, phoneVars, conn, clients>>

\* ... and after it: the code, the map of clients, the answer.
NodePaired(r) ==
  /\ req[r].at = "saving" /\ ~Saving("pair", r)
  /\ code' = NONE
  /\ EnterPaired(r)
  /\ Answered(r)
  /\ UNCHANGED <<procVars, issued, timers, storeVars>>

\* handleAuth: the entry is made before the await of updateLastSeen.
NodeAuth(c) ==
  /\ AuthWaits(c) /\ TokenValid(c)
  /\ Enter(c, conn[c].dev, "in")
  /\ UpdateLastSeen(c)
  /\ UNCHANGED <<procVars, codeVars, phoneVars, req>>

\* fs.writeFile opens, and so empties, the file; Write follows.
Open(s) ==
  /\ ~s.open
  /\ saves' = (saves \ {s}) \cup {[s EXCEPT !.open = TRUE]}
  /\ disk' = [is |-> "empty", map |-> Nothing]
  /\ UNCHANGED <<procVars, codeVars, phoneVars, devices, clean, req, conn,
                 clients>>

NodeServer ==
  \/ \E r \in Reqs : Refuse(r) \/ NodePair(r) \/ NodePaired(r)
  \/ \E c \in Conns : NodeAuth(c) \/ RefuseAuth(c) \/ Leave(c)
  \/ \E s \in saves : Open(s) \/ Write(s)

\* Store.create: a file that does not decrypt counts as no devices.
NodeStart ==
  /\ proc = "off"
  /\ proc' = "up"
  /\ devices' = disk.map
  /\ UNCHANGED <<backend, faults, codeVars, disk, saves, clean, phoneVars,
                 req, conn, clients>>
=============================================================================
