------------------------------ MODULE PhoneApp ------------------------------
(***************************************************************************)
(* The phone's screens at work on its connection and its device store: the *)
(* user pairs, reconnects, disconnects, unpairs and resets while earlier   *)
(* async functions still wait for AsyncStorage or for the PC.  Nothing     *)
(* serialises them: any number may be under way.  Every await that changes *)
(* what a function sees is a step.                                         *)
(***************************************************************************)
EXTENDS PhoneSocket

CONSTANTS
  Pcs,          \* the servers in reach
  MaxTaps,      \* bound: things the user does, texts included
  MaxCalls,     \* bound: async functions under way at once
  MaxPairings,  \* bound: pairing requests a PC accepts
  MaxFaults     \* bound: connections broken, ends of the app

ASSUME AppAssumption ==
  /\ {MaxAttempts, MaxTaps, MaxCalls, MaxPairings, MaxFaults} \subseteq Nat
  /\ NONE \notin Nat

VARIABLES
  store,     \* AsyncStorage: device id, paired servers, last server, setting
  issued,    \* what the PCs issued: token i is for issued[i]
  calls,     \* async functions under way, each by its next await
  clearing,  \* clearAll calls about to run
  ids,       \* device ids generated
  typed,     \* texts typed since the app started
  taps, faults,
  raced,     \* a reset overtook a call that holds what it read
  twoIds,    \* a device id was stored over another
  torn       \* the list and the last server were torn apart (see below)

storeVars == <<store, ids>>
opVars == <<calls, clearing>>
boundVars == <<typed, taps, faults>>
pastVars == <<raced, twoIds, torn>>
vars == <<ws, issued, storeVars, opVars, boundVars, pastVars>>

\* Tokens and device ids are numbered as they are drawn.
Servers == [pc : Pcs, tok : Nat]
Targets == [pc : Pcs, tok : Nat, dev : Nat]
Stores  == [id : Nat \cup {NONE}, servers : SUBSET Pcs,
            last : Servers \cup {NONE}, autoConnect : BOOLEAN]
Empty   == [id |-> NONE, servers |-> {}, last |-> NONE, autoConnect |-> TRUE]

\* A call is known by its number among those under way.
AutoCallers == {"mount", "reconnect"}
PairCalls   == [by : {"pair"}, n : Nat, at : {"newId", "http"}, pc : Pcs,
                dev : Nat]
SaveCalls   == [by : {"pair"}, n : Nat, at : {"answered", "list", "last"},
                server : Servers, servers : SUBSET Pcs]
AutoCalls   == [by : AutoCallers, n : Nat, at : {"settings", "lastServer"}]
TailCalls   == [by : {"pair"} \cup AutoCallers, n : Nat, at : {"getId"},
                server : Servers]
ReadyCalls  == [by : {"pair"} \cup AutoCallers, n : Nat,
                at : {"lateId", "ready"}, server : Servers, dev : Nat]
RemoveCalls == [by : {"remove"}, n : Nat, at : {"filter", "readLast", "drop"},
                pc : Pcs, servers : SUBSET Pcs]
Calls == PairCalls \cup SaveCalls \cup AutoCalls \cup TailCalls
           \cup ReadyCalls \cup RemoveCalls
AutoConnect(caller) == [by |-> caller, n |-> 1, at |-> "settings"]

TypeOK ==
  /\ ws \in ServiceType(Targets, Nat)
  /\ store \in Stores
  /\ issued \in Seq([pc : Pcs, dev : Nat])
  /\ calls \subseteq Calls
  /\ {raced, twoIds, torn} \subseteq BOOLEAN
  /\ {ids, clearing} \subseteq Nat
  /\ taps \in 0 .. MaxTaps /\ typed \in 0 .. taps
  /\ faults \in 0 .. MaxFaults

\* The app starts for the first time; HomeScreen mounts.
Init ==
  /\ ws = Service0
  /\ store = Empty /\ ids = 0
  /\ issued = <<>>
  /\ calls = {AutoConnect("mount")} /\ clearing = 0
  /\ typed = 0 /\ taps = 0 /\ faults = 0
  /\ raced = FALSE /\ twoIds = FALSE /\ torn = FALSE

Tap == taps < MaxTaps /\ taps' = taps + 1
Fault == faults < MaxFaults /\ faults' = faults + 1

\* A call starts with the first number that is free.
IsFree(n) == \A c \in calls : c.n # n
Starts(c) ==
  \E n \in 1 .. MaxCalls :
    /\ IsFree(n) /\ \A m \in 1 .. n - 1 : ~IsFree(m)
    /\ calls' = calls \cup {[c EXCEPT !.n = n]}
Becomes(c, d) == calls' = (calls \ {c}) \cup {d}
Ends(c) == calls' = calls \ {c}
-----------------------------------------------------------------------------
(* getOrCreateDeviceId, for any of its callers.                            *)

\* getItem's answer: the id, or one is drawn and still to be stored.
DeviceId == IF store.id = NONE THEN ids + 1 ELSE store.id
DrawId == ids' = IF store.id = NONE THEN ids + 1 ELSE ids
IdRead(known, new) == IF store.id = NONE THEN new ELSE known

\* setItem: whatever another call has stored since is written over.
StoreId(c) ==
  /\ store' = [store EXCEPT !.id = c.dev]
  /\ twoIds' = (twoIds \/ store.id # NONE)
  /\ Becomes(c, [c EXCEPT !.at = IF c.at = "newId" THEN "http" ELSE "ready"])
KeepId(c) ==
  /\ c.at \in {"newId", "lateId"}
  /\ StoreId(c)
  /\ UNCHANGED <<ws, ids, issued, clearing, boundVars, raced, torn>>
-----------------------------------------------------------------------------
(* PairScreen.                                                             *)

\* handlePair up to pairViaHttp.  The button is disabled while the screen
\* waits, but the screen can be left and opened anew.
PairTap(pc) ==
  /\ Tap
  /\ DrawId
  /\ Starts([by |-> "pair", n |-> 1, at |-> IdRead("http", "newId"),
             pc |-> pc, dev |-> DeviceId])
  /\ UNCHANGED <<ws, store, issued, clearing, typed, faults, pastVars>>

\* The PC pairs the phone; its answer reaches handlePairSuccess, or comes too
\* late.
PairAccepted(c) ==
  /\ c.at = "http" /\ Len(issued) < MaxPairings
  /\ issued' = Append(issued, [pc |-> c.pc, dev |-> c.dev])
  /\ \/ Becomes(c, [by |-> c.by, n |-> c.n, at |-> "answered",
                     server |-> [pc |-> c.pc, tok |-> Len(issued) + 1],
                     servers |-> {}])
     \/ Ends(c)
  /\ UNCHANGED <<ws, storeVars, clearing, boundVars, pastVars>>

\* The code is refused, or the PC not reached.
PairFails(c) ==
  /\ c.at = "http"
  /\ Ends(c)
  /\ UNCHANGED <<ws, storeVars, issued, clearing, boundVars, pastVars>>

\* savePairedServer reads the list ...
ReadServers(c) ==
  /\ c.at = "answered"
  /\ Becomes(c, [c EXCEPT !.at = "list", !.servers = store.servers])
  /\ UNCHANGED <<ws, storeVars, issued, clearing, boundVars, pastVars>>

\* ... writes it, over whatever was written since ...
Stale(c) == c.servers # store.servers
SaveServers(c) ==
  /\ c.at = "list"
  /\ store' = [store EXCEPT !.servers = c.servers \cup {c.server.pc}]
  /\ Becomes(c, [c EXCEPT !.at = "last"])
  /\ torn' = (torn \/ Stale(c))
  /\ UNCHANGED <<ws, ids, issued, clearing, boundVars, raced, twoIds>>

\* ... then the last server.
SaveLast(c) ==
  /\ c.at = "last"
  /\ store' = [store EXCEPT !.last = c.server]
  /\ Becomes(c, [by |-> c.by, n |-> c.n, at |-> "getId",
                 server |-> c.server])
  /\ UNCHANGED <<ws, ids, issued, clearing, boundVars, pastVars>>

\* handlePairSuccess, like autoConnect, gets the device id and connects.
GetId(c) ==
  /\ c.at = "getId"
  /\ DrawId
  /\ Becomes(c, [by |-> c.by, n |-> c.n, at |-> IdRead("ready", "lateId"),
                 server |-> c.server, dev |-> DeviceId])
  /\ UNCHANGED <<ws, store, issued, clearing, boundVars, pastVars>>
Connects(c) ==
  /\ c.at = "ready"
  /\ ws' \in Connect(ws, [pc |-> c.server.pc, tok |-> c.server.tok,
                          dev |-> c.dev])
  /\ Ends(c)
  /\ UNCHANGED <<storeVars, issued, clearing, boundVars, pastVars>>
-----------------------------------------------------------------------------
(* HomeScreen.                                                             *)

\* autoConnect: the setting, which handleReconnect has it ignore, and the
\* last server.
AutoSettings(c) ==
  /\ c.at = "settings"
  /\ IF c.by = "reconnect" \/ store.autoConnect
     THEN Becomes(c, [c EXCEPT !.at = "lastServer"])
     ELSE Ends(c)
  /\ UNCHANGED <<ws, storeVars, issued, clearing, boundVars, pastVars>>
AutoLast(c) ==
  /\ c.at = "lastServer"
  /\ IF store.last = NONE THEN Ends(c)
     ELSE Becomes(c, [by |-> c.by, n |-> c.n, at |-> "getId",
                      server |-> store.last])
  /\ UNCHANGED <<ws, storeVars, issued, clearing, boundVars, pastVars>>

\* handleReconnect, unless an earlier one still runs (isReconnectingRef).
ReconnectTap ==
  /\ Tap
  /\ \A c \in calls : c.by # "reconnect"
  /\ IF ws.target # NONE
     THEN ws' \in Reconnect(ws) /\ UNCHANGED calls
     ELSE /\ ws' = Notify(ws, "failed")
          /\ Starts(AutoConnect("reconnect"))
  /\ UNCHANGED <<storeVars, issued, clearing, typed, faults, pastVars>>

\* handleSendText
TextTap ==
  /\ Tap
  /\ ws.authed
  /\ typed' = typed + 1
  /\ ws' = Send(ws, typed')
  /\ UNCHANGED <<storeVars, issued, opVars, faults, pastVars>>
-----------------------------------------------------------------------------
(* SettingsScreen.                                                         *)

\* handleDisconnect
DisconnectTap ==
  /\ Tap
  /\ ws' = Disconnect(ws)
  /\ UNCHANGED <<storeVars, issued, opVars, typed, faults, pastVars>>

\* handleToggleSetting("autoConnect")
ToggleTap ==
  /\ Tap
  /\ store' = [store EXCEPT !.autoConnect = ~@]
  /\ UNCHANGED <<ws, ids, issued, opVars, typed, faults, pastVars>>

\* handleRemoveServer, removePairedServer up to its first answer.  A server
\* is on the screen until its removal has ended.
Removing(pc) == \E c \in calls : c.by = "remove" /\ c.pc = pc
RemoveTap(pc) ==
  /\ Tap
  /\ pc \in store.servers \/ Removing(pc)
  /\ Starts([by |-> "remove", n |-> 1, at |-> "filter",
             pc |-> pc, servers |-> store.servers])
  /\ UNCHANGED <<ws, storeVars, issued, clearing, typed, faults,
                 pastVars>>

\* The list without the server is written, over whatever was written since;
\* a pairing may be about to make that server the last one.
SavingLast(pc) == \E c \in calls : c.at = "last" /\ c.server.pc = pc
RemoveWritesList(c) ==
  /\ c.at = "filter"
  /\ store' = [store EXCEPT !.servers = c.servers \ {c.pc}]
  /\ Becomes(c, [c EXCEPT !.at = "readLast"])
  /\ torn' = (torn \/ Stale(c) \/ SavingLast(c.pc))
  /\ UNCHANGED <<ws, ids, issued, clearing, boundVars, raced, twoIds>>
\* Mutant of RemoveReadsLast: the last server is compared by its host.
RemoveComparesHost(c) ==
  /\ c.at = "readLast"
  /\ Ends(c)
  /\ UNCHANGED <<ws, storeVars, issued, clearing, boundVars, pastVars>>

RemoveReadsLast(c) ==
  /\ c.at = "readLast"
  /\ IF store.last # NONE /\ store.last.pc = c.pc
     THEN Becomes(c, [c EXCEPT !.at = "drop"]) ELSE Ends(c)
  /\ UNCHANGED <<ws, storeVars, issued, clearing, boundVars, pastVars>>
RemoveDropsLast(c) ==
  /\ c.at = "drop"
  /\ store' = [store EXCEPT !.last = NONE]
  /\ Ends(c)
  /\ UNCHANGED <<ws, ids, issued, clearing, boundVars, pastVars>>

\* handleClearAll: disconnect at once, then clearAll.
ResetTap ==
  /\ Tap
  /\ ws' = Disconnect(ws)
  /\ clearing' = clearing + 1
  /\ UNCHANGED <<storeVars, issued, calls, typed, faults, pastVars>>

\* A call that has read something, and goes on with it.
Holding == \E c \in calls : c.at \notin {"settings", "lastServer"}

\* Mutant of ClearAll: one key is forgotten.
ClearAllKeepsLast ==
  /\ clearing > 0
  /\ clearing' = clearing - 1
  /\ store' = [Empty EXCEPT !.last = store.last]
  /\ raced' = (raced \/ Holding)
  /\ UNCHANGED <<ws, ids, issued, calls, boundVars, twoIds, torn>>

ClearAll ==
  /\ clearing > 0
  /\ clearing' = clearing - 1
  /\ store' = Empty
  /\ raced' = (raced \/ Holding)
  /\ UNCHANGED <<ws, ids, issued, calls, boundVars, twoIds, torn>>
-----------------------------------------------------------------------------
(* The app and its surroundings.                                           *)

\* The system ends the app; it starts again with what is stored.
HalfRemoved == \E c \in calls : c.at \in {"readLast", "drop"}
Restart ==
  /\ Fault
  /\ ws' = Service0
  /\ calls' = {AutoConnect("mount")} /\ clearing' = 0
  /\ typed' = 0
  /\ torn' = (torn \/ HalfRemoved)
  /\ UNCHANGED <<storeVars, issued, taps, raced, twoIds>>

\* The PC knows the last token it issued to a device.
Known(t) ==
  /\ issued[t.tok] = [pc |-> t.pc, dev |-> t.dev]
  /\ \A i \in t.tok + 1 .. Len(issued) : issued[i] # issued[t.tok]

\* What the socket, the PC and the timer do by themselves.
Connection ==
  /\ Opens \/ Refused \/ Closes \/ TimerFires \/ HandleAuthResponse
     \/ PcAnswers(Known(ws.target))
  /\ UNCHANGED <<storeVars, issued, opVars, boundVars, pastVars>>
Cut == /\ Breaks /\ Fault
       /\ UNCHANGED <<storeVars, issued, opVars, typed, taps, pastVars>>

Screens ==
  \/ \E pc \in Pcs : PairTap(pc) \/ RemoveTap(pc)
  \/ ReconnectTap \/ TextTap \/ DisconnectTap \/ ToggleTap \/ ResetTap
Operation(c) ==
  \/ KeepId(c) \/ GetId(c) \/ Connects(c)
  \/ PairAccepted(c) \/ PairFails(c)
  \/ ReadServers(c) \/ SaveServers(c) \/ SaveLast(c)
  \/ AutoSettings(c) \/ AutoLast(c)
  \/ RemoveWritesList(c) \/ RemoveReadsLast(c) \/ RemoveDropsLast(c)

Next ==
  \/ Screens
  \/ \E c \in calls : Operation(c)
  \/ ClearAll
  \/ Connection
  \/ Cut
  \/ Restart

\* The connection does not stop: the network settles what it began, the PC
\* answers, the timer fires.  Nothing is assumed of the user or of storage;
\* connections that opened break at most MaxFaults times.
Spec == Init /\ [][Next]_vars /\ WF_vars(Connection)
-----------------------------------------------------------------------------
(* Properties.                                                             *)

\* Every text the user was allowed to send is, in order, on a socket or in
\* the queue: a reconnect under the user's fingers neither loses nor
\* reorders any (handleSendText, _send, _flushPending).
TextsKept == ws.wire \o ws.pending = [i \in 1 .. typed |-> i]

IssuedTo(server, dev) == issued[server.tok] = [pc |-> server.pc, dev |-> dev]

\* The phone authenticates to a PC with a token that this PC issued to the
\* very device id it sends, and what it stored will do so again: unless a
\* reset overtook a call under way, or two first pairings each drew an id
\* (getOrCreateDeviceId, clearAll).
CredentialsMatch ==
  ~raced /\ ~twoIds =>
    /\ ws.target # NONE => IssuedTo(ws.target, ws.target.dev)
    /\ store.last # NONE => IssuedTo(store.last, store.id)

\* The server the app will connect to when it starts is one the user sees in
\* the list and can remove, or a removal is about to drop it; whatever
\* pairings and removals overlap, and wherever the app is ended.  Excepted
\* are what the code does lose: a list written over another call's change,
\* a server removed between the two writes of its pairing, a removal cut off
\* between its own, and a reset that overtook a call (savePairedServer,
\* removePairedServer).
LastIsListed ==
  ~torn /\ ~raced /\ store.last # NONE =>
    \/ store.last.pc \in store.servers
    \/ \E c \in calls : /\ c.at \in {"readLast", "drop"}
                        /\ c.pc = store.last.pc

\* An attempt to connect comes to an end the user can see: authenticated,
\* refused, given up, or called off (_scheduleReconnect, onclose).
Trying == /\ ~ws.manual /\ ws.target # NONE
          /\ Shown \notin {"authenticated", "auth_failed", "failed"}
Settles == Trying ~> ~Trying
=============================================================================
