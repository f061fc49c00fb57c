# TLA+ models of mcSync

mcSync connects a phone (a React Native app, `mobile/`) to a PC over one
WebSocket and carries text, clipboard contents and files in both directions.
The PC side exists twice, in Go (`pc/`) and in Node.js (`pc-node/`), and the
repository requires the two to be functionally equivalent.

This directory models the parts of the system whose correctness depends on the
order in which things happen: the file-transfer protocol between the phone and
each of the two servers, over sockets that break, with timers, queues and async
handlers; pairing, authentication, the servers' map of clients and their
encrypted device file, with expiring codes and a process that may end at any
moment; and the phone's connection with the screens that use it, which pair,
reconnect, disconnect, unpair and reset while earlier operations still wait.

## The system

| component | state it keeps | operations | talks to |
|---|---|---|---|
| Phone file sender, `FileTransferService.sendFile` | locals of each call: loop index, the two ACK callbacks, a timer | META, wait, read, send chunk, wait, …, FILE_END | WebSocketService; `ack` events |
| Phone file receiver, `_handleFileStart`, `_handleBinary`, `_handleFileEnd` | `activeReceives`, `currentReceiveId` | register, initialise the file, collect chunks, flush | WebSocketService; the device's file system |
| Phone socket, `WebSocketService` | `ws`, `isConnected`, `isAuthenticated`, `pendingMessages`, reconnect counter and timers | connect, reconnect, disconnect, `_send`, `sendBinary`, flush, `onopen`/`onmessage`/`onclose` | the server; every other phone service |
| Node server, `server.js` | `clients`, `transfers`, `ackCallbacks`, pairing code; per connection `authed`, `activeTransfer` | one async handler per message, `sendFile`, pairing | phones; store; CLI |
| Go server, `server.go` | the same, under `mu`, `transfersMu`, `ackMu` | one goroutine per connection, `SendFile`, pairing | phones; store; CLI |
| PC device store | map of devices, encrypted file | add, update, validate, load, save | server |
| Phone device store, `DeviceStore` | AsyncStorage: device id, paired servers, last server, settings | get/save servers and settings, clear | screens |
| Phone screens | what they show | `autoConnect`, `handlePair`, `handleReconnect`, `handleSendText`, `handleDisconnect`, `handleRemoveServer`, `handleClearAll` | WebSocketService, DeviceStore |
| Clipboard, discovery, config, CLI | | | |

What is hard here:

* **Binary frames have no header.** A chunk is written to the *active
  transfer* of its connection, so correctness hangs on the order of JSON and
  binary messages and on when each handler changes the active transfer.
* **Node's handlers are not serialised.** The `ws` `message` listener is async
  and nobody awaits it: the next handler starts while an earlier one waits for
  `pathExists`, `'drain'` or `stream.end`. Go runs the handlers of one
  connection one after the other.
* **Timers race answers.** A send gives up after 8 s; its META, its chunk or
  its ACK may still be on the way when the next send starts.
* **The socket breaks.** JSON messages are queued while there is no open
  socket and flushed after the next AUTH; binary frames are dropped; what was
  in flight is lost from some point on.
* **The user may start a second send.** No code stops it
  (`FileTransferScreen.js:116`, `:151`).
* **A pairing waits for a save.** Between the check of a code and its clearing
  other requests are checked, codes are issued and expire, connections close.
* **The device file is rewritten in place.** A process that ends in the middle
  leaves a file that does not decrypt; Node's saves may also overlap.
* **The screens do not wait for each other.** AsyncStorage answers late; the
  user disconnects, unpairs or resets while a pairing is still under way.
* **reconnect tears a socket down without its onclose**, so the service's flags
  keep their old values for a while.

What makes each component correct:

* sender: success is reported only for a file the receiver has in full, in
  order, once; every call ends; at most one chunk is in flight;
* receiver: a chunk is written only to the file it belongs to; a file is
  closed complete; the connection's active transfer is never changed on behalf
  of another transfer; the path is unique;
* socket: no frame overtakes AUTH; the queue keeps its order;
* connection: exactly one thing (a socket or a timer) will bring the connection
  the user wants, nothing is left of one he ended, and "authenticated" is true;
* pairing: a code that is active has its timer, ends only for cause, and lets no
  further request in once a phone was told that it is paired by it;
* sessions: the entry of a device is its newest authenticated connection, the
  others are closed, and no entry outlives its connection;
* store of the PC: what was acknowledged as paired is still there after a restart;
* store of the phone: tokens are kept with the device id they were issued for.

`PROJECT.json` lists every hazard at its source line with the properties that
cover it.

## Modules

```
FileCopy              what sending files promises (abstract)
Socket                the phone's socket, its queue, the network
  PhoneSend           the phone's sender
    Receiver          what both servers keep about incoming files; properties
      Sending_proofs  lemmas about the phone and about either server's effects
      NodeReceive     the handlers of server.js
        PhoneToNode   PhoneSend + NodeReceive;  MCPhoneToNode for TLC
          PhoneToNode_proofs
      GoReceive       the handlers of server.go
        PhoneToGo     PhoneSend + GoReceive;    MCPhoneToGo for TLC
          PhoneToGo_proofs
  PhoneReceive        the phone's receiver
    PcSend            what both servers keep about outgoing files; properties
      Receiving_proofs  lemmas about the phone and about either server's effects
      NodeToPhone     sendFile of server.js + PhoneReceive;  MCNodeToPhone
        NodeToPhone_proofs
      GoToPhone       SendFile of server.go + PhoneReceive;  MCGoToPhone
        GoToPhone_proofs
Pairing               what both servers keep about phones; the phones; parts
  GoPairing           the handlers of server.go, store.go
  NodePairing         the handlers of server.js, store.js
    Pc                either server; properties;  MCPc for TLC
      Pc_proofs
PhoneSocket           WebSocketService, as functions on its state
  PhoneApp            the screens and DeviceStore on it;  MCPhoneApp for TLC
    PhoneApp_proofs
```

**Socket.** `up[c]` holds the frames sent on socket `c` that the server has yet
to handle, `down` what the server sent on the newest socket, `pending` is
`pendingMessages`. `link` tells an open socket (`up`) from one that is broken
although its `readyState` still says OPEN (`dead`) and from none (`down`): in
the second a frame is lost, in the third JSON is queued and binary dropped.
`Connect` is `onopen`: AUTH, then the queue. `Drop` is the network: any suffix
of what is in flight, in each direction, is lost. A server that sends on any
socket but the newest, or on a broken one, sends into the void (`Reply`).

**PhoneSend.** `spc[t]` is where the `sendFile` call of transfer `t` stands:
`idle`, awaiting the ACK of its META (`meta`), reading a chunk (`reading`),
awaiting the ACK of a chunk (`chunk`), returned (`done`) or thrown (`failed`).
`idx[t]` counts the ACKs accepted.

An ACK carries a message id (META, FILE_END) or a transfer id and a chunk
count; frames keep exactly what the listener compares. A chunk frame carries
the file and position its bytes come from, for the properties only: no handler
reads them to decide anything.

**Receiver.** `authed`, `transfers` (the keys of the server's map),
`active[c]` (`client.activeTransfer`), and for each transfer its path, its
stream and the chunks written. The properties both servers share are here, and
so is `Copy`, the refinement mapping to FileCopy: `status` is `spc` with the
three waiting states as `sending`, `copy` is `written`, `closed` the transfers
whose stream is closed.

**NodeReceive.** A handler is one action up to its first await and one action
per continuation; a record in `metaWait`, `drainWait` or `endWait` holds what a
handler carries across its await.

| code | actions |
|---|---|
| `handleAuth` | `HandleAuth` |
| `handleFileMeta` | `HandleMeta`, then `TryNextSuffix` for each name taken, then `OpenStream` |
| `createWriteStream` opening its file | `CreateFile` |
| `handleBinaryChunk` | `DropChunk`, `WriteChunk` (with room: ACK at once; without: wait), `WriteAfterEnd`, `Drain` |
| `handleFileEnd` | `HandleEnd`, then `FinishEnd` |

**GoReceive.** One goroutine per connection: `Read` is enabled only when no
handler of the connection is under way. `handleFileMeta` is split at each
`os.Stat` and at `os.Create` (`GoMeta`, `StatNext`, `StatFree`,
`CreateAndRegister`), because the handlers of another connection run in
between: two connections may find one path free and both create it. No checked
property of the Go server reads the path. The other handlers are atomic, since
what they touch is either owned by the connection or taken under `transfersMu`.

**PhoneReceive.** `cur` is `currentReceiveId`, `receives` the keys of
`activeReceives`; per transfer `init` is the fate of its local file, `got` is
`received`, `chunks` what is kept in memory. A handler of a binary frame under
way is a record in `waiting`: the bytes, the transfer they were given to, and
what it awaits. `fin[t]` follows `_handleFileEnd`. `disk` is the local folder,
by name, and `saved[t]` what the local file holds when it is copied and
reported.

| code | actions |
|---|---|
| `_handleFileStart` | `HandleMeta` (all of it is synchronous) |
| `_initTransferFile` | `InitFile`: truncates, or fails; ACK 0 in either case |
| `_handleBinary` | `DropBinary`, or `TakeBinary` up to the first await, `InitReady` or `InitGivesUp` after the wait for the file, `Decoded` or `DecodeFails`, `Yielded` after the pause every 50 chunks |
| `_handleFileEnd` | `HandleEnd` joins, `Flush` writes or fails, `Report` copies, reports and forgets |

`_handleBinary` acknowledges `currentReceiveId` as it is after its awaits; so do
`Decoded` and `Yielded`. A write to the local file takes effect at one moment;
`getReceiveDir`, `makeDirectory` and the truncation are one step, since nothing
reads what the first two leave.

**PcSend, NodeToPhone, GoToPhone.** `client` is the phone's entry in `clients`,
`via[t]` the connection the call has picked; `spc` and `idx` are as for the
phone, with `stat` (Node awaits `fs.stat`) and `sent` (Go has sent META and not
yet registered its channel). Here closing the older connection matters: a
delayed AUTH on an old socket makes it the phone's entry and closes the socket
the phone uses (`Authenticate`).

| code | actions |
|---|---|
| `sendFile` (Node) | `StartSend`, `SendMeta`, `SendChunk`, `SendEnd`, `FileFails`, `Timeout` |
| ACK in `handleMessage` | `HandleAck`: the callback accepts the ACK it waits for |
| `SendFile` (Go) | `StartSend`, `Register`, `TakeAck`, `SendChunk`, `SendEnd`, `SendFails`, `Timeout`; each return is `Return`, the deferred close |
| `handleAck` (Go) | `HandleAck` looks the channel up under `ackMu`; `HandOver` sends after the unlock, on a closed channel if `Return` came between: the process panics |

A Go `select` with both an ACK and a timer ready takes either, as `TakeAck` and
`Timeout` do.

**Pairing, GoPairing, NodePairing, Pc.** `code` is `pairingCode`, `NONE` while
`pairingActive` is false; `timers` the codes whose `setTimeout` or goroutine is
still to come. `devices` is the store's map, `disk` the file: `whole` with a
map, `empty` since a save has opened it, or `mixed` when two writes met. A save
under way is a record in `saves` with the map it serialised. `req[r]` follows a
pairing request (over HTTP, or on the connection `req[r].conn`) through its
handler; `conn[c]` is a WebSocket connection: `open`, `closing` (the server has
not noticed), `gone`. `asking[d]` is the request the phone waits for and
`tok[d]` the token it was given last. `proc` is the server's process.

| code | actions |
|---|---|
| `StartPairing` / `startPairing` | `StartPairing`; the timer is `GoExpire` (compares the code) or `NodeExpire` (does not) |
| `handlePairRequest`, `handlePairHTTP` (Go) | `Refuse`, or `GoCheck` under `RLock`, `GoAddDevice` under the store's mutex, `Write`, `GoClear` under `mu`, `GoAnswer` |
| `handlePairRequest`, `/pair-http` (Node) | `Refuse`, or `NodePair` up to the await, `Open`, `Write`, then `NodePaired` |
| `handleAuth` | `RefuseAuth`, or Go: `GoAuth` up to the unlock of `mu`, `GoTouch` (`UpdateLastSeen`), `Write`; Node: `NodeAuth`, `Open`, `Write` |
| the deferred function of `handleClient`, the `close` listener | `GoLeave` (only when no handler of the connection runs), `Leave` |
| `os.WriteFile`, `fs.writeFile` | truncation with `GoAddDevice`/`GoTouch` or `Open`, then `Write` |
| `Stop`, `quit`, a crash | `GoStop`, `Halt` |
| `NewStore`/`load`, `Store.create`/`load` | `GoStart` (refuses a file that does not decrypt), `NodeStart` (takes it as empty) |
| `pairViaHttp`, `sendPairRequest`, `connect` on the phone | `PhoneAsks`, `PhoneAsksOnSocket`, `PhoneGivesUp`, `PhoneConnects` |

`mixed` stands for any file whose bytes come from two writes; it does not
decrypt. A token is the number of the request it was drawn for, a code the
number of the `startPairing` that drew it: that two draws of random digits
coincide is left out. The phone of
this module is only what the servers see of one: no screen calls
`sendPairRequest`, but both servers handle PAIR_REQ, so the model sends it.

**PhoneSocket, PhoneApp.** JavaScript runs each method of WebSocketService to
its end, so PhoneSocket writes a method as a function from a state of the
service (`ws`) to the next, and `_doConnect`, whose constructor may throw, as
one to a set. Methods compose as they do in the code: `Connect` is `DoConnect`
of `ClearTimer` of the new target. `sock` is `this.ws`; in `dying` the
connection has ended but `onclose` is still to be called, and `readyState` says
OPEN. PhoneApp adds AsyncStorage (`store`) and the async functions of the
screens. `calls` is the set of those under way: who began the call (`by`: a
pairing, a removal, `autoConnect` at mount or from `handleReconnect`), the next
await (`at`) and the values it holds across it. Nothing serialises them, since
a screen may be left (`PairScreen.js:212`) and opened anew while its function
still waits, and a disabled button is one of the screen that is gone; the one
guard the code has is `isReconnectingRef`. Each read and each write of
AsyncStorage that a function awaits is a step. `issued` is what the PCs have
issued, so that a token can be traced to the device id it was issued for.

| code | actions |
|---|---|
| `connect`, `reconnect`, `disconnect`, `_doConnect`, `_scheduleReconnect`, `_teardownSocket`, `_send`, `_flushPending`, `_authenticate` | operators of these names |
| `onopen`, `onerror` + `onclose`, timer, `_handleAuthResponse` | `Opens`, `Refused`, `Closes`, `TimerFires`, `HandleAuthResponse` |
| `getOrCreateDeviceId` | the read with the step before it (`PairTap`, `GetId`); `KeepId` stores an id that was drawn |
| `handlePair`, `pairViaHttp`, `handlePairSuccess`, `savePairedServer` | `PairTap`, `PairAccepted` or `PairFails`, `ReadServers`, `SaveServers`, `SaveLast`, `GetId`, `Connects` |
| `autoConnect` | `AutoSettings`, `AutoLast`, `GetId`, `Connects` |
| `handleReconnect`, `handleSendText`, `handleDisconnect`, `handleToggleSetting` | `ReconnectTap`, `TextTap`, `DisconnectTap`, `ToggleTap` |
| `handleRemoveServer`, `removePairedServer` | `RemoveTap`, `RemoveWritesList`, `RemoveReadsLast`, `RemoveDropsLast` |
| `handleClearAll`, `clearAll` | `ResetTap`, `ClearAll` |
| the system ends the app | `Restart` |

Three flags remember what the code does get wrong, and the two properties of
the store except the runs in which it did: `torn` (`LastIsListed`), when a list
was written over another call's change, a server was removed between the two
writes of its pairing, or the app ended between the two of a removal; `raced`
(both), when `clearAll` ran while a call held what it had read; `twoIds`
(`CredentialsMatch`), when two calls that found no device id each stored one.
`removePairedServer` starts with its read, and `getDeviceName`, which nothing
depends on, is left out.

**Abstractions of the transfer modules.** Transfer ids are drawn once per call, so a call is its id.
The phone is paired: AUTH succeeds; its answer, which no transfer waits for, is
left out, and so is the `clients` map, which phone-to-PC transfers do not read.
In that direction the connection a server closes when the device authenticates
again is either one the phone has given up or the one it uses; the second is
covered by `Drop`. The phone's screen lets a send start only after it has seen a connection
(`conn # 0`), but its file picker may stay open across a loss, so a send may
start in any state of the link. Sizes and checksums are only logged by the
servers and are left out, except that the number of chunks follows from the
size. Failures of the PC's file system are not modelled.

## Runs

The `MC` modules define the instances.

| run | instance | shows |
|---|---|---|
| `phone_to_node_sequential` | three files (2, 1 and 0 chunks; two share a name that already exists), two connections, one drop, one send at a time | success means a complete file; the file holds the acknowledged chunks or one more; one chunk in flight; the server survives; AUTH comes first; FileCopy is implemented |
| `phone_to_node_overlap` | two files (2 and 1 chunks), overlapping, two connections, one drop, fairness | even then a chunk is written at most once, every send ends, and while the connection holds a successful send's file is closed and forgotten |
| `phone_to_node_handover` (violation) | one send at a time, connection holds, nobody gives up | the end of one file clears the active transfer of the next, whose chunk is dropped |
| `phone_to_node_unique` (violation) | overlapping, same name | two transfers write to one path |
| `phone_to_go_sequential` | as the first | Go: no foreign chunk, no stranded send, FileCopy is implemented |
| `node_to_phone_sequential` | three files (2, 1 and 0 chunks), two connections, one drop, failing file system and decoder, one send at a time | what is acknowledged is held; a file reported after its flush is complete; while the connection holds no call waits in vain |
| `node_to_phone_overlap` | two files, overlapping, fairness | even then no chunk is kept twice and every send ends |
| `go_to_phone_sequential` | two files, two connections, one drop, faults, fairness | as for Node; the ACK channel holds no stale ACK; every send ends |
| `go_to_phone_survives` (violation) | the same | a late ACK meets the closed channel and the server panics |
| `pc_pairing` | either server (chosen in `Init`), two phones, two codes, two requests, two connections, one fault (a break or an end of the process), fairness | an active code has its timer and ends for cause (Go); a phone told it is paired is known, also after a restart, and its code lets no further request in; the entry of a device is a live connection and the replaced one is closed; every accepted request is answered |
| `node_pairing_timer` (violation) | two codes, one request, no fault | on Node the timer of an earlier code ends the later one |
| `phone_app` | two PCs, two pairings, three taps (pair, reconnect, text, disconnect, remove, reset, switch), two calls under way at once, two attempts, one fault (the connection breaks or the app is ended), fairness | a disconnect holds; the phone is never stuck; the status is honest; texts are neither lost nor reordered; tokens go with their device id and the last server is in the list, with the exceptions above; every attempt ends visibly |

The phone-to-PC runs also show how the backends differ. With one
send at a time, the Node server can write a chunk of the running send into the
file of a send that gave up earlier (its META handler finishes late); that is
why `NoForeignChunk` is claimed for Go only and FileCopy's `Litter` allows
chunks in the file of a failed send. `NoStrandedSend` holds for Go and is
violated for Node. With overlapping sends a chunk may also reach a Node stream
that was already ended, which ends the process (`WriteAfterEnd`).

**Not covered by a run.** Some states the code can reach contradict what one
would wish, though no document promises otherwise. They are excepted in the
properties, in words and in the formula, and no run is spent on them:

* overlapping sends to the Node server mix their chunks, so `DoneMeansComplete`
  is stated for one send at a time (`Overlap = FALSE`);
* two files of one name sent to the phone: the second FILE_META empties the
  local file of the first before it is copied and reported. The instances give
  each file its own name;
* on Node, a connection that closes while its pairing awaits the save gets an
  entry that nobody removes (`EntryIsLive`); a save that overlapped another or
  was cut off loses devices (`clean` in `ToldIsKnown`);
* on both servers two requests checked with one code both pair, and a code
  issued while a pairing with an older one awaits its save is cleared with it
  (`ToldEndsCode` speaks of requests accepted after the answer; `EndsForCause`
  counts a pairing that completes as a cause);
* a reset that overtakes a pairing, an `autoConnect` or a removal leaves a
  server stored with a token of another device id (`raced`), and so do two
  first pairings at once (`twoIds`); two pairings at once, or a removal that
  meets a pairing or the end of the app, leave a last server that is not in the
  list (`torn`);
* on the Go server two connections may create one path, the second truncating
  the file of the first;
* texts queued for one PC are sent to the PC the user connects to next.

**Bounds, transfers.** `MaxConns` sockets and `MaxDrops` losses; each transfer
is sent once. Two chunks are the least for which "the next chunk" and a stale
ACK of an earlier one differ; an empty file has no chunk to wait for and its
FILE_END follows its META's ACK at once; a third send lets a frame of the first
meet the state left by the second. One drop and two connections let frames of
an old socket, the flushed queue and a new AUTH meet. Nothing else is bounded:
queues, channels and waiting handlers are limited by the number of frames sent.
`YieldEvery = 2` instead of 50 lets the pause
of `_handleBinary` happen within two chunks. `ChanCap = 50` is the code's; the
channel never fills. `AckedMeansCollected`, `SavedIsComplete` and `NoEarlyAck`
speak of a transfer while no *other* send has been given up: after one has, a
handler it left on the phone may acknowledge its chunk under the id of the next
send. `CHECK_DEADLOCK FALSE`: the system stops when every send is over.

**Bounds, pairing.** Two codes are the least for which one timer meets the
other's code. Two requests, which may be of one phone or of two and may carry
one code or two, are the least that overlap in their saves; two connections the
least of which one replaces the other. `MaxFaults = 1` is one break or one end
of the process, which may come in the middle of a save; the properties were
also explored with two (925,000 states). In `FirstIsD1` the first request is
`d1`'s, as nothing tells the phones apart before it. `node_pairing_timer` needs
no fault and no second request. `CHECK_DEADLOCK FALSE`: the requests and codes
run out.

**Bounds, app.** `MaxAttempts = 2` stands for the code's
`maxReconnectAttempts = 10`, so that giving up is reached; a third attempt
repeats the second. Two PCs and two
pairings let a pairing replace the target, the list and the last server of an
earlier one, or pair one PC again, whose first token is then refused. Three taps
and two calls under way let any function of the screens, also the same one
again, start while another waits, on a store to which an earlier one has
written. The proofs need no bound.
`FirstIsPc1`: nothing tells the PCs apart before the first pairing.
`CHECK_DEADLOCK FALSE`: taps, pairings and faults run out.

**Fairness, transfers** (`FairSpec`). The phone's event loop delivers what has arrived,
its file reads resolve (`SendChunk`), its 8 s timers fire (`Timeout`); `ws`
hands over each connection's frames and the server's pending I/O completes. In
the other direction the servers' file reads and writes return and their timers
fire; nothing is assumed of the phone, so that a send ends even when the phone
answers nothing. The
user, the network and the reconnect are not fair: nothing in the code makes
them act. `Timeout` may fire at any moment, so the models do not rely on an ACK
arriving within 8 s.

**Fairness, pairing** (`FairSpec` of Pc). `WF(Server)`: while the process runs
its runtime schedules some handler or some pending I/O whenever one can
proceed. The number of server steps between two others is bounded, so none is
passed over for ever. Nothing is assumed of the phones, the five-minute timers,
the user or the end of the process.

**Fairness, app.** `WF(Connection)`: the network settles what it began, `onclose` is
called, the timer armed by `setTimeout` fires, the PC answers AUTH. The PC
may refuse a connection or a token, so that an attempt may end in failure.
Nothing is assumed of the user or of AsyncStorage. `Settles` rests on
`MaxFaults`: a connection that opens resets the count of attempts, so one that
breaks for ever after each opening would be retried for ever, as the code has
it.

## Proofs

Eight modules hold theorems; every one is about the `Spec` the runs check, for
any value of its constants, from the assumptions of the modules (and `OwnFiles`
for two theorems, see below). Every safety property that a passing run checks is a theorem; where it holds of one
send at a time only, the theorem says `~ Overlap =>`, as the run has
`Overlap = FALSE`.

Each transfer proof is split in two: a module about the phone and the effects a
server's step may have on what the two share (`Sending_proofs`,
`Receiving_proofs`), and one per server that shows its steps have no other
effect. A channel is a set of places (`Has`, `At`, `In`), so that what a step
does to it is said once: it puts a frame behind, takes the first, cuts the end,
or pours the queue into a new connection.

### Phone to PC: `Sending_proofs`, `PhoneToNode_proofs`, `PhoneToGo_proofs`

However calls overlap:

* `TypeCorrect`: `TypeOK` contains `IdxBounded` (a send counts no more ACKs
  than its file has chunks), which is not inductive. `IdxInv` adds that a call
  that awaits its META has counted no ACK, and one that reads or awaits a chunk
  fewer than there are.
* `AuthFirst`: `AuthPrecedesFrames` says nothing of an empty channel, which the
  next frame sent would enter first. `AuthInv` adds that a connection not yet
  authenticated whose channel is empty is not the open one.
* `NoChunkTwice`: `ChunkOnce` says that a chunk ever sent is in one place: on
  one channel once, or written once, or lost; nothing is sent again.

For sends that do not overlap, from the invariant `InLine`. What makes it long
is what a call leaves behind when it gives up: its META, a chunk or FILE_END in
the queue or on a connection, its handler at work, its ACKs under way while the
next call runs. `InLine` says where each kind of frame may be and what it means
there: the queue is used only while nothing arrives (`Channels`); a META's file
is not there yet, and nothing is behind the META of a running call
(`MetaIsLast`); at most AUTH is before a chunk (`ChunkFirst`); a chunk is the
next one of its call and meets its own file, that of a call that gave up, or none
(`ChunksInv`, `Tolerated`); FILE_END is of a complete file (`EndsInv`); once
its META is acknowledged a call has the newest connection to itself (`Quiet`);
how the file of each call stands to its count of ACKs (`FilesInv`).

* `NodeOneSend`: with it, what Node's handlers hold across their awaits.
  `MetaWaits`: a META being handled has no file yet and no other handler, and
  that of a running call was the last frame on its connection. `EndWaits`: a
  handler that waits for a stream to end names that stream, and is the only
  one.
* `GoOneSend`: with it, what a goroutine holds inside `handleFileMeta`
  (`CreatingInv`), and that a chunk meets its own file or none and no META is
  being handled on its connection (`OwnsInv`): this is where the order of a
  goroutine's handlers is needed, and what gives `NoForeignChunk`
  (`OwnChunksOnly`), which Node does not keep.
* `DoneIsComplete`, `AckedIsWritten`, `OneChunk` on both servers, and on Node
  `Survives`: no chunk reaches a stream that was ended.
* `NodeKeepsPromise`, `GoKeepsPromise`: each server with the phone implements
  FileCopy. Each step is one of FileCopy or a stutter: an ACK that ends a call
  is `Succeed`, a chunk written `Grow` or, in the file of a call that gave up,
  `Litter`, a stream that closes `Close`.
* `GoNoStranded`: `InLine` says what a frame means, not that it is there.
  `Served` adds, while no connection has broken, that what a call waits for is
  on its way, and that the connection is the call's once its META is
  acknowledged (`Home`). The step that matters is `HomeAlone`: then the
  connection carries no frame of another call that could take it away. On Node
  `phone_to_node_handover` refutes the property.

### PC to phone: `Receiving_proofs`, `NodeToPhone_proofs`, `GoToPhone_proofs`

* `TypeCorrect` on both servers.
* `NodeOneSend`, `GoOneSend`: while one call runs at a time and none was given
  up, one thing of the running call is under way at most: its META or a chunk
  on the channel, the phone's work on it, or the ACK, and what the phone holds
  of the file is known at each point (`CallsInv`). On Go the ACK may also be
  held between the lookup and the send, or in the channel (`HeldInv`).
* `NodeAcked`, `GoAcked`: `AckedMeansCollected` follows; `GoNoEarlyAck` does
  from `HeldInv` with `RegisteredInv` (only a call that runs has its channel in
  the map).
* `NodeSaved`, `GoSaved`: `SavedIsComplete`, from `SaveInv` (what is written
  and copied is what FILE_END joined). They have the hypothesis `OwnFiles`, no
  two transfers with one name: without it the property is false (see "Not
  covered by a run"), and the instances give each file its own name.
* `KeptOnce`: `NoChunkKeptTwice` however sends overlap, from `PlacesInv`: a
  chunk is at one place of the channel, in one waiting handler, or kept once.
* `NodeNoStranded`: `ConnInv`, `CallbackInv` and `ServedCalls`. A call that
  waits has what it waits for on its way, or the phone has lost something of
  its file (`Broken`). The attempt to prove it showed that `Faulted`, the exception in
  the property, had been true of every file once it was flushed, which made the
  property say nothing from then on; it now speaks of what was collected.

### PC: `Pc_proofs`

Any set of phones, any number of codes, requests, connections and faults, for
both servers at once.

* `TypeCorrect`; its invariant includes `OneSave`: on Go two saves are never
  under way, since whoever starts one holds the store's mutex.
  A new request or connection takes the least unused number; that there is one
  (`FreshIn`) is where well-foundedness is used.
* `CodeHasTimer`: inductive with the types; a timer leaves `timers` only by
  firing, which ends its own code, or with the process.
* `ToldCodeIsOver`: `ToldEndsCode` is an action property: a request that is
  accepted does not carry the code of one that was answered. `AcceptsValid`:
  only `GoCheck` and `NodePair` accept, and what they accept carries the active
  code. `ReqCodes`: the active code is not that of an answered request, for
  which the invariant adds that a request keeps the code it was made with while
  it is worked on, that this code was issued, hence differs from every code
  issued later, and that it is over already between its clearing and the
  answer.
* `GoCodeEnds`: the action property of the Go server, from `IInv`. Its
  counterpart for Node is what `node_pairing_timer` refutes.
* `EntriesLive`, `OlderIsClosed`: from `ConnInv`. `ReqConn` adds that a request
  belongs to the phone of its connection, which on Go stays while the request
  is worked on; `EntryInv`, which finished request left an entry on Node.
* `ToldStaysKnown`: `ToldIsKnown` relates what a phone knows to the map while
  the process runs and to the file while it does not. `KnownInv` says that the
  save under way, if any, is of the map as it is (`SaveInv`), what the file is
  while the process does not run (`OffInv`), and where the token a phone waits
  for is (`AskOK`).

### App: `PhoneApp_proofs`

Any set of PCs, any number of attempts, pairings, taps and faults. The methods
of the service are functions on `ws`, so each has one lemma: it takes a sound
service to a sound one. An action of the app is a composition of methods, and
its lemma cites theirs.

* `TypeCorrect`, `DisconnectIsKept`, `PhoneNeverStuck`, `StatusHonest`: from
  `IInv == TypeOK /\ Sound(ws)`. `Sound` has the three properties as predicates
  of the service, and `Answered`: an AUTH answer is held only for a socket that
  opened. Without it a new socket could inherit the answer of the last one and
  "authenticated" would be dishonest. `CallsChange` is where the set of calls is
  taken apart: a step adds one, moves one on or ends one.
* `TextsAreKept`: `TextsKept` is not inductive: a text sent on an open socket
  would overtake a queue left over. `TextInv` adds `Flushed`: a socket that is
  open has taken the queue.
* `LastStaysListed`: however many pairings and removals overlap. `ListInv` adds
  to `LastIsListed` that a pairing about to write the last server has it in the
  list. A write of the list keeps both when it is made of the list as it is
  stored, and no pairing was about to make the removed server the last; where
  that is not so the step sets `torn`.
* `TokensMatch`: `CredInv` follows a token from the PC that issued it through
  every call that carries it to the store or to the service: while no id was
  stored over another (`twoIds`) and no call was overtaken by a reset
  (`raced`), what each call holds is for the id in the store (`Matches`). Its
  use is that a token that was issued has an id, so that the store has one
  (`IssuedHasId`), and a call that finds an id never draws one.

### Model-checked only

Liveness under fairness: `EverySendEnds`, `EverySendEndsOrPanics`,
`DoneIsSaved`, `EveryRequestEnds` and `Settles` are out of TLAPS's reach. The
properties of the four violation runs are false.

## Plan

Done:

1. Socket, PhoneSend, Receiver, NodeReceive, GoReceive, FileCopy, their
   compositions.
2. PhoneReceive, PcSend, NodeToPhone, GoToPhone.
3. Pairing, the clients map and the PC's store on both servers: Pairing,
   GoPairing, NodePairing, Pc.
4. The phone's connection, its store and its screens: PhoneSocket, PhoneApp.
5. Proofs of every safety property the passing runs check, and of the
   refinement of FileCopy by both servers.

Left:

1. An abstract specification for PC-to-phone transfers and its refinement, from
   `CallsInv` and `SaveInv`. They do not implement FileCopy: after a send was
   given up, a handler it left on the phone may acknowledge its chunk under the
   next transfer's id.
2. What holds of the running call after another was given up (the exception
   `AloneFailing`): which of the handlers left behind can still do harm.
3. Saves of the PC's store that fail with an error; two phones that send files
   of one name to the Go server at once.

## Not modelled

* Discovery (mDNS in libraries), configuration (one JSON file read at start-up
  and by commands), the command lines (the environment of the models), theme,
  error boundary, the PWA shell and build files: no state whose interleavings
  matter, or pure I/O.
* The message codec: messages are records.
* Clipboard: on demand only, polling is disabled in both backends; on arrival a
  text or a clipboard is stored or printed by one assignment.
* The scan of the subnet, which keeps no state; the ping loop of the Go server
  (`server.go:907`), which matters only under the network's back-pressure: in
  the models a write never blocks.
* Failures of the PC's file system, and handlers no peer uses (`FILE_CHUNK` in
  base64, `removeDevice`).
