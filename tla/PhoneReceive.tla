---------------------------- MODULE PhoneReceive ----------------------------
(***************************************************************************)
(* The phone's half of a PC-to-phone file transfer: FileTransferService's  *)
(* handlers of FILE_META, binary frames and FILE_END.  FILE_META registers *)
(* the transfer at once and prepares its file in the background; a chunk   *)
(* is decoded asynchronously and kept in memory; FILE_END joins the chunks *)
(* and writes them in one go.  Handlers of several frames may be under way *)
(* at a time.  PcSend puts the two servers' senders at the other end.      *)
(***************************************************************************)
EXTENDS Socket

CONSTANTS
  Transfers,   \* the transfer ids the PC draws, one per sendFile call
  NumChunks,   \* NumChunks[t]: how many 60 KB chunks the file of t has
  Name,        \* Name[t]: the file name the PC announces for t
  YieldEvery,  \* a pause follows every so many chunks: 50
  Faults       \* TRUE: the phone's file system and its decoder may fail

ASSUME PhoneReceiveAssumption ==
  /\ NONE \notin Transfers
  /\ NumChunks \in [Transfers -> Nat]
  /\ DOMAIN Name = Transfers
  /\ YieldEvery \in Nat \ {0}
  /\ Faults \in BOOLEAN

VARIABLES
  cur,       \* currentReceiveId: where a binary frame goes
  receives,  \* keys of activeReceives
  init,      \* init[t]: "none", "pending", "ok" or "failed"
  got,       \* got[t]: transfer.received
  chunks,    \* chunks[t]: transfer.chunks
  waiting,   \* handlers of binary frames under way
  fin,       \* fin[t]: how far FILE_END has come, see FinStates
  flushing,  \* flushing[t]: the chunks FILE_END of t joined
  disk,      \* disk[n]: what the local file n holds
  saved      \* saved[t]: what file and SAF copy hold when t is reported

receiveVars == <<cur, receives, init, got, chunks, waiting, fin, flushing,
                 disk, saved>>

\* In this direction an ACK is a transfer id and a count; 0 means ready.
Meta(t)     == [kind |-> "meta",  t |-> t, k |-> 0]
Chunk(t, k) == [kind |-> "chunk", t |-> t, k |-> k]
End(t)      == [kind |-> "end",   t |-> t, k |-> 0]
Ack(t, k)   == [kind |-> "ack",   t |-> t, k |-> k]

Ids    == Transfers \cup {NONE}
Frames == [kind : {"auth", "meta", "chunk", "end", "ack"}, t : Ids, k : Nat]
Chunks == Transfers \X Nat

\* "flush": the joined chunks are being written; "flushed" or "unflushed":
\* they were, or that failed; "saved" and "reported" are the ends of the two.
FinStates ==
  {"no", "flush", "flushed", "unflushed", "saved", "reported"}

\* A handler of a binary frame: the bytes, the transfer they go to, and what
\* it awaits, the file's initialisation, the decoder or the pause.
Handlers ==
  [chunk : Chunks, t : Transfers, at : {"init", "decode", "yield"}]

ReceiveTypeOK ==
  /\ cur \in Ids
  /\ receives \subseteq Transfers
  /\ init \in [Transfers -> {"none", "pending", "ok", "failed"}]
  /\ got \in [Transfers -> Nat]
  /\ chunks \in [Transfers -> Seq(Chunks)]
  /\ waiting \subseteq Handlers
  /\ fin \in [Transfers -> FinStates]
  /\ flushing \in [Transfers -> Seq(Chunks)]
  /\ disk \in [{Name[t] : t \in Transfers} -> Seq(Chunks)]
  /\ saved \in [Transfers -> Seq(Chunks)]

ReceiveInit ==
  /\ cur = NONE
  /\ receives = {}
  /\ init = [t \in Transfers |-> "none"]
  /\ got = [t \in Transfers |-> 0]
  /\ chunks = [t \in Transfers |-> <<>>]
  /\ waiting = {}
  /\ fin = [t \in Transfers |-> "no"]
  /\ flushing = [t \in Transfers |-> <<>>]
  /\ disk = [n \in {Name[t] : t \in Transfers} |-> <<>>]
  /\ saved = [t \in Transfers |-> <<>>]

----------------------------------------------------------------------------
(* FILE_META. *)

\* The phone takes the next frame, of the given kind, and sends nothing.
Arrives(kind) ==
  /\ Deliver
  /\ Head(down).kind = kind
  /\ UNCHANGED <<up, pending>>

\* A step of the phone that is not the arrival of a frame.
Background == UNCHANGED <<link, conn, drops, down>>

\* _handleFileStart: registered and current before anything is awaited.
HandleMeta ==
  /\ Arrives("meta")
  /\ LET t == Head(down).t IN
       /\ cur' = t
       /\ receives' = receives \cup {t}
       /\ init' = [init EXCEPT ![t] = "pending"]
       /\ got' = [got EXCEPT ![t] = 0]
       /\ chunks' = [chunks EXCEPT ![t] = <<>>]
  /\ UNCHANGED <<waiting, fin, flushing, disk, saved>>

\* _initTransferFile truncates the local file; readiness is acknowledged
\* whether that worked or not.
InitFile(t) ==
  /\ init[t] = "pending"
  /\ \/ /\ init' = [init EXCEPT ![t] = "ok"]
        /\ disk' = [disk EXCEPT ![Name[t]] = <<>>]
     \/ /\ Faults
        /\ init' = [init EXCEPT ![t] = "failed"]
        /\ UNCHANGED disk
  /\ Send(Ack(t, 0))
  /\ Background
  /\ UNCHANGED <<cur, receives, got, chunks, waiting, fin, flushing, saved>>

----------------------------------------------------------------------------
(* Binary frames. *)

\* _handleBinary: nobody to take the frame.
DropBinary ==
  /\ Arrives("chunk")
  /\ cur \notin receives
  /\ UNCHANGED receiveVars

\* _handleBinary up to its first await: the frame is for the current
\* transfer, whichever that is.  It is counted once the file is initialised.
TakeBinary ==
  /\ Arrives("chunk")
  /\ cur \in receives
  /\ LET ready == init[cur] = "ok" IN
       /\ waiting' = waiting \cup
            {[chunk |-> <<Head(down).t, Head(down).k>>,
              t     |-> cur,
              at    |-> IF ready THEN "decode" ELSE "init"]}
       /\ got' = IF ready THEN [got EXCEPT ![cur] = @ + 1] ELSE got
  /\ UNCHANGED <<cur, receives, init, chunks, fin, flushing, disk, saved>>

\* The 100 ms poll finds the file initialised.
InitReady(h) ==
  /\ h.at = "init"
  /\ init[h.t] = "ok"
  /\ waiting' = (waiting \ {h}) \cup {[h EXCEPT !.at = "decode"]}
  /\ got' = [got EXCEPT ![h.t] = @ + 1]
  /\ Background
  /\ UNCHANGED <<up, pending, cur, receives, init, chunks, fin, flushing,
                 disk, saved>>

\* After 5 s without initialisation the chunk is dropped.
InitGivesUp(h) ==
  /\ h.at = "init"
  /\ init[h.t] # "ok"
  /\ waiting' = waiting \ {h}
  /\ Background
  /\ UNCHANGED <<up, pending, cur, receives, init, got, chunks, fin, flushing,
                 disk, saved>>

\* Mutant of Decoded: the chunk is acknowledged and not kept.
DecodedNotKept(h) ==
  /\ h.at = "decode"
  /\ Send(Ack(cur, got[h.t]))
  /\ waiting' = waiting \ {h}
  /\ Background
  /\ UNCHANGED <<cur, receives, init, got, chunks, fin, flushing, disk, saved>>

\* The decoder is done: the chunk is kept and, unless the pause comes first,
\* acknowledged, under the id that is current by now.
Decoded(h) ==
  /\ h.at = "decode"
  /\ chunks' = [chunks EXCEPT ![h.t] = Append(@, h.chunk)]
  /\ IF got[h.t] % YieldEvery = 0
     THEN /\ waiting' = (waiting \ {h}) \cup {[h EXCEPT !.at = "yield"]}
          /\ UNCHANGED <<up, pending>>
     ELSE /\ waiting' = waiting \ {h}
          /\ Send(Ack(cur, got[h.t]))
  /\ Background
  /\ UNCHANGED <<cur, receives, init, got, fin, flushing, disk, saved>>

\* The decoder fails: the chunk is gone, and stays counted.
DecodeFails(h) ==
  /\ Faults
  /\ h.at = "decode"
  /\ waiting' = waiting \ {h}
  /\ Background
  /\ UNCHANGED <<up, pending, cur, receives, init, got, chunks, fin, flushing,
                 disk, saved>>

\* The pause is over.
Yielded(h) ==
  /\ h.at = "yield"
  /\ waiting' = waiting \ {h}
  /\ Send(Ack(cur, got[h.t]))
  /\ Background
  /\ UNCHANGED <<cur, receives, init, got, chunks, fin, flushing, disk, saved>>

----------------------------------------------------------------------------
(* FILE_END. *)

\* _handleFileEnd joins the chunks it has and starts to write them; it
\* returns at once for a transfer the phone does not know.
HandleEnd ==
  /\ Arrives("end")
  /\ LET t == Head(down).t IN
       IF t \in receives
       THEN /\ fin' = [fin EXCEPT ![t] = "flush"]
            /\ flushing' = [flushing EXCEPT ![t] = chunks[t]]
       ELSE UNCHANGED <<fin, flushing>>
  /\ UNCHANGED <<cur, receives, init, got, chunks, waiting, disk, saved>>

\* The write completes, or fails: that is logged and nothing else.
Flush(t) ==
  /\ fin[t] = "flush"
  /\ \/ /\ fin' = [fin EXCEPT ![t] = "flushed"]
        /\ disk' = [disk EXCEPT ![Name[t]] = flushing[t]]
        /\ chunks' = [chunks EXCEPT ![t] = <<>>]
     \/ /\ Faults
        /\ fin' = [fin EXCEPT ![t] = "unflushed"]
        /\ UNCHANGED <<disk, chunks>>
  /\ Background
  /\ UNCHANGED <<up, pending, cur, receives, init, got, waiting, flushing,
                 saved>>

\* Mutant of Report: the current transfer is cleared, whichever it is.
ReportClearsAny(t) ==
  /\ fin[t] \in {"flushed", "unflushed"}
  /\ fin' = [fin EXCEPT ![t] = IF @ = "flushed" THEN "saved" ELSE "reported"]
  /\ saved' = [saved EXCEPT ![t] = disk[Name[t]]]
  /\ receives' = receives \ {t}
  /\ cur' = NONE
  /\ Background
  /\ UNCHANGED <<up, pending, init, got, chunks, waiting, flushing, disk>>

\* The local file is read again for the SAF copy, the file is reported as
\* received and the transfer forgotten.
Report(t) ==
  /\ fin[t] \in {"flushed", "unflushed"}
  /\ fin' = [fin EXCEPT ![t] = IF @ = "flushed" THEN "saved" ELSE "reported"]
  /\ saved' = [saved EXCEPT ![t] = disk[Name[t]]]
  /\ receives' = receives \ {t}
  /\ cur' = IF cur = t THEN NONE ELSE cur
  /\ Background
  /\ UNCHANGED <<up, pending, init, got, chunks, waiting, flushing, disk>>

FrameArrives == HandleMeta \/ DropBinary \/ TakeBinary \/ HandleEnd

PhoneTask ==
  \/ \E t \in Transfers : InitFile(t) \/ Flush(t) \/ Report(t)
  \/ \E h \in waiting : \/ InitReady(h) \/ InitGivesUp(h) \/ Decoded(h)
                        \/ DecodeFails(h) \/ Yielded(h)
=============================================================================
