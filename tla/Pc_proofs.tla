------------------------------ MODULE Pc_proofs ------------------------------
(***************************************************************************)
(* Proofs about pairing, for any number of phones, codes, requests,        *)
(* connections and faults, on both servers: types, that a code which is    *)
(* accepted has its own timer, that a code a phone was told it is paired   *)
(* by lets no further request in, that on Go a code ends for cause, that   *)
(* the clients map is true to the connections, and that the store knows    *)
(* every phone that was told it is paired.                                 *)
(***************************************************************************)
EXTENDS Pc, FiniteSetTheorems, WellFoundedInduction, TLAPS

ReqType  == [at : {"idle", "sent", "refused", "told", "lost", "dead"}
                    \cup Busy,
             dev : Devices \cup {NONE}, code : Codes \cup {NONE},
             conn : Conns \cup {NONE}]
ConnType == [link : {"unused", "open", "closing", "gone"},
             auth : {"new", "entered", "in", "refused"},
             dev : Devices \cup {NONE}, tok : Tokens]
DiskType == [is : {"whole", "empty", "mixed"}, map : DeviceMaps]

ProcOK == /\ backend \in {"go", "node"}
          /\ proc \in {"up", "stopping", "off", "refused"}
          /\ faults \in 0 .. MaxFaults
CodeOK == /\ code \in Codes \cup {NONE} /\ issued \in 0 .. MaxCodes
          /\ timers \subseteq 1 .. issued
          /\ ActiveHasTimer
StoreOK == /\ devices \in DeviceMaps /\ disk \in DiskType
           /\ saves \subseteq Saves /\ clean \in BOOLEAN
OneSave == backend = "go" => \A s, t \in saves : s = t
ReqOK   == req \in [Reqs -> ReqType]
ConnOK  == /\ conn \in [Conns -> ConnType]
           /\ clients \in [Devices -> Conns \cup {NONE}]
PhoneOK == asking \in [Devices -> Tokens] /\ tok \in [Devices -> Tokens]

\* What ties requests to codes: a request keeps the code it was made with
\* while it is worked on and after it was answered, and a code that is
\* accepted is one no request has finished with.
ReqCodes ==
  \A r \in Reqs :
    /\ req[r].code # NONE => req[r].code \in 1 .. issued
    /\ req[r].at \in Busy \cup {"told", "lost"} => req[r].code # NONE
    /\ req[r].at \in {"cleared", "told", "lost"} => code # req[r].code

IInv == /\ ProcOK /\ CodeOK /\ StoreOK /\ OneSave /\ ReqOK /\ ConnOK
        /\ PhoneOK /\ ReqCodes
-----------------------------------------------------------------------------
(* Constants and helpers.                                                  *)

\* The bounds are numbers, and NONE is none.
LEMMA Bounds ==
  /\ MaxReqs \in Nat /\ MaxConns \in Nat /\ MaxCodes \in Nat
  /\ MaxFaults \in Nat /\ NONE \notin Nat
  BY PairingAssumption

\* A non-empty set of numbers has a smallest.
LEMMA FreshIn ==
  ASSUME NEW S \in SUBSET Nat, S # {}
  PROVE  Fresh(S) \in S
  <1> DEFINE R == {p \in Nat \X Nat : p[1] < p[2]}
  <1>0. IsWellFoundedOn(R, Nat)
    BY NatLessThanWellFounded, Zenon DEF OpToRel
  <1>1. PICK x \in S : \A y \in S : ~(<<y, x>> \in R)
    BY <1>0, WFMin, Zenon
  <1>2. ASSUME NEW y \in S PROVE x <= y
    <2>1. y < x => <<y, x>> \in R
      OBVIOUS
    <2>2. ~(y < x)
      BY <1>1, <2>1
    <2> QED
      BY <2>2
  <1> QED
    BY <1>2 DEF Fresh

\* At most one save at a time: what TypeOK says by a cardinality.
LEMMA AtMostOne ==
  ASSUME \A s, t \in saves : s = t
  PROVE  Cardinality(saves) <= 1
  <1>1. CASE saves = {}
    BY <1>1, FS_EmptySet
  <1>2. CASE saves # {}
    <2>1. PICK s \in saves : TRUE
      BY <1>2
    <2>2. saves = {s}
      BY <2>1
    <2> QED
      BY <2>2, FS_Singleton
  <1> QED
    BY <1>1, <1>2

\* The invariant implies the type invariant.
LEMMA InvTypes == IInv => TypeOK
  <1> SUFFICES ASSUME IInv PROVE TypeOK
    OBVIOUS
  <1>1. backend = "go" => Cardinality(saves) <= 1
    BY AtMostOne DEF IInv, OneSave
  <1> QED
    BY <1>1 DEF IInv, ProcOK, CodeOK, StoreOK, ReqOK, ConnOK, PhoneOK,
                ReqType, ConnType, DiskType, TypeOK

\* The first state.
LEMMA InvStarts == Init => IInv
  <1> SUFFICES ASSUME Init PROVE IInv
    OBVIOUS
  <1>0. Nothing \in DeviceMaps /\ Nothing \in [Devices -> Conns \cup {NONE}]
        /\ Nothing \in [Devices -> Tokens]
    BY DEF Nothing, DeviceMaps, Tokens
  <1>1. ProcOK /\ CodeOK
    BY Bounds DEF Init, ProcOK, CodeOK, ActiveHasTimer
  <1>2. StoreOK /\ OneSave /\ PhoneOK
    BY <1>0 DEF Init, StoreOK, OneSave, PhoneOK, DiskType
  <1>3. ReqOK /\ ReqCodes
    BY DEF Init, ReqOK, ReqType, ReqCodes, Busy
  <1>4. ConnOK
    BY <1>0 DEF Init, ConnOK, ConnType, Link, Tokens
  <1> QED
    BY <1>1, <1>2, <1>3, <1>4 DEF IInv
-----------------------------------------------------------------------------
(* The phones' steps.                                                      *)

\* Waiting for fewer answers is well typed.
LEMMA UnaskedType ==
  ASSUME PhoneOK, NEW closed PROVE Unasked(closed) \in [Devices -> Tokens]
  BY DEF PhoneOK, Unasked, Tokens

\* A new socket is one of the connections, and is well typed.
LEMMA OpenedType ==
  ASSUME ConnOK, Unused # {}, NEW d \in Devices, NEW t \in Tokens
  PROVE  /\ Fresh(Unused) \in Conns
         /\ Opened(Fresh(Unused), d, t) \in [Conns -> ConnType]
  <1>1. Unused \in SUBSET Nat /\ Unused \subseteq Conns
    BY Bounds DEF Unused, Conns
  <1>2. Fresh(Unused) \in Conns
    BY <1>1, FreshIn
  <1>3. Link("open", d, t) \in ConnType
    BY DEF Link, ConnType
  <1>4. ASSUME NEW x \in Conns
        PROVE  [conn[x] EXCEPT !.link = "closing"] \in ConnType
    BY DEF ConnOK, ConnType
  <1> QED
    BY <1>2, <1>3, <1>4 DEF Opened, ConnOK

\* A request is sent with a code that was issued.
LEMMA AskStep ==
  ASSUME IInv, NEW d \in Devices, NEW k \in Codes,
         NEW c \in Conns \cup {NONE}, Ask(d, k, c)
  PROVE  /\ ProcOK' /\ CodeOK' /\ StoreOK' /\ OneSave' /\ ReqOK'
         /\ PhoneOK' /\ ReqCodes'
  <1> DEFINE idle == {r \in Reqs : req[r].at = "idle"}
             r == Fresh(idle)
             q == [at |-> "sent", dev |-> d, code |-> k, conn |-> c]
  <1>1. r \in Reqs
    <2>1. idle \in SUBSET Nat /\ idle # {}
      BY Bounds DEF Ask, Reqs
    <2> QED
      BY <2>1, FreshIn
  <1>2. req' = [req EXCEPT ![r] = q] /\ asking' = [asking EXCEPT ![d] = r]
    BY DEF Ask
  <1>3. q \in ReqType
    BY DEF ReqType
  <1>4. ReqOK'
    BY <1>1, <1>2, <1>3 DEF IInv, ReqOK
  <1>5. k \in 1 .. issued /\ k # NONE
    BY Bounds DEF Ask, IInv, CodeOK, Codes
  <1>6. UNCHANGED <<procVars, codeVars, storeVars, tok>>
    BY DEF Ask
  <1>7. ReqCodes'
    BY <1>1, <1>2, <1>5, <1>6 DEF IInv, ReqOK, ReqCodes, Busy, codeVars
  <1>8. PhoneOK'
    BY <1>1, <1>2, <1>6 DEF IInv, PhoneOK, Tokens
  <1> QED
    BY <1>4, <1>6, <1>7, <1>8
    DEF IInv, procVars, codeVars, storeVars, ProcOK, CodeOK, ActiveHasTimer,
        StoreOK, OneSave

\* The steps of the phones keep the invariant.
LEMMA PhonesStep ==
  ASSUME IInv, Phones
  PROVE  IInv'
  <1>0. NONE \in Tokens /\ NONE \in Conns \cup {NONE}
    BY DEF Tokens
  <1>1. ASSUME NEW d \in Devices, NEW k \in Codes, PhoneAsks(d, k)
        PROVE  IInv'
    <2>1. Ask(d, k, NONE) /\ UNCHANGED <<conn, clients>>
      BY <1>1 DEF PhoneAsks, Ask
    <2>2. ConnOK'
      BY <2>1 DEF IInv, ConnOK
    <2> QED
      BY <1>0, <2>1, <2>2, AskStep DEF IInv
  <1>2. ASSUME NEW d \in Devices, NEW k \in Codes, PhoneAsksOnSocket(d, k)
        PROVE  IInv'
    <2>1. /\ Unused # {}
          /\ Ask(d, k, Fresh(Unused)) /\ UNCHANGED clients
          /\ conn' = Opened(Fresh(Unused), d, NONE)
      BY <1>2 DEF PhoneAsksOnSocket, Ask
    <2>2. Fresh(Unused) \in Conns /\ conn' \in [Conns -> ConnType]
      BY <1>0, <2>1, OpenedType DEF IInv
    <2>3. ConnOK'
      BY <2>1, <2>2 DEF IInv, ConnOK
    <2> QED
      BY <2>1, <2>2, <2>3, AskStep DEF IInv
  <1>3. ASSUME NEW d \in Devices, PhoneGivesUp(d)
        PROVE  IInv'
    <2>1. ProcOK'
      BY <1>3, Bounds DEF IInv, PhoneGivesUp, Fault, ProcOK
    <2>2. PhoneOK'
      BY <1>0, <1>3 DEF IInv, PhoneGivesUp, PhoneOK
    <2> QED
      BY <1>3, <2>1, <2>2
      DEF IInv, PhoneGivesUp, codeVars, storeVars, CodeOK, ActiveHasTimer,
          StoreOK, OneSave, ReqOK, ConnOK, ReqCodes
  <1>4. ASSUME NEW d \in Devices, PhoneConnects(d)
        PROVE  IInv'
    <2>1. tok[d] \in Tokens
      BY DEF IInv, PhoneOK
    <2>2. ConnOK'
      BY <1>4, <2>1, OpenedType DEF IInv, PhoneConnects, ConnOK
    <2>3. PhoneOK'
      BY <1>4, UnaskedType DEF IInv, PhoneConnects, PhoneOK
    <2> QED
      BY <1>4, <2>2, <2>3
      DEF IInv, PhoneConnects, procVars, codeVars, storeVars, ProcOK, CodeOK,
          ActiveHasTimer, StoreOK, OneSave, ReqOK, ReqCodes
  <1> QED
    BY <1>1, <1>2, <1>3, <1>4 DEF Phones

\* A connection breaks.
LEMMA DropStep ==
  ASSUME IInv, NEW c \in Conns, Drop(c)
  PROVE  IInv'
  <1>1. ProcOK'
    BY Bounds DEF IInv, Drop, Fault, ProcOK
  <1>2. ConnOK'
    BY DEF IInv, Drop, ConnOK, ConnType
  <1>3. PhoneOK'
    BY UnaskedType DEF IInv, Drop, PhoneOK
  <1> QED
    BY <1>1, <1>2, <1>3
    DEF IInv, Drop, codeVars, storeVars, CodeOK, ActiveHasTimer,
        StoreOK, OneSave, ReqOK, ReqCodes
-----------------------------------------------------------------------------
(* The handlers' steps.                                                    *)

\* A request refused or ended keeps no code.
LEMMA OverType ==
  ASSUME ReqOK, NEW r \in Reqs, NEW at \in {"refused", "dead"}
  PROVE  /\ Over(r, at) \in ReqType /\ Over(r, at).code = NONE
         /\ Over(r, at).at = at
  BY DEF ReqOK, ReqType, Over

\* The entry of a device and the connection it replaces are well typed.
LEMMA EnterType ==
  ASSUME ConnOK, NEW c \in Conns, NEW d, NEW auth \in {"entered", "in"},
         Enter(c, d, auth)
  PROVE  ConnOK'
  <1>1. ASSUME NEW x \in Conns
        PROVE  /\ [conn[x] EXCEPT !.auth = auth] \in ConnType
               /\ [conn[x] EXCEPT !.link = "closing"] \in ConnType
               /\ conn[x] \in ConnType
    BY DEF ConnOK, ConnType
  <1>2. conn' \in [Conns -> ConnType]
    BY <1>1 DEF Enter
  <1>3. clients' \in [Devices -> Conns \cup {NONE}]
    BY DEF Enter, ConnOK
  <1> QED
    BY <1>2, <1>3 DEF ConnOK

\* An answered request keeps its code.
LEMMA AnsweredStep ==
  ASSUME ReqOK, PhoneOK, ReqCodes, NEW r \in Reqs, Answered(r),
         issued' = issued, req[r].at \in Busy,
         code' # req[r].code, code' \in {code, NONE}, NONE \notin Nat
  PROVE  ReqOK' /\ PhoneOK' /\ ReqCodes'
  <1>1. PICK at \in {"told", "lost"} : req' = [req EXCEPT ![r].at = at]
    BY DEF Answered
  <1>2. ReqOK'
    BY <1>1 DEF ReqOK, ReqType
  <1>3. /\ req'[r].at = at /\ req'[r].code = req[r].code
        /\ \A x \in Reqs : x # r => req'[x] = req[x]
    BY <1>1 DEF ReqOK, ReqType
  <1>4. ReqCodes'
    <2> SUFFICES ASSUME NEW x \in Reqs
                 PROVE  /\ req'[x].code # NONE => req'[x].code \in 1 .. issued
                        /\ req'[x].at \in Busy \cup {"told", "lost"} =>
                             req'[x].code # NONE
                        /\ req'[x].at \in {"cleared", "told", "lost"} =>
                             code' # req'[x].code
      BY DEF ReqCodes
    <2>1. CASE x = r
      BY <1>3, <2>1 DEF ReqCodes
    <2>2. CASE x # r
      BY <1>3, <2>2 DEF ReqCodes, Busy
    <2> QED
      BY <2>1, <2>2
  <1>5. PhoneOK'
    BY DEF Answered, PhoneOK, Tokens
  <1> QED
    BY <1>2, <1>4, <1>5

\* The invariant where a step moves one request on and may clear the code.
LEMMA MoveOn ==
  ASSUME ReqOK, ReqCodes, NEW r \in Reqs,
         NEW at \in Busy, req[r].code # NONE,
         req' = [req EXCEPT ![r].at = at], issued' = issued,
         code' \in {code, NONE}, at = "cleared" => code' = NONE
  PROVE  ReqOK' /\ ReqCodes'
  <1>1. ReqOK'
    BY DEF ReqOK, ReqType
  <1>2. /\ req'[r].at = at /\ req'[r].code = req[r].code
        /\ \A x \in Reqs : x # r => req'[x] = req[x]
    BY DEF ReqOK, ReqType
  <1>3. ReqCodes'
    <2> SUFFICES ASSUME NEW x \in Reqs
                 PROVE  /\ req'[x].code # NONE => req'[x].code \in 1 .. issued
                        /\ req'[x].at \in Busy \cup {"told", "lost"} =>
                             req'[x].code # NONE
                        /\ req'[x].at \in {"cleared", "told", "lost"} =>
                             code' # req'[x].code
      BY DEF ReqCodes
    <2>1. CASE x = r
      BY <1>2, <2>1 DEF ReqCodes, Busy
    <2>2. CASE x # r
      BY <1>2, <2>2 DEF ReqCodes, Busy
    <2> QED
      BY <2>1, <2>2
  <1> QED
    BY <1>1, <1>3

\* An invalid code is refused.
LEMMA RefuseStep ==
  ASSUME IInv, NEW r \in Reqs, Refuse(r)
  PROVE  IInv'
  <1>1. Over(r, "refused") \in ReqType /\ Over(r, "refused").code = NONE
        /\ Over(r, "refused").at = "refused"
    BY OverType DEF IInv
  <1>2. req' = [req EXCEPT ![r] = Over(r, "refused")]
    BY DEF Refuse
  <1>3. ReqOK'
    BY <1>1, <1>2 DEF IInv, ReqOK
  <1>4. UNCHANGED <<procVars, codeVars, storeVars, conn, clients, tok>>
    BY DEF Refuse
  <1>5. ReqCodes'
    BY <1>1, <1>2, <1>4 DEF IInv, ReqOK, ReqCodes, Busy, codeVars
  <1>6. PhoneOK'
    BY DEF IInv, PhoneOK, Refuse, Tokens
  <1> QED
    BY <1>3, <1>4, <1>5, <1>6
    DEF IInv, procVars, codeVars, storeVars, ProcOK, CodeOK, ActiveHasTimer,
        StoreOK, OneSave, ConnOK

\* A new code, or the end of one by its timer.
LEMMA CodeStep ==
  ASSUME IInv, Pair \/ Expiry
  PROVE  IInv'
  <1>1. CASE Pair
    <2>1. /\ issued' = issued + 1 /\ code' = issued + 1
          /\ timers' = timers \cup {issued + 1} /\ issued < MaxCodes
          /\ UNCHANGED <<procVars, storeVars, phoneVars, req, conn, clients>>
      BY <1>1 DEF Pair, StartPairing
    <2>2. CodeOK'
      BY <2>1, Bounds DEF IInv, CodeOK, ActiveHasTimer, Codes
    <2>3. ReqCodes'
      BY <2>1, Bounds DEF IInv, CodeOK, ReqCodes, Busy
    <2> QED
      BY <2>1, <2>2, <2>3
      DEF IInv, procVars, storeVars, phoneVars, ProcOK, StoreOK, OneSave,
          ReqOK, ConnOK, PhoneOK
  <1>2. ASSUME NEW k \in timers, GoExpire(k) \/ NodeExpire(k)
        PROVE  IInv'
    <2>1. /\ timers' = timers \ {k} /\ code' \in {code, NONE}
          /\ code' = code => code # k \/ code = NONE
          /\ UNCHANGED <<procVars, issued, storeVars, phoneVars, req, conn,
                         clients>>
      BY <1>2 DEF GoExpire, NodeExpire
    <2>2. CodeOK'
      BY <2>1 DEF IInv, CodeOK, ActiveHasTimer
    <2>3. ReqCodes'
      BY <2>1 DEF IInv, ReqCodes, Busy
    <2> QED
      BY <2>1, <2>2, <2>3
      DEF IInv, procVars, storeVars, phoneVars, ProcOK, StoreOK, OneSave,
          ReqOK, ConnOK, PhoneOK
  <1> QED
    BY <1>1, <1>2 DEF Expiry
-----------------------------------------------------------------------------
(* Connections and saves.                                                  *)

\* AUTH refused, or the end of a connection.
LEMMA LeaveStep ==
  ASSUME IInv, NEW c \in Conns, Leave(c) \/ RefuseAuth(c)
  PROVE  IInv'
  <1>1. Gone \in ConnType
    BY DEF Gone, Link, ConnType, Tokens
  <1>2. ConnOK'
    <2>1. CASE Leave(c)
      BY <1>1, <2>1 DEF IInv, Leave, ConnOK
    <2>2. CASE RefuseAuth(c)
      <3>1. [conn[c] EXCEPT !.auth = "refused"] \in ConnType
        BY DEF IInv, ConnOK, ConnType
      <3>2. conn' = [conn EXCEPT ![c] = [conn[c] EXCEPT !.auth = "refused"]]
        BY <2>2 DEF RefuseAuth
      <3> QED
        BY <2>2, <3>1, <3>2 DEF IInv, RefuseAuth, ConnOK
    <2> QED
      BY <2>1, <2>2
  <1> QED
    BY <1>2
    DEF IInv, Leave, RefuseAuth, procVars, codeVars, storeVars, phoneVars,
        ProcOK, CodeOK, ActiveHasTimer, StoreOK, OneSave, ReqOK, PhoneOK,
        ReqCodes

\* A save reaches the file, or opens it.
LEMMA SaveStep ==
  ASSUME IInv, NEW s \in saves, Write(s) \/ (backend = "node" /\ Open(s))
  PROVE  IInv'
  <1>0. s \in Saves /\ Nothing \in DeviceMaps
    BY DEF IInv, StoreOK, Nothing, DeviceMaps, Tokens
  <1>1. s.map \in DeviceMaps /\ [s EXCEPT !.open = TRUE] \in Saves
    BY <1>0 DEF Saves
  <1>2. StoreOK'
    <2>1. disk' \in DiskType
      <3>1. [is |-> "whole", map |-> s.map] \in DiskType
            /\ [is |-> "mixed", map |-> Nothing] \in DiskType
            /\ [is |-> "empty", map |-> Nothing] \in DiskType
        BY <1>0, <1>1 DEF DiskType
      <3> QED
        BY <3>1 DEF Write, Open
    <2>2. saves' \subseteq Saves
      BY <1>1 DEF IInv, Write, Open, StoreOK
    <2> QED
      BY <2>1, <2>2 DEF IInv, Write, Open, StoreOK
  <1>3. OneSave'
    BY DEF IInv, Write, Open, OneSave, procVars
  <1> QED
    BY <1>2, <1>3
    DEF IInv, Write, Open, procVars, codeVars, phoneVars, ProcOK, CodeOK,
        ActiveHasTimer, ReqOK, ConnOK, PhoneOK, ReqCodes

\* handleAuth of either server, up to its first save.
LEMMA AuthStep ==
  ASSUME IInv, NEW c \in Conns, GoAuth(c) \/ (backend = "node" /\ NodeAuth(c))
  PROVE  IInv'
  <1>1. ConnOK'
    BY EnterType DEF IInv, GoAuth, NodeAuth
  <1>2. CASE GoAuth(c)
    BY <1>1, <1>2
    DEF IInv, GoAuth, procVars, codeVars, storeVars, phoneVars, ProcOK,
        CodeOK, ActiveHasTimer, StoreOK, OneSave, ReqOK, PhoneOK, ReqCodes
  <1>3. CASE backend = "node" /\ NodeAuth(c)
    <2>1. [of |-> "auth", id |-> c, map |-> devices, open |-> FALSE] \in Saves
      BY DEF IInv, StoreOK, Saves
    <2>2. StoreOK' /\ OneSave'
      BY <1>3, <2>1
      DEF IInv, NodeAuth, UpdateLastSeen, Save, StoreOK, OneSave, procVars
    <2> QED
      BY <1>1, <1>3, <2>2
      DEF IInv, NodeAuth, procVars, codeVars, phoneVars, ProcOK, CodeOK,
          ActiveHasTimer, ReqOK, PhoneOK, ReqCodes
  <1> QED
    BY <1>2, <1>3

\* UpdateLastSeen of the Go server: the mutex was free.
LEMMA TouchStep ==
  ASSUME IInv, NEW c \in Conns, GoTouch(c)
  PROVE  IInv'
  <1>0. Nothing \in DeviceMaps
    BY DEF Nothing, DeviceMaps, Tokens
  <1>1. [of |-> "auth", id |-> c, map |-> devices, open |-> TRUE] \in Saves
    BY DEF IInv, StoreOK, Saves
  <1>2. StoreOK' /\ OneSave'
    BY <1>0, <1>1 DEF IInv, GoTouch, StoreOK, OneSave, DiskType
  <1>3. ConnOK'
    BY DEF IInv, GoTouch, ConnOK, ConnType
  <1> QED
    BY <1>2, <1>3
    DEF IInv, GoTouch, procVars, codeVars, phoneVars, ProcOK, CodeOK,
        ActiveHasTimer, ReqOK, PhoneOK, ReqCodes
-----------------------------------------------------------------------------
(* Pairing.                                                                *)

\* A request that is worked on has a code.
LEMMA HasCode ==
  ASSUME IInv, NEW r \in Reqs,
         req[r].at \in Busy \/ Valid(r)
  PROVE  req[r].code # NONE
  BY DEF IInv, ReqCodes, Valid

\* The Go server checks the code, and later clears whichever there is.
LEMMA GoCodeStep ==
  ASSUME IInv, NEW r \in Reqs, GoCheck(r) \/ GoClear(r)
  PROVE  IInv'
  <1>1. req[r].code # NONE
    BY HasCode DEF GoCheck, GoClear, Busy
  <1>3. issued' = issued /\ code' \in {code, NONE} /\ timers' = timers
    BY DEF GoCheck, GoClear, codeVars
  <1>4. ReqOK' /\ ReqCodes'
    <2>1. ReqOK /\ ReqCodes
      BY DEF IInv
    <2>2. CASE GoCheck(r)
      <3>1. req' = [req EXCEPT ![r].at = "checked"] /\ "checked" \in Busy
        BY <2>2 DEF GoCheck, Busy
      <3> QED
        BY <1>1, <1>3, <2>1, <3>1, MoveOn
    <2>3. CASE GoClear(r)
      <3>1. /\ req' = [req EXCEPT ![r].at = "cleared"]
            /\ "cleared" \in Busy /\ code' = NONE
        BY <2>3 DEF GoClear, Busy
      <3> QED
        BY <1>1, <1>3, <2>1, <3>1, MoveOn
    <2> QED
      BY <2>2, <2>3
  <1>5. CodeOK'
    BY <1>3 DEF IInv, CodeOK, ActiveHasTimer
  <1> QED
    BY <1>4, <1>5
    DEF IInv, GoCheck, GoClear, procVars, storeVars, phoneVars, ProcOK,
        StoreOK, OneSave, ConnOK, PhoneOK

\* AddDevice: the map changes, and its save begins.
LEMMA AddStep ==
  ASSUME IInv, NEW r \in Reqs,
         GoAddDevice(r) \/ (backend = "node" /\ NodePair(r))
  PROVE  IInv'
  <1> DEFINE map == [devices EXCEPT ![req[r].dev] = r]
  <1>0. Nothing \in DeviceMaps
    BY DEF Nothing, DeviceMaps, Tokens
  <1>1. map \in DeviceMaps
    BY DEF IInv, StoreOK, DeviceMaps, Tokens
  <1>2. \A b \in BOOLEAN :
          [of |-> "pair", id |-> r, map |-> map, open |-> b] \in Saves
    BY <1>1 DEF Saves
  <1>3. StoreOK' /\ OneSave'
    <2>1. CASE GoAddDevice(r)
      BY <1>0, <1>1, <1>2, <2>1
      DEF IInv, GoAddDevice, StoreOK, OneSave, DiskType
    <2>2. CASE backend = "node" /\ NodePair(r)
      BY <1>1, <1>2, <2>2
      DEF IInv, NodePair, AddDevice, Save, StoreOK, OneSave, procVars
    <2> QED
      BY <2>1, <2>2
  <1>4. req[r].code # NONE
    BY HasCode DEF GoAddDevice, NodePair, Busy
  <1>5. req' = [req EXCEPT ![r].at = "saving"] /\ UNCHANGED codeVars
    BY DEF GoAddDevice, NodePair
  <1>6. ReqOK' /\ ReqCodes'
    BY <1>4, <1>5, MoveOn DEF IInv, Busy, codeVars
  <1> QED
    BY <1>3, <1>5, <1>6
    DEF IInv, GoAddDevice, NodePair, procVars, codeVars, phoneVars, ProcOK,
        CodeOK, ActiveHasTimer, ConnOK, PhoneOK

\* The phone is answered; its connection, if there is one, is entered.
LEMMA AnswerStep ==
  ASSUME IInv, NEW r \in Reqs, GoAnswer(r) \/ NodePaired(r)
  PROVE  IInv'
  <1>1. ConnOK'
    <2>1. CASE req[r].conn = NONE
      BY <2>1 DEF IInv, GoAnswer, NodePaired, EnterPaired, ConnOK
    <2>2. CASE req[r].conn # NONE
      <3>1. req[r].conn \in Conns
        BY <2>2 DEF IInv, ReqOK, ReqType
      <3> QED
        BY <2>2, <3>1, EnterType DEF IInv, GoAnswer, NodePaired, EnterPaired
    <2> QED
      BY <2>1, <2>2
  <1>2. req[r].code # NONE
    BY HasCode DEF GoAnswer, NodePaired, Busy
  <1>3. /\ Answered(r) /\ issued' = issued /\ timers' = timers
        /\ req[r].at \in Busy /\ code' \in {code, NONE}
        /\ UNCHANGED <<procVars, storeVars>>
    BY DEF GoAnswer, NodePaired, Busy, codeVars
  <1>4. code' # req[r].code
    BY <1>2 DEF IInv, ReqCodes, GoAnswer, NodePaired, codeVars
  <1>5. ReqOK' /\ PhoneOK' /\ ReqCodes'
    BY <1>3, <1>4, AnsweredStep, Bounds DEF IInv
  <1>6. CodeOK'
    BY <1>3 DEF IInv, CodeOK, ActiveHasTimer
  <1> QED
    BY <1>1, <1>3, <1>5, <1>6
    DEF IInv, procVars, storeVars, ProcOK, StoreOK, OneSave
-----------------------------------------------------------------------------
(* The process.                                                            *)

\* The end of the process.
LEMMA HaltStep ==
  ASSUME IInv, Halt
  PROVE  IInv'
  <1>0. Nothing \in DeviceMaps /\ Nothing \in [Devices -> Conns \cup {NONE}]
        /\ Nothing \in [Devices -> Tokens]
    BY DEF Nothing, DeviceMaps, Tokens
  <1>1. ProcOK'
    BY Bounds DEF IInv, Halt, Fault, ProcOK
  <1>2. CodeOK' /\ issued' = issued /\ code' = NONE
    BY DEF IInv, Halt, CodeOK, ActiveHasTimer
  <1>3. StoreOK' /\ OneSave'
    BY <1>0 DEF IInv, Halt, StoreOK, OneSave
  <1>4. Gone \in ConnType
    BY DEF Gone, Link, ConnType, Tokens
  <1>5. ConnOK'
    BY <1>0, <1>4 DEF IInv, Halt, ConnOK
  <1>6. PhoneOK'
    BY <1>0 DEF IInv, Halt, PhoneOK
  <1>7. ASSUME NEW r \in Reqs
        PROVE  /\ Over(r, "dead") \in ReqType /\ Over(r, "dead").code = NONE
               /\ Over(r, "dead").at = "dead"
    BY OverType DEF IInv
  <1>8. ReqOK'
    BY <1>7 DEF IInv, Halt, ReqOK
  <1>9. ReqCodes'
    <2> SUFFICES ASSUME NEW r \in Reqs
                 PROVE  /\ req'[r].code # NONE => req'[r].code \in 1 .. issued
                        /\ req'[r].at \in Busy \cup {"told", "lost"} =>
                             req'[r].code # NONE
                        /\ req'[r].at \in {"cleared", "told", "lost"} =>
                             NONE # req'[r].code
      BY <1>2 DEF ReqCodes
    <2>1. req'[r] = Over(r, "dead") \/ req'[r] = req[r]
      BY DEF Halt
    <2> QED
      BY <1>7, <2>1 DEF IInv, ReqCodes, Busy
  <1> QED
    BY <1>1, <1>2, <1>3, <1>5, <1>6, <1>8, <1>9 DEF IInv

\* Stop, and the starts of both servers.
LEMMA StartStopStep ==
  ASSUME IInv, GoStop \/ GoStart \/ NodeStart
  PROVE  IInv'
  <1>1. CASE GoStop
    <2>1. ProcOK'
      BY <1>1, Bounds DEF IInv, GoStop, Fault, ProcOK
    <2>2. ConnOK'
      BY <1>1 DEF IInv, GoStop, ConnOK, ConnType
    <2>3. PhoneOK'
      BY <1>1, UnaskedType DEF IInv, GoStop, PhoneOK
    <2> QED
      BY <1>1, <2>1, <2>2, <2>3
      DEF IInv, GoStop, codeVars, storeVars, CodeOK, ActiveHasTimer, StoreOK,
          OneSave, ReqOK, ReqCodes
  <1>2. CASE GoStart \/ NodeStart
    <2>1. StoreOK'
      BY <1>2 DEF IInv, GoStart, NodeStart, StoreOK, DiskType
    <2>2. ProcOK'
      BY <1>2 DEF IInv, GoStart, NodeStart, ProcOK
    <2> QED
      BY <1>2, <2>1, <2>2
      DEF IInv, GoStart, NodeStart, codeVars, phoneVars, CodeOK,
          ActiveHasTimer, OneSave, ReqOK, ConnOK, PhoneOK, ReqCodes
  <1> QED
    BY <1>1, <1>2
-----------------------------------------------------------------------------
(* The theorems.                                                           *)

\* Every step keeps the invariant.
LEMMA InvHolds == IInv /\ [Next]_vars => IInv'
  <1> SUFFICES ASSUME IInv, [Next]_vars PROVE IInv'
    OBVIOUS
  <1>1. CASE UNCHANGED vars
    BY <1>1
    DEF IInv, vars, procVars, codeVars, storeVars, phoneVars, ProcOK, CodeOK,
        ActiveHasTimer, StoreOK, OneSave, ReqOK, ConnOK, PhoneOK, ReqCodes
  <1>2. CASE Phones
    BY <1>2, PhonesStep
  <1>3. CASE backend = "go" /\ GoServer
    BY <1>3, RefuseStep, GoCodeStep, AddStep, AnswerStep, AuthStep,
       TouchStep, LeaveStep, SaveStep
    DEF GoServer, GoLeave
  <1>4. CASE backend = "node" /\ NodeServer
    BY <1>4, RefuseStep, AddStep, AnswerStep, AuthStep, LeaveStep, SaveStep
    DEF NodeServer
  <1>5. CASE Pair \/ Expiry
    BY <1>5, CodeStep
  <1>6. CASE Halt
    BY <1>6, HaltStep
  <1>7. CASE GoStop \/ GoStart \/ NodeStart
    BY <1>7, StartStopStep
  <1>8. ASSUME NEW c \in Conns, Drop(c) PROVE IInv'
    BY <1>8, DropStep
  <1> QED
    BY <1>1, <1>2, <1>3, <1>4, <1>5, <1>6, <1>7, <1>8
    DEF Next, Server, Start

\* The invariant holds in every state.
LEMMA SpecInv == Spec => []IInv
  BY InvStarts, InvHolds, PTL DEF Spec

\* Every variable keeps its type, and the Go server never has two saves
\* under way.
THEOREM TypeCorrect == Spec => []TypeOK
  BY SpecInv, InvTypes, PTL

\* A code that is accepted has its own timer, on both servers.
THEOREM CodeHasTimer == Spec => []ActiveHasTimer
  <1>1. IInv => ActiveHasTimer
    BY DEF IInv, CodeOK
  <1> QED
    BY <1>1, SpecInv, PTL

\* A request is accepted only while its code is the active one.
LEMMA AcceptsValid ==
  ASSUME IInv, Next, NEW q \in Reqs, Accepts(q)
  PROVE  Valid(q)
  <1>0. /\ \A r \in Reqs : req[r] \in ReqType
        /\ req[q].at = "sent" /\ req'[q].at \in Busy /\ "sent" \notin Busy
    BY DEF IInv, ReqOK, Accepts, Busy
  <1>1. ASSUME NEW r \in Reqs, NEW x, req' = [req EXCEPT ![r] = x], r # q
        PROVE  FALSE
    BY <1>0, <1>1 DEF IInv, ReqOK
  <1>2. ~Phones
    <2>1. ASSUME NEW d \in Devices, NEW k \in Codes,
                 NEW c \in Conns \cup {NONE}, Ask(d, k, c)
          PROVE  FALSE
      <3> DEFINE idle == {r \in Reqs : req[r].at = "idle"}
      <3>1. idle \in SUBSET Nat /\ idle # {}
        BY <2>1, Bounds DEF Ask, Reqs
      <3>2. Fresh(idle) \in idle
        BY <3>1, FreshIn
      <3> QED
        BY <1>0, <1>1, <2>1, <3>2 DEF Ask
    <2>2. ASSUME NEW d \in Devices, NEW k \in Codes, PhoneAsksOnSocket(d, k)
          PROVE  FALSE
      <3>1. Unused \in SUBSET Nat /\ Unused # {} /\ Unused \subseteq Conns
        BY <2>2, Bounds DEF PhoneAsksOnSocket, Unused, Conns
      <3>2. Fresh(Unused) \in Conns
        BY <3>1, FreshIn
      <3> QED
        BY <2>1, <2>2, <3>2 DEF PhoneAsksOnSocket
    <2> QED
      BY <1>0, <2>1, <2>2 DEF Phones, PhoneAsks, PhoneGivesUp, PhoneConnects
  <1>3. ~Halt
    <2>1. Over(q, "dead").at = "dead"
      BY OverType DEF IInv
    <2>2. Halt => req'[q] = Over(q, "dead")
      BY <1>0 DEF Halt
    <2> QED
      BY <1>0, <2>1, <2>2 DEF Busy
  <1>4. \A r \in Reqs : ~Refuse(r)
    <2>1. ASSUME NEW r \in Reqs, Refuse(r) PROVE FALSE
      <3>1. r = q /\ req'[r] = Over(r, "refused")
        BY <1>1, <2>1 DEF Refuse, IInv, ReqOK
      <3> QED
        BY <1>0, <3>1, OverType DEF IInv, Busy
    <2> QED
      BY <2>1
  <1>5. ASSUME NEW r \in Reqs,
               GoAddDevice(r) \/ GoClear(r) \/ GoAnswer(r) \/ NodePaired(r)
        PROVE  FALSE
    <2>1. req[r].at # "sent"
      BY <1>5 DEF GoAddDevice, GoClear, GoAnswer, NodePaired
    <2>2. \E x : req' = [req EXCEPT ![r] = x]
      BY <1>5 DEF GoAddDevice, GoClear, GoAnswer, NodePaired, Answered
    <2> QED
      BY <1>0, <1>1, <2>1, <2>2
  <1>6. ASSUME NEW r \in Reqs, GoCheck(r) \/ NodePair(r)
        PROVE  Valid(q)
    <2>1. Valid(r) /\ \E x : req' = [req EXCEPT ![r] = x]
      BY <1>6 DEF GoCheck, NodePair
    <2> QED
      BY <1>1, <2>1
  <1>7. CASE req' = req
    BY <1>0, <1>7
  <1>8. CASE Server
    <2>1. \/ req' = req
          \/ \E r \in Reqs : \/ Refuse(r) \/ GoCheck(r) \/ NodePair(r)
                             \/ GoAddDevice(r) \/ GoClear(r) \/ GoAnswer(r)
                             \/ NodePaired(r)
      BY <1>8
      DEF Server, GoServer, NodeServer, GoAuth, GoTouch, GoLeave, Leave,
          RefuseAuth, Write, Open, NodeAuth
    <2> QED
      BY <1>4, <1>5, <1>6, <1>7, <2>1
  <1>9. CASE \/ Expiry \/ Pair \/ GoStop \/ Start \/ \E c \in Conns : Drop(c)
    BY <1>7, <1>9
    DEF Expiry, GoExpire, NodeExpire, Pair, StartPairing, GoStop, Start,
        GoStart, NodeStart, Drop, phoneVars
  <1> QED
    BY <1>2, <1>3, <1>8, <1>9 DEF Next

\* A code that a phone was told it is paired by lets no further request in,
\* on either server, for any number of phones, codes and requests under way;
\* those the server had accepted before are answered as well.
THEOREM ToldCodeIsOver == Spec => ToldEndsCode
  <1>1. IInv /\ [Next]_vars =>
          [\A q, r \in Reqs : Accepts(q) /\ req[r].at \in {"told", "lost"} =>
                                req[q].code # req[r].code]_vars
    <2> SUFFICES ASSUME IInv, Next, NEW q \in Reqs, NEW r \in Reqs,
                        Accepts(q), req[r].at \in {"told", "lost"}
                 PROVE  req[q].code # req[r].code
      OBVIOUS
    <2>1. code = req[q].code
      BY AcceptsValid DEF Valid
    <2>2. code # req[r].code
      BY DEF IInv, ReqCodes
    <2> QED
      BY <2>1, <2>2
  <1> QED
    BY <1>1, SpecInv, PTL DEF Spec, ToldEndsCode

\* On the Go server a code ends by its own timer, by a pairing, or with the
\* process.
THEOREM GoCodeEnds == Spec => GoCodeEndsForCause
  <1>1. IInv /\ [Next]_vars => [backend = "go" => EndsForCause]_vars
    <2> SUFFICES ASSUME IInv, Next, backend = "go", code # NONE,
                        code' = NONE, proc' # "off"
                 PROVE  \/ code \notin timers'
                        \/ \E r \in Reqs : /\ req[r].at = "saving"
                                           /\ req'[r].at # "saving"
      BY DEF EndsForCause
    <2>1. ~Halt
      BY DEF Halt
    <2>2. ASSUME NEW r \in Reqs, GoClear(r)
          PROVE  req[r].at = "saving" /\ req'[r].at # "saving"
      BY <2>2 DEF GoClear, IInv, ReqOK, ReqType
    <2>3. ASSUME NEW k \in timers, GoExpire(k)
          PROVE  code \notin timers'
      BY <2>3 DEF GoExpire
    <2>4. ~Pair
      BY Bounds DEF Pair, StartPairing, IInv, CodeOK
    <2>5. CASE GoServer
      BY <2>2, <2>5
      DEF GoServer, Refuse, GoCheck, GoAddDevice, GoAnswer, GoAuth, GoTouch,
          GoLeave, Leave, RefuseAuth, Write, codeVars
    <2>6. ~Phones
      BY DEF Phones, PhoneAsks, PhoneAsksOnSocket, Ask, PhoneGivesUp,
             PhoneConnects, codeVars
    <2>7. ~GoStop /\ ~Start /\ \A c \in Conns : ~Drop(c)
      BY DEF GoStop, Start, GoStart, NodeStart, Drop, codeVars
    <2> QED
      BY <2>1, <2>3, <2>4, <2>5, <2>6, <2>7 DEF Next, Server, Expiry
  <1> QED
    BY <1>1, SpecInv, PTL DEF Spec, GoCodeEndsForCause
-----------------------------------------------------------------------------
(* Connections, and the clients map.                                       *)

\* A connection that can be read is a phone's.
LiveDev == \A c \in Conns : Readable(c) => conn[c].dev \in Devices

\* The connection a request came over is its phone's; on the Go server it
\* stays while the request is worked on.
ReqConn(r) ==
  /\ req[r].at \in Busy \cup {"sent"} => req[r].dev \in Devices
  /\ req[r].conn # NONE =>
       /\ conn[req[r].conn].link # "unused"
       /\ Readable(req[r].conn) => conn[req[r].conn].dev = req[r].dev
       /\ backend = "go" /\ req[r].at \in Busy => Readable(req[r].conn)

\* An entry can be read, or was made for a request that outlived it (Node).
EntryInv ==
  \A d \in Devices : clients[d] # NONE =>
    \/ Readable(clients[d])
    \/ /\ backend = "node"
       /\ \E r \in Reqs : /\ req[r].conn = clients[d]
                          /\ req[r].at \in {"told", "lost"}

ConnInv == /\ LiveDev /\ EntryInv /\ ReplacedIsClosed
           /\ \A r \in Reqs : ReqConn(r)

\* What a step may do to request r: move it on, or make it.
ReqMoves(r) ==
  /\ req'[r].conn \in {req[r].conn, NONE} /\ req'[r].dev = req[r].dev
  /\ req'[r].at \in Busy \cup {"sent"} => req[r].at \in Busy \cup {"sent"}
  /\ req'[r].at \in Busy /\ req[r].at \notin Busy =>
       (req[r].conn # NONE => Readable(req[r].conn))
  /\ req[r].at \in {"told", "lost"} => req'[r] = req[r]
ReqMade(r) ==
  /\ req[r].at = "idle" /\ req'[r].at = "sent" /\ req'[r].dev \in Devices
  /\ req'[r].conn # NONE => /\ conn'[req'[r].conn].link = "open"
                            /\ conn'[req'[r].conn].dev = req'[r].dev
ReqSteps == \A r \in Reqs : ReqMoves(r) \/ ReqMade(r)

\* What most steps do to connection c: at most, they break it.
LinkKept(c) ==
  /\ conn'[c].dev = conn[c].dev
  /\ \/ conn'[c].link = conn[c].link
     \/ conn[c].link = "open" /\ conn'[c].link = "closing"
LinksKept == \A c \in Conns : LinkKept(c)

\* Nothing is entered.
NoneEntered ==
  /\ clients' = clients
  /\ \A c \in Conns : conn'[c].auth \in {"entered", "in"} =>
                        conn[c].auth \in {"entered", "in"}

\* The first state.
LEMMA ConnStarts == Init => ConnInv
  BY DEF Init, ConnInv, LiveDev, EntryInv, ReplacedIsClosed, ReqConn,
         Readable, Link, Nothing, Busy

\* Requests keep their connections where links are kept.
LEMMA ReqKeeps ==
  ASSUME ReqOK, ReqOK', LinksKept, ReqSteps, backend' = backend,
         \A r \in Reqs : ReqConn(r)
  PROVE  \A r \in Reqs : ReqConn(r)'
  <1> SUFFICES ASSUME NEW r \in Reqs PROVE ReqConn(r)'
    OBVIOUS
  <1>1. req[r].conn \in Conns \cup {NONE} /\ req'[r].conn \in Conns \cup {NONE}
    BY DEF ReqOK, ReqType
  <1>2. CASE ReqMoves(r)
    BY <1>1, <1>2
    DEF ReqConn, ReqMoves, LinksKept, LinkKept, Readable, Busy
  <1>3. CASE ReqMade(r)
    BY <1>1, <1>3 DEF ReqConn, ReqMade, Readable, Busy
  <1> QED
    BY <1>2, <1>3 DEF ReqSteps

\* A step that enters nothing, and at most breaks connections.
LEMMA ConnKeeps ==
  ASSUME ReqOK, ReqOK', ConnOK, ConnInv, LinksKept, ReqSteps, NoneEntered,
         backend' = backend
  PROVE  ConnInv'
  <1>1. \A r \in Reqs : ReqConn(r)'
    BY ReqKeeps DEF ConnInv
  <1>2. LiveDev'
    BY DEF ConnInv, LiveDev, LinksKept, LinkKept, Readable
  <1>3. EntryInv'
    <2> SUFFICES ASSUME NEW d \in Devices, clients[d] # NONE
                 PROVE  \/ conn'[clients[d]].link \in {"open", "closing"}
                        \/ /\ backend = "node"
                           /\ \E r \in Reqs :
                                /\ req'[r].conn = clients[d]
                                /\ req'[r].at \in {"told", "lost"}
      BY DEF EntryInv, NoneEntered, Readable
    <2>1. clients[d] \in Conns /\ clients'[d] = clients[d]
      BY DEF ConnOK, NoneEntered
    <2>2. CASE Readable(clients[d])
      BY <2>1, <2>2 DEF LinksKept, LinkKept, Readable
    <2>3. CASE ~Readable(clients[d])
      <3>1. PICK r \in Reqs : /\ req[r].conn = clients[d]
                              /\ req[r].at \in {"told", "lost"}
        BY <2>3 DEF ConnInv, EntryInv
      <3>2. req'[r] = req[r]
        BY <3>1 DEF ReqSteps, ReqMoves, ReqMade
      <3>3. backend = "node"
        BY <2>3 DEF ConnInv, EntryInv
      <3> QED
        BY <3>1, <3>2, <3>3
    <2> QED
      BY <2>2, <2>3
  <1>4. ReplacedIsClosed'
    BY DEF ConnInv, ReplacedIsClosed, LinksKept, LinkKept, NoneEntered
  <1> QED
    BY <1>1, <1>2, <1>3, <1>4 DEF ConnInv

\* A connection is entered for its device: the one it replaces is closed.
LEMMA ConnEnters ==
  ASSUME ReqOK, ReqOK', ConnOK, ConnInv, ReqSteps, backend' = backend,
         NEW c \in Conns, NEW d \in Devices, NEW auth \in {"entered", "in"},
         Enter(c, d, auth), Readable(c) => conn[c].dev = d,
         \/ Readable(c)
         \/ /\ backend = "node"
            /\ \E r \in Reqs : /\ req'[r].conn = c
                               /\ req'[r].at \in {"told", "lost"}
  PROVE  ConnInv'
  <1>1. ASSUME NEW x \in Conns
        PROVE  /\ LinkKept(x)
               /\ x # c /\ x = clients[d] => conn'[x].link # "open"
               /\ x # c => conn'[x].auth = conn[x].auth
    BY DEF Enter, LinkKept, ConnOK, ConnType
  <1>2. \A r \in Reqs : ReqConn(r)'
    BY <1>1, ReqKeeps DEF ConnInv, LinksKept
  <1>3. LiveDev'
    BY <1>1 DEF ConnInv, LiveDev, LinkKept, Readable
  <1>4. \A e \in Devices : clients'[e] = IF e = d THEN c ELSE clients[e]
    BY DEF Enter, ConnOK
  <1>5. EntryInv'
    <2> SUFFICES ASSUME NEW e \in Devices, clients'[e] # NONE
                 PROVE  \/ conn'[clients'[e]].link \in {"open", "closing"}
                        \/ /\ backend = "node"
                           /\ \E r \in Reqs :
                                /\ req'[r].conn = clients'[e]
                                /\ req'[r].at \in {"told", "lost"}
      BY DEF EntryInv, Readable
    <2>1. CASE e = d
      BY <1>1, <1>4, <2>1 DEF LinkKept, Readable
    <2>2. CASE e # d /\ Readable(clients[e])
      <3>1. clients[e] \in Conns
        BY <1>4, <2>2 DEF ConnOK
      <3> QED
        BY <1>1, <1>4, <2>2, <3>1 DEF LinkKept, Readable
    <2>3. CASE e # d /\ ~Readable(clients[e])
      <3>1. PICK r \in Reqs : /\ req[r].conn = clients[e]
                              /\ req[r].at \in {"told", "lost"}
        BY <1>4, <2>3 DEF ConnInv, EntryInv
      <3>2. req'[r] = req[r]
        BY <3>1 DEF ReqSteps, ReqMoves, ReqMade
      <3>3. backend = "node"
        BY <1>4, <2>3 DEF ConnInv, EntryInv
      <3> QED
        BY <1>4, <2>3, <3>1, <3>2, <3>3
    <2> QED
      BY <2>1, <2>2, <2>3
  <1>6. ReplacedIsClosed'
    <2> SUFFICES ASSUME NEW x \in Conns, conn'[x].link = "open",
                        conn'[x].auth \in {"entered", "in"}
                 PROVE  clients'[conn'[x].dev] = x
      BY DEF ReplacedIsClosed
    <2>1. conn'[x].dev = conn[x].dev /\ conn[x].link = "open"
      BY <1>1 DEF LinkKept
    <2>2. conn[x].dev \in Devices
      BY <2>1 DEF ConnInv, LiveDev, Readable
    <2>3. CASE x = c
      BY <1>4, <2>1, <2>2, <2>3 DEF Readable
    <2>4. CASE x # c
      BY <1>1, <1>4, <2>1, <2>2, <2>4 DEF ConnInv, ReplacedIsClosed
    <2> QED
      BY <2>3, <2>4
  <1> QED
    BY <1>2, <1>3, <1>5, <1>6 DEF ConnInv

\* The phone opens a socket, having broken its older one.
LEMMA ConnOpens ==
  ASSUME ReqOK, ReqOK', ConnOK, ConnInv, backend' = backend,
         NEW c \in Unused, NEW d \in Devices, NEW t,
         conn' = Opened(c, d, t), clients' = clients,
         \A r \in Reqs : req'[r] = req[r] \/ ReqMade(r)
  PROVE  ConnInv'
  <1>1. /\ c \in Conns /\ conn[c].link = "unused"
        /\ conn'[c] = Link("open", d, t)
    BY DEF Unused, Opened
  <1>2. ASSUME NEW x \in Conns, x # c
        PROVE  LinkKept(x) /\ conn'[x].auth = conn[x].auth
    <2>1. conn'[x] \in {conn[x], [conn[x] EXCEPT !.link = "closing"]}
          /\ (conn'[x] # conn[x] => conn[x].link = "open")
      BY <1>2 DEF Opened
    <2> QED
      BY <2>1 DEF LinkKept, ConnOK, ConnType
  <1>3. \A r \in Reqs : ReqConn(r)'
    <2> SUFFICES ASSUME NEW r \in Reqs PROVE ReqConn(r)'
      OBVIOUS
    <2>1. req[r].conn \in Conns \cup {NONE}
          /\ req'[r].conn \in Conns \cup {NONE}
      BY DEF ReqOK, ReqType
    <2>2. CASE ReqMade(r)
      BY <2>1, <2>2 DEF ReqConn, ReqMade, Readable, Busy
    <2>3. CASE req'[r] = req[r]
      <3>1. ReqConn(r)
        BY DEF ConnInv
      <3>2. req[r].conn # NONE => req[r].conn # c
        BY <1>1, <3>1 DEF ReqConn
      <3> QED
        BY <1>2, <2>1, <2>3, <3>1, <3>2 DEF ReqConn, LinkKept, Readable
    <2> QED
      BY <2>2, <2>3
  <1>4. LiveDev'
    BY <1>1, <1>2 DEF ConnInv, LiveDev, LinkKept, Readable, Link
  <1>5. EntryInv'
    <2> SUFFICES ASSUME NEW e \in Devices, clients[e] # NONE
                 PROVE  \/ conn'[clients[e]].link \in {"open", "closing"}
                        \/ /\ backend = "node"
                           /\ \E r \in Reqs :
                                /\ req'[r].conn = clients[e]
                                /\ req'[r].at \in {"told", "lost"}
      BY DEF EntryInv, Readable
    <2>1. clients[e] \in Conns
      BY DEF ConnOK
    <2>2. CASE Readable(clients[e])
      BY <1>1, <1>2, <2>1, <2>2 DEF Readable, LinkKept
    <2>3. CASE ~Readable(clients[e])
      <3>1. PICK r \in Reqs : /\ req[r].conn = clients[e]
                              /\ req[r].at \in {"told", "lost"}
        BY <2>3 DEF ConnInv, EntryInv
      <3>2. req'[r] = req[r] /\ backend = "node"
        BY <2>3, <3>1 DEF ReqMade, ConnInv, EntryInv
      <3> QED
        BY <3>1, <3>2
    <2> QED
      BY <2>2, <2>3
  <1>6. ReplacedIsClosed'
    BY <1>1, <1>2 DEF ConnInv, ReplacedIsClosed, LinkKept, Link
  <1> QED
    BY <1>3, <1>4, <1>5, <1>6 DEF ConnInv

\* A connection that has ended leaves the map; on the Go server no request
\* on it is being worked on.
LEMMA ConnLeaves ==
  ASSUME ReqOK, ConnOK, ConnInv, NEW c \in Conns, Leave(c),
         backend = "go" => ~Handling(c)
  PROVE  ConnInv'
  <1>0. Gone.link = "gone" /\ Gone.auth = "new"
    BY DEF Gone, Link
  <1>1. /\ conn' = [conn EXCEPT ![c] = Gone]
        /\ clients' = [d \in Devices |-> IF clients[d] = c THEN NONE
                                         ELSE clients[d]]
        /\ req' = req /\ backend' = backend
    BY DEF Leave, procVars
  <1>2. \A r \in Reqs : ReqConn(r)'
    <2> SUFFICES ASSUME NEW r \in Reqs PROVE ReqConn(r)'
      OBVIOUS
    <2>1. req[r].conn \in Conns \cup {NONE} /\ ReqConn(r)
      BY DEF ReqOK, ReqType, ConnInv
    <2>2. CASE req[r].conn = c
      BY <1>0, <1>1, <2>1, <2>2
      DEF ReqConn, Readable, Handling, ConnOK
    <2>3. CASE req[r].conn # c
      BY <1>1, <2>1, <2>3 DEF ReqConn, Readable, ConnOK
    <2> QED
      BY <2>2, <2>3
  <1>3. LiveDev'
    BY <1>0, <1>1 DEF ConnInv, LiveDev, Readable, ConnOK
  <1>4. EntryInv'
    BY <1>0, <1>1 DEF ConnInv, EntryInv, Readable, ConnOK
  <1>5. ReplacedIsClosed'
    <2> SUFFICES ASSUME NEW x \in Conns, conn'[x].link = "open",
                        conn'[x].auth \in {"entered", "in"}
                 PROVE  clients'[conn'[x].dev] = x
      BY DEF ReplacedIsClosed
    <2>1. x # c /\ conn'[x] = conn[x]
      BY <1>0, <1>1 DEF ConnOK
    <2>2. conn[x].dev \in Devices
      BY <2>1 DEF ConnInv, LiveDev, Readable
    <2> QED
      BY <1>1, <2>1, <2>2 DEF ConnInv, ReplacedIsClosed
  <1> QED
    BY <1>2, <1>3, <1>4, <1>5 DEF ConnInv

\* The process ends, and every connection with it.
LEMMA ConnHalts ==
  ASSUME ReqOK, ConnOK, ConnInv, Halt
  PROVE  ConnInv'
  <1>0. Gone.link = "gone"
    BY DEF Gone, Link
  <1>1. \A c \in Conns : /\ conn'[c].link \notin {"open", "closing"}
                         /\ conn[c].link # "unused" =>
                              conn'[c].link # "unused"
    BY <1>0 DEF Halt, ConnOK, ConnType
  <1>2. ASSUME NEW r \in Reqs PROVE ReqConn(r)'
    <2>1. /\ req[r].conn \in Conns \cup {NONE} /\ ReqConn(r)
          /\ req[r] \in ReqType
      BY DEF ReqOK, ReqType, ConnInv
    <2>2. /\ req'[r].at \notin Busy \cup {"sent"}
          /\ req'[r].conn \in {req[r].conn, NONE}
      BY <2>1 DEF Halt, Over, Busy, ReqType
    <2> QED
      BY <1>1, <2>1, <2>2 DEF ReqConn, Readable, Busy
  <1>3. LiveDev' /\ ReplacedIsClosed'
    BY <1>1 DEF LiveDev, ReplacedIsClosed, Readable
  <1>4. EntryInv'
    BY DEF Halt, EntryInv, Nothing
  <1> QED
    BY <1>2, <1>3, <1>4 DEF ConnInv

\* The phones' steps.
LEMMA ConnPhones ==
  ASSUME IInv, IInv', ConnInv, Phones
  PROVE  ConnInv'
  <1>0. ReqOK /\ ReqOK' /\ ConnOK
    BY DEF IInv
  <1>1. ASSUME NEW d \in Devices, NEW k \in Codes,
               NEW c \in Conns \cup {NONE}, Ask(d, k, c),
               c # NONE => conn'[c].link = "open" /\ conn'[c].dev = d
        PROVE  \A r \in Reqs : req'[r] = req[r] \/ ReqMade(r)
    <2> DEFINE idle == {r \in Reqs : req[r].at = "idle"}
               q == [at |-> "sent", dev |-> d, code |-> k, conn |-> c]
    <2>1. Fresh(idle) \in idle
      <3>1. idle \in SUBSET Nat /\ idle # {}
        BY <1>1, Bounds DEF Ask, Reqs
      <3> QED
        BY <3>1, FreshIn
    <2>2. req' = [req EXCEPT ![Fresh(idle)] = q]
      BY <1>1 DEF Ask
    <2>3. ReqMade(Fresh(idle))
      BY <1>0, <1>1, <2>1, <2>2 DEF ReqMade, ReqOK
    <2> QED
      BY <1>0, <2>2, <2>3 DEF ReqOK
  <1>2. ASSUME NEW d \in Devices, NEW k \in Codes, PhoneAsks(d, k)
        PROVE  ConnInv'
    <2>1. Ask(d, k, NONE) /\ UNCHANGED <<backend, conn, clients>>
      BY <1>2 DEF PhoneAsks, Ask, procVars
    <2>2. \A r \in Reqs : req'[r] = req[r] \/ ReqMade(r)
      BY <1>1, <2>1
    <2>3. LinksKept /\ ReqSteps /\ NoneEntered
      BY <2>1, <2>2
      DEF LinksKept, LinkKept, ReqSteps, ReqMoves, NoneEntered
    <2> QED
      BY <1>0, <2>1, <2>3, ConnKeeps
  <1>3. ASSUME Unused # {} PROVE Fresh(Unused) \in Unused
    <2>1. Unused \in SUBSET Nat
      BY Bounds DEF Unused, Conns
    <2> QED
      BY <1>3, <2>1, FreshIn
  <1>4. ASSUME NEW d \in Devices, NEW k \in Codes, PhoneAsksOnSocket(d, k)
        PROVE  ConnInv'
    <2>1. /\ Fresh(Unused) \in Unused /\ Fresh(Unused) \in Conns
          /\ Ask(d, k, Fresh(Unused)) /\ UNCHANGED <<backend, clients>>
          /\ conn' = Opened(Fresh(Unused), d, NONE)
      BY <1>3, <1>4 DEF PhoneAsksOnSocket, Ask, procVars, Unused
    <2>2. conn'[Fresh(Unused)] = Link("open", d, NONE)
      BY <2>1 DEF Opened
    <2>3. \A r \in Reqs : req'[r] = req[r] \/ ReqMade(r)
      BY <1>1, <2>1, <2>2 DEF Link
    <2> QED
      BY <1>0, <2>1, <2>3, ConnOpens
  <1>5. ASSUME NEW d \in Devices, PhoneGivesUp(d)
        PROVE  ConnInv'
    <2>1. UNCHANGED <<backend, req, conn, clients>>
      BY <1>5 DEF PhoneGivesUp
    <2>2. LinksKept /\ ReqSteps /\ NoneEntered
      BY <2>1 DEF LinksKept, LinkKept, ReqSteps, ReqMoves, NoneEntered
    <2> QED
      BY <1>0, <2>1, <2>2, ConnKeeps
  <1>6. ASSUME NEW d \in Devices, PhoneConnects(d)
        PROVE  ConnInv'
    <2>1. /\ Fresh(Unused) \in Unused
          /\ UNCHANGED <<backend, req, clients>>
          /\ conn' = Opened(Fresh(Unused), d, tok[d])
      BY <1>3, <1>6 DEF PhoneConnects, procVars
    <2> QED
      BY <1>0, <2>1, ConnOpens
  <1> QED
    BY <1>2, <1>4, <1>5, <1>6 DEF Phones

\* Steps that leave the requests alone, enter nothing, and at most break
\* connections.
LEMMA ConnQuiet ==
  ASSUME IInv, IInv', ConnInv, backend' = backend, req' = req, LinksKept,
         NoneEntered
  PROVE  ConnInv'
  <1>1. ReqSteps
    BY DEF ReqSteps, ReqMoves
  <1> QED
    BY <1>1, ConnKeeps DEF IInv

\* Steps that leave the connections and the map alone.
LEMMA ConnAlone ==
  ASSUME IInv, IInv', ConnInv, ReqSteps,
         UNCHANGED <<backend, conn, clients>>
  PROVE  ConnInv'
  <1>1. LinksKept /\ NoneEntered
    BY DEF LinksKept, LinkKept, NoneEntered
  <1> QED
    BY <1>1, ConnKeeps DEF IInv

\* One request moves on.
LEMMA OneMoves ==
  ASSUME ReqOK, NEW r \in Reqs, NEW q, req' = [req EXCEPT ![r] = q],
         ReqMoves(r)
  PROVE  ReqSteps
  BY DEF ReqOK, ReqSteps, ReqMoves

\* Requests are checked, added, cleared, refused.
LEMMA ConnRequests ==
  ASSUME IInv, IInv', ConnInv, NEW r \in Reqs,
         Refuse(r) \/ GoCheck(r) \/ GoAddDevice(r) \/ GoClear(r) \/ NodePair(r)
  PROVE  ConnInv'
  <1>0. ReqOK /\ req[r] \in ReqType
    BY DEF IInv, ReqOK
  <1>1. UNCHANGED <<backend, conn, clients>>
    BY DEF Refuse, GoCheck, GoAddDevice, GoClear, NodePair, procVars
  <1>2. ReqSteps
    <2>1. CASE Refuse(r)
      <3>1. req' = [req EXCEPT ![r] = Over(r, "refused")]
        BY <2>1 DEF Refuse
      <3>2. ReqMoves(r)
        BY <1>0, <2>1, <3>1
        DEF ReqMoves, ReqOK, ReqType, Over, Busy, Refuse, HasArrived
      <3> QED
        BY <1>0, <3>1, <3>2, OneMoves
    <2>2. ASSUME NEW at \in Busy, req' = [req EXCEPT ![r].at = at],
                 HasArrived(r) \/ req[r].at \in Busy
          PROVE  ReqSteps
      <3>1. req' = [req EXCEPT ![r] = [req[r] EXCEPT !.at = at]]
        BY <2>2
      <3>2. ReqMoves(r)
        BY <1>0, <2>2
        DEF ReqMoves, ReqOK, ReqType, Busy, HasArrived
      <3> QED
        BY <1>0, <3>1, <3>2, OneMoves
    <2> QED
      BY <2>1, <2>2
      DEF GoCheck, GoAddDevice, GoClear, NodePair, Busy
  <1> QED
    BY <1>1, <1>2, ConnAlone

\* handleAuth of either server.
LEMMA ConnAuths ==
  ASSUME IInv, IInv', ConnInv, NEW c \in Conns, GoAuth(c) \/ NodeAuth(c)
  PROVE  ConnInv'
  <1>1. /\ Readable(c) /\ backend' = backend /\ req' = req
        /\ \E auth \in {"entered", "in"} : Enter(c, conn[c].dev, auth)
    BY DEF GoAuth, NodeAuth, AuthWaits, procVars
  <1>2. conn[c].dev \in Devices
    BY <1>1 DEF ConnInv, LiveDev
  <1>3. ReqSteps
    BY <1>1 DEF ReqSteps, ReqMoves
  <1> QED
    BY <1>1, <1>2, <1>3, ConnEnters DEF IInv

\* The phone is answered, and its connection entered.
LEMMA ConnAnswers ==
  ASSUME IInv, IInv', ConnInv, NEW r \in Reqs,
         \/ backend = "go" /\ GoAnswer(r)
         \/ backend = "node" /\ NodePaired(r)
  PROVE  ConnInv'
  <1>0. ReqOK /\ req[r] \in ReqType /\ ReqConn(r)
    BY DEF IInv, ReqOK, ConnInv
  <1>1. /\ EnterPaired(r) /\ Answered(r) /\ backend' = backend
        /\ req[r].at \in Busy
    BY DEF GoAnswer, NodePaired, procVars, Busy
  <1>2. PICK at \in {"told", "lost"} :
          req' = [req EXCEPT ![r] = [req[r] EXCEPT !.at = at]]
    BY <1>1 DEF Answered
  <1>3. ReqMoves(r) /\ req'[r].at = at /\ req'[r].conn = req[r].conn
    BY <1>0, <1>1, <1>2 DEF ReqMoves, ReqOK, ReqType, Busy
  <1>4. ReqSteps
    BY <1>0, <1>2, <1>3, OneMoves
  <1>5. CASE req[r].conn = NONE
    BY <1>1, <1>4, <1>5, ConnAlone DEF EnterPaired
  <1>6. CASE req[r].conn # NONE
    <2>1. /\ req[r].conn \in Conns /\ req[r].dev \in Devices
          /\ Enter(req[r].conn, req[r].dev, "in")
          /\ Readable(req[r].conn) => conn[req[r].conn].dev = req[r].dev
          /\ backend = "go" => Readable(req[r].conn)
      BY <1>0, <1>1, <1>6 DEF ReqConn, ReqType, EnterPaired
    <2>2. backend \in {"go", "node"}
      BY DEF IInv, ProcOK
    <2> QED
      BY <1>1, <1>3, <1>4, <2>1, <2>2, ConnEnters DEF IInv
  <1> QED
    BY <1>5, <1>6

\* Steps of the server that only break connections or change no connection.
LEMMA ConnOthers ==
  ASSUME IInv, IInv', ConnInv,
         \/ \E c \in Conns : RefuseAuth(c) \/ GoTouch(c) \/ Drop(c)
         \/ \E s \in saves : Write(s) \/ Open(s)
         \/ Pair \/ Expiry \/ GoStop \/ Start \/ UNCHANGED vars
  PROVE  ConnInv'
  <1>0. /\ conn \in [Conns -> ConnType]
        /\ \A c \in Conns : conn[c] \in ConnType
    BY DEF IInv, ConnOK
  <1>1. backend' = backend /\ req' = req /\ clients' = clients
    BY DEF RefuseAuth, GoTouch, Drop, Write, Open, Pair, StartPairing, Expiry,
           GoExpire, NodeExpire, GoStop, Start, GoStart, NodeStart, vars,
           procVars
  <1>2. \A c \in Conns : /\ LinkKept(c)
                         /\ conn'[c].auth \in {"entered", "in"} =>
                              conn[c].auth \in {"entered", "in"}
    <2>1. ASSUME NEW c \in Conns, RefuseAuth(c) \/ GoTouch(c) \/ Drop(c),
                 NEW x \in Conns
          PROVE  /\ LinkKept(x)
                 /\ conn'[x].auth \in {"entered", "in"} =>
                      conn[x].auth \in {"entered", "in"}
      <3>1. CASE RefuseAuth(c)
        BY <1>0, <2>1, <3>1 DEF RefuseAuth, LinkKept, ConnType
      <3>2. CASE GoTouch(c)
        BY <1>0, <2>1, <3>2 DEF GoTouch, LinkKept, ConnType
      <3>3. CASE Drop(c)
        BY <1>0, <2>1, <3>3 DEF Drop, LinkKept, ConnType
      <3> QED
        BY <2>1, <3>1, <3>2, <3>3
    <2>2. CASE GoStop
      BY <1>0, <2>2 DEF GoStop, LinkKept, ConnType
    <2>3. CASE \/ \E s \in saves : Write(s) \/ Open(s)
               \/ Pair \/ Expiry \/ Start \/ UNCHANGED vars
      <3>1. conn' = conn
        BY <2>3 DEF Write, Open, Pair, StartPairing, Expiry, GoExpire,
                    NodeExpire, Start, GoStart, NodeStart, vars
      <3> QED
        BY <3>1 DEF LinkKept
    <2> QED
      BY <2>1, <2>2, <2>3
  <1>3. LinksKept /\ NoneEntered
    BY <1>1, <1>2 DEF LinksKept, NoneEntered
  <1> QED
    BY <1>1, <1>3, ConnQuiet

\* Every step keeps what is known of connections and entries.
LEMMA ConnHolds ==
  ASSUME IInv, IInv', ConnInv, [Next]_vars
  PROVE  ConnInv'
  <1>1. CASE backend = "go" /\ GoServer
    <2>1. ASSUME NEW c \in Conns, GoLeave(c) PROVE ConnInv'
      BY <1>1, <2>1, ConnLeaves DEF IInv, GoLeave
    <2> QED
      BY <1>1, <2>1, ConnRequests, ConnAuths, ConnAnswers, ConnOthers
      DEF GoServer
  <1>2. CASE backend = "node" /\ NodeServer
    <2>1. ASSUME NEW c \in Conns, Leave(c) PROVE ConnInv'
      BY <1>2, <2>1, ConnLeaves DEF IInv
    <2> QED
      BY <1>2, <2>1, ConnRequests, ConnAuths, ConnAnswers, ConnOthers
      DEF NodeServer
  <1>3. CASE Phones
    BY <1>3, ConnPhones
  <1>4. CASE Halt
    BY <1>4, ConnHalts DEF IInv
  <1>5. CASE \/ Pair \/ Expiry \/ GoStop \/ Start \/ UNCHANGED vars
             \/ \E c \in Conns : Drop(c)
    BY <1>5, ConnOthers
  <1> QED
    BY <1>1, <1>2, <1>3, <1>4, <1>5 DEF Next, Server

\* What is known of connections and entries holds in every state.
LEMMA SpecConn == Spec => []ConnInv
  <1>1. IInv /\ IInv' /\ ConnInv /\ [Next]_vars => ConnInv'
    BY ConnHolds
  <1> QED
    BY <1>1, ConnStarts, SpecInv, PTL DEF Spec

\* An entry of the clients map is a connection whose close is still to be
\* noticed, or, on Node, one a pairing request outlived.
THEOREM EntriesLive == Spec => []EntryIsLive
  <1>1. ConnInv => EntryIsLive
    BY DEF ConnInv, EntryInv, EntryIsLive
  <1> QED
    BY <1>1, SpecConn, PTL

\* A connection that authenticated and that nobody has closed is the entry
\* of its device.
THEOREM OlderIsClosed == Spec => []ReplacedIsClosed
  <1>1. ConnInv => ReplacedIsClosed
    BY DEF ConnInv
  <1> QED
    BY <1>1, SpecConn, PTL
-----------------------------------------------------------------------------
(* What a phone knows, the map, the saves under way, and the file.         *)

\* Value v of device d's entry is the token it was told last, or one of a
\* request it has heard no answer of.
Knows(d, v) == tok[d] # NONE => v \in {tok[d]} \cup Unheard(d)

\* What a phone waits for: a request of its own.  Once the store has it, the
\* entry is a token the phone has not heard of.
AskOK(d) ==
  asking[d] # NONE =>
    /\ Running
    /\ req[asking[d]].dev = d /\ req[asking[d]].at # "idle"
    /\ req[asking[d]].at \in {"saving", "cleared"} =>
         devices[d] \in Unheard(d)

\* The store has lost nothing so far.
Kept == backend = "go" \/ clean

\* While the process runs: at most one save, of the map as it is, and a file
\* that is the map when no save is under way.
SaveInv ==
  Kept /\ Running =>
    /\ \A s \in saves : /\ s.map = devices
                        /\ s.open => disk.is = "empty"
                        /\ backend = "go" => s.open
    /\ \A s, t \in saves : s = t
    /\ saves = {} => disk.is = "whole" /\ disk.map = devices
    /\ \A d \in Devices : Knows(d, devices[d])

\* While it does not: what the next start will read.
OffInv ==
  ~Running =>
    /\ saves = {}
    /\ Kept /\ disk.is = "whole" =>
         \A d \in Devices : Knows(d, disk.map[d])
    /\ backend = "node" /\ clean => disk.is = "whole"

KnownInv == SaveInv /\ OffInv /\ \A d \in Devices : AskOK(d)

\* The first state.
LEMMA KnownStarts == Init => KnownInv
  BY DEF Init, KnownInv, SaveInv, OffInv, AskOK, Knows, Running, Nothing

\* Requests go on, and none is heard of.
GoesOn ==
  \A r \in Reqs :
    /\ req'[r].dev = req[r].dev
    /\ req[r].at # "idle" => req'[r].at # "idle"
    /\ req[r].at \in Busy \cup {"lost", "dead"} =>
         req'[r].at \in Busy \cup {"lost", "dead"}

\* Phones wait for the same answers or fewer.
LEMMA AskKeeps ==
  ASSUME IInv, NEW d \in Devices, AskOK(d), GoesOn, Running => Running',
         asking'[d] \in {asking[d], NONE}, devices' = devices,
         \A r \in Reqs : req'[r].at \in {"saving", "cleared"} =>
                           req[r].at \in {"saving", "cleared"}
  PROVE  AskOK(d)'
  <1> SUFFICES ASSUME asking'[d] # NONE PROVE AskOK(d)'
    BY DEF AskOK
  <1>1. asking'[d] = asking[d] /\ asking[d] \in Reqs
    BY DEF IInv, PhoneOK, Tokens
  <1>2. devices[d] \in Unheard(d) => devices[d] \in Unheard(d)'
    BY DEF GoesOn, Unheard
  <1> QED
    BY <1>1, <1>2 DEF AskOK, GoesOn

\* Steps that change neither the store nor what a phone knows.
LEMMA KnownRests ==
  ASSUME KnownInv, UNCHANGED <<backend, storeVars, tok>>, GoesOn,
         Running' <=> Running, \A d \in Devices : AskOK(d)'
  PROVE  KnownInv'
  <1>1. SaveInv'
    <2> SUFFICES ASSUME Kept', Running' PROVE SaveInv'
      BY DEF SaveInv
    <2>1. Kept /\ Running
      BY DEF Kept, storeVars
    <2>2. ASSUME NEW d \in Devices PROVE Knows(d, devices[d])'
      <3>1. devices' = devices
        BY DEF storeVars
      <3> QED
        BY <2>1, <3>1 DEF KnownInv, SaveInv, Knows, Unheard, GoesOn
    <2> QED
      BY <2>1, <2>2 DEF KnownInv, SaveInv, storeVars
  <1>2. OffInv'
    <2> SUFFICES ASSUME ~Running' PROVE OffInv'
      BY DEF OffInv
    <2>1. ASSUME Kept, disk.is = "whole", NEW d \in Devices
          PROVE  Knows(d, disk.map[d])'
      <3>1. disk' = disk
        BY DEF storeVars
      <3> QED
        BY <2>1, <3>1 DEF KnownInv, OffInv, Knows, Unheard, GoesOn
    <2> QED
      BY <2>1 DEF KnownInv, OffInv, Kept, storeVars
  <1> QED
    BY <1>1, <1>2 DEF KnownInv

\* ... and change no request.
LEMMA KnownSame ==
  ASSUME IInv, KnownInv, UNCHANGED <<backend, storeVars, tok, req>>,
         Running' <=> Running,
         \A d \in Devices : asking'[d] \in {asking[d], NONE}
  PROVE  KnownInv'
  <1>1. GoesOn
    BY DEF GoesOn
  <1>2. \A d \in Devices : AskOK(d)'
    BY <1>1, AskKeeps DEF KnownInv, storeVars
  <1> QED
    BY <1>1, <1>2, KnownRests

\* A phone asks.
LEMMA KnownAsks ==
  ASSUME IInv, KnownInv, NEW e \in Devices, NEW k \in Codes,
         NEW c \in Conns \cup {NONE}, Ask(e, k, c)
  PROVE  KnownInv'
  <1> DEFINE idle == {r \in Reqs : req[r].at = "idle"}
             q == [at |-> "sent", dev |-> e, code |-> k, conn |-> c]
  <1>0. req \in [Reqs -> ReqType] /\ asking \in [Devices -> Tokens]
    BY DEF IInv, ReqOK, PhoneOK
  <1>1. PICK r \in Reqs : /\ req[r].at = "idle"
                          /\ req' = [req EXCEPT ![r] = q]
                          /\ asking' = [asking EXCEPT ![e] = r]
    <2>1. Fresh(idle) \in idle
      <3>1. idle \in SUBSET Nat /\ idle # {}
        BY Bounds DEF Ask, Reqs
      <3> QED
        BY <3>1, FreshIn
    <2> QED
      BY <2>1 DEF Ask
  <1>2. /\ UNCHANGED <<backend, storeVars, tok>> /\ Running
        /\ Running' <=> Running
    BY DEF Ask, procVars, Running
  <1>3. devices' = devices /\ Running'
    BY <1>2 DEF storeVars
  <1>4. \A x \in Reqs : x # r => req'[x] = req[x]
    BY <1>0, <1>1
  <1>5. \A d \in Devices : Unheard(d) \subseteq Unheard(d)'
    BY <1>1, <1>4 DEF Unheard, Busy
  <1>6. ASSUME NEW d \in Devices PROVE AskOK(d)'
    <2>1. CASE d = e
      BY <1>0, <1>1, <1>3, <2>1 DEF AskOK
    <2>2. CASE d # e /\ asking[d] # NONE
      <3>1. asking'[d] = asking[d] /\ asking[d] \in Reqs
        BY <1>0, <1>1, <2>2 DEF Tokens
      <3>2. asking[d] # r /\ AskOK(d)
        BY <1>1, <2>2 DEF KnownInv, AskOK
      <3> QED
        BY <1>3, <1>4, <1>5, <2>2, <3>1, <3>2 DEF AskOK
    <2>3. CASE d # e /\ asking[d] = NONE
      BY <1>0, <1>1, <2>3 DEF AskOK
    <2> QED
      BY <2>1, <2>2, <2>3
  <1>7. SaveInv'
    <2>1. Kept' => Kept
      BY <1>2 DEF Kept, storeVars
    <2>2. ASSUME Kept, NEW d \in Devices PROVE Knows(d, devices[d])'
      BY <1>2, <1>3, <1>5, <2>2 DEF KnownInv, SaveInv, Knows
    <2> QED
      BY <1>2, <2>1, <2>2 DEF KnownInv, SaveInv, storeVars
  <1>8. OffInv'
    BY <1>3 DEF OffInv
  <1> QED
    BY <1>6, <1>7, <1>8 DEF KnownInv

\* Requests are checked, refused, cleared.
LEMMA KnownRequests ==
  ASSUME IInv, IInv', KnownInv, NEW r \in Reqs,
         Refuse(r) \/ GoCheck(r) \/ GoClear(r)
  PROVE  KnownInv'
  <1>0. req \in [Reqs -> ReqType] /\ asking \in [Devices -> Tokens]
    BY DEF IInv, ReqOK, PhoneOK
  <1>1. /\ UNCHANGED <<backend, storeVars, tok>> /\ devices' = devices
        /\ Running' <=> Running
        /\ \A d \in Devices : asking'[d] \in {asking[d], NONE}
    BY <1>0 DEF Refuse, GoCheck, GoClear, procVars, phoneVars, storeVars,
                Running
  <1>2. /\ \A x \in Reqs : x # r => req'[x] = req[x]
        /\ req'[r].dev = req[r].dev /\ req'[r].at # "idle"
        /\ \/ req[r].at = "sent" /\ req'[r].at \in {"refused", "checked"}
           \/ req[r].at = "saving" /\ req'[r].at = "cleared"
    <2>1. CASE Refuse(r)
      <3>1. /\ req' = [req EXCEPT ![r] = Over(r, "refused")]
            /\ req[r].at = "sent"
        BY <2>1 DEF Refuse, HasArrived
      <3> QED
        BY <1>0, <3>1 DEF Over, ReqType
    <2>2. CASE GoCheck(r) \/ GoClear(r)
      BY <1>0, <2>2 DEF GoCheck, GoClear, HasArrived, ReqType
    <2> QED
      BY <2>1, <2>2
  <1>3. GoesOn
    BY <1>2 DEF GoesOn, Busy
  <1>4. \A x \in Reqs : req'[x].at \in {"saving", "cleared"} =>
                          req[x].at \in {"saving", "cleared"}
    BY <1>2
  <1>5. \A d \in Devices : AskOK(d)'
    BY <1>1, <1>3, <1>4, AskKeeps DEF KnownInv
  <1> QED
    BY <1>1, <1>3, <1>5, KnownRests

\* A phone is answered: what the store has is its token, or one of a request
\* it has heard no answer of.
LEMMA KnownAnswers ==
  ASSUME IInv, KnownInv, Running, NEW r \in Reqs, GoAnswer(r) \/ NodePaired(r)
  PROVE  KnownInv'
  <1> DEFINE e == req[r].dev
  <1>0. /\ req \in [Reqs -> ReqType] /\ asking \in [Devices -> Tokens]
        /\ tok \in [Devices -> Tokens]
    BY DEF IInv, ReqOK, PhoneOK
  <1>1. /\ Answered(r) /\ req[r].at \in {"saving", "cleared"}
        /\ UNCHANGED <<backend, storeVars, devices, clean>>
        /\ Running'
    BY DEF GoAnswer, NodePaired, procVars, storeVars, Running
  <1>2. \A x \in Reqs : x # r => req'[x] = req[x]
    BY <1>0, <1>1 DEF Answered
  <1>3. CASE req' = [req EXCEPT ![r].at = "lost"] /\ UNCHANGED <<asking, tok>>
    <2>1. GoesOn
      BY <1>0, <1>1, <1>2, <1>3 DEF GoesOn, ReqType
    <2>2. \A x \in Reqs : req'[x].at \in {"saving", "cleared"} =>
                            req[x].at \in {"saving", "cleared"}
      BY <1>0, <1>1, <1>2
    <2>3. \A d \in Devices : AskOK(d)'
      BY <1>1, <1>3, <2>1, <2>2, AskKeeps DEF KnownInv
    <2> QED
      BY <1>1, <1>3, <2>1, <2>3, KnownRests
  <1>4. CASE /\ asking[e] = r /\ asking' = [asking EXCEPT ![e] = NONE]
             /\ tok' = [tok EXCEPT ![e] = r]
             /\ req' = [req EXCEPT ![r].at = "told"]
    <2>1. req'[r].at = "told" /\ req'[r].dev = e
      BY <1>0, <1>4 DEF ReqType
    <2>2. \A d : Unheard(d)' = Unheard(d) \ {r}
      BY <1>2, <2>1 DEF Unheard, Busy
    <2>3. \A d : d # e => r \notin Unheard(d)
      BY DEF Unheard
    <2>4. ASSUME NEW d \in Devices PROVE AskOK(d)'
      <3>1. CASE d = e
        BY <1>0, <1>4, <3>1 DEF AskOK
      <3>2. CASE d # e /\ asking[d] # NONE
        <4>1. asking'[d] = asking[d] /\ asking[d] \in Reqs /\ AskOK(d)
          BY <1>0, <1>4, <3>2 DEF Tokens, KnownInv
        <4>2. asking[d] # r
          BY <3>2, <4>1 DEF AskOK
        <4>3. Unheard(d)' = Unheard(d)
          BY <2>2, <2>3, <3>2
        <4>4. req'[asking[d]] = req[asking[d]]
          BY <1>2, <4>1, <4>2
        <4> QED
          BY <1>1, <4>1, <4>3, <4>4 DEF AskOK
      <3>3. CASE d # e /\ asking[d] = NONE
        BY <1>0, <1>4, <3>3 DEF AskOK
      <3> QED
        BY <3>1, <3>2, <3>3
    <2>5. ASSUME Kept, NEW d \in Devices PROVE Knows(d, devices[d])'
      <3>1. Knows(d, devices[d])
        BY <2>5 DEF KnownInv, SaveInv
      <3>2. CASE d = e
        <4>1. devices[d] \in Unheard(d)
          BY <1>0, <1>1, <1>4, <3>2, Bounds
          DEF KnownInv, AskOK, Reqs
        <4>2. tok'[d] = r
          BY <1>0, <1>4, <3>2
        <4> QED
          BY <1>1, <2>2, <4>1, <4>2 DEF Knows
      <3>3. CASE d # e
        <4>1. tok'[d] = tok[d] /\ Unheard(d)' = Unheard(d)
          BY <1>0, <1>4, <2>2, <2>3, <3>3
        <4> QED
          BY <1>1, <3>1, <4>1 DEF Knows
      <3> QED
        BY <3>2, <3>3
    <2>6. SaveInv'
      BY <1>1, <2>5 DEF KnownInv, SaveInv, Kept, storeVars
    <2>7. OffInv'
      BY <1>1 DEF OffInv
    <2> QED
      BY <2>4, <2>6, <2>7 DEF KnownInv
  <1> QED
    BY <1>1, <1>3, <1>4 DEF Answered

\* AddDevice, addDevice: the entry is the request's token, which the phone
\* has yet to hear of.
LEMMA KnownAdds ==
  ASSUME IInv, IInv', KnownInv, Running, NEW r \in Reqs,
         \/ backend = "go" /\ GoAddDevice(r)
         \/ backend = "node" /\ NodePair(r)
  PROVE  KnownInv'
  <1> DEFINE e == req[r].dev
             map == [devices EXCEPT ![e] = r]
  <1>0. /\ req \in [Reqs -> ReqType] /\ asking \in [Devices -> Tokens]
        /\ devices \in [Devices -> Tokens]
    BY DEF IInv, ReqOK, PhoneOK, StoreOK, DeviceMaps
  <1>1. /\ devices' = map /\ req' = [req EXCEPT ![r].at = "saving"]
        /\ UNCHANGED <<backend, asking, tok>> /\ Running'
        /\ req[r].at \in {"sent", "checked"}
    BY DEF GoAddDevice, NodePair, AddDevice, HasArrived, procVars, phoneVars,
           Running
  <1>2. /\ \A x \in Reqs : x # r => req'[x] = req[x]
        /\ req'[r].at = "saving" /\ req'[r].dev = e
    BY <1>0, <1>1 DEF ReqType
  <1>3. \A d : Unheard(d) \subseteq Unheard(d)' /\ r \in Unheard(e)'
    BY <1>1, <1>2 DEF Unheard, Busy
  <1>4. ASSUME NEW d \in Devices
        PROVE  /\ d = e => devices'[d] \in Unheard(d)'
               /\ d # e => devices'[d] = devices[d]
    BY <1>0, <1>1, <1>3
  <1>5. ASSUME NEW d \in Devices PROVE AskOK(d)'
    <2>1. asking'[d] = asking[d] /\ asking[d] \in Reqs \cup {NONE} /\ AskOK(d)
      BY <1>0, <1>1 DEF Tokens, KnownInv
    <2>2. CASE asking[d] # NONE /\ d = e
      BY <1>1, <1>2, <1>4, <2>1, <2>2 DEF AskOK
    <2>3. CASE asking[d] # NONE /\ d # e
      <3>1. asking[d] # r /\ req'[asking[d]] = req[asking[d]]
        BY <1>2, <2>1, <2>3 DEF AskOK
      <3> QED
        BY <1>1, <1>3, <1>4, <2>1, <2>3, <3>1 DEF AskOK
    <2> QED
      BY <2>1, <2>2, <2>3 DEF AskOK
  <1>6. ASSUME Kept, NEW d \in Devices PROVE Knows(d, devices[d])'
    <2>1. Knows(d, devices[d])
      BY <1>6 DEF KnownInv, SaveInv
    <2> QED
      BY <1>1, <1>3, <1>4, <2>1 DEF Knows
  <1>7. SaveInv'
    <2> SUFFICES ASSUME Kept', Running'
                 PROVE  /\ \A s \in saves' : /\ s.map = devices'
                                             /\ s.open => disk'.is = "empty"
                                             /\ backend' = "go" => s.open
                        /\ \A s, t \in saves' : s = t
                        /\ saves' # {}
                        /\ Kept
      BY <1>6 DEF SaveInv
    <2>1. CASE backend = "go" /\ GoAddDevice(r)
      <3>1. /\ saves' = {[of |-> "pair", id |-> r, map |-> devices',
                          open |-> TRUE]}
            /\ disk'.is = "empty"
        BY <1>1, <2>1 DEF GoAddDevice
      <3> QED
        BY <1>1, <2>1, <3>1 DEF Kept
    <2>2. CASE backend = "node" /\ NodePair(r)
      <3>1. /\ saves' = saves \cup {[of |-> "pair", id |-> r,
                                     map |-> devices', open |-> FALSE]}
            /\ clean' = (clean /\ saves = {})
        BY <2>2 DEF NodePair, AddDevice, Save
      <3>2. Kept /\ saves = {}
        BY <1>1, <2>2, <3>1 DEF Kept
      <3> QED
        BY <1>1, <2>2, <3>1, <3>2
    <2> QED
      BY <2>1, <2>2
  <1>8. OffInv'
    BY <1>1 DEF OffInv
  <1> QED
    BY <1>5, <1>7, <1>8 DEF KnownInv

\* Steps of the store that change no map: lastSeen is saved, a file is opened
\* or written.
LEMMA KnownSaves ==
  ASSUME IInv, KnownInv, Running,
         \/ backend = "go" /\ \E c \in Conns : GoTouch(c)
         \/ backend = "node" /\ \E c \in Conns : NodeAuth(c)
         \/ backend = "node" /\ \E s \in saves : Open(s)
         \/ \E s \in saves : Write(s)
  PROVE  KnownInv'
  <1>1. /\ UNCHANGED <<backend, devices, req, asking, tok>> /\ Running'
        /\ Kept' => Kept
    <2>1. ASSUME NEW c \in Conns, GoTouch(c)
          PROVE  UNCHANGED <<backend, proc, devices, req, asking, tok, clean>>
      BY <2>1 DEF GoTouch, procVars, phoneVars
    <2>2. ASSUME NEW c \in Conns, NodeAuth(c)
          PROVE  /\ UNCHANGED <<backend, proc, devices, req, asking, tok>>
                 /\ clean' => clean
      BY <2>2 DEF NodeAuth, UpdateLastSeen, Save, procVars, phoneVars
    <2>3. ASSUME NEW s \in saves, Open(s) \/ Write(s)
          PROVE  UNCHANGED <<backend, proc, devices, req, asking, tok, clean>>
      BY <2>3 DEF Open, Write, procVars, phoneVars
    <2> QED
      BY <2>1, <2>2, <2>3 DEF Running, Kept
  <1>2. ASSUME NEW d \in Devices PROVE AskOK(d)'
    BY <1>1 DEF KnownInv, AskOK, Unheard
  <1>3. ASSUME Kept, NEW d \in Devices PROVE Knows(d, devices[d])'
    BY <1>1, <1>3 DEF KnownInv, SaveInv, Knows, Unheard
  <1>4. SaveInv'
    <2> SUFFICES ASSUME Kept', Running'
                 PROVE  /\ \A s \in saves' : /\ s.map = devices'
                                             /\ s.open => disk'.is = "empty"
                                             /\ backend' = "go" => s.open
                        /\ \A s, t \in saves' : s = t
                        /\ saves' = {} => /\ disk'.is = "whole"
                                          /\ disk'.map = devices'
      BY <1>1, <1>3 DEF SaveInv
    <2>0. /\ \A s \in saves : /\ s.map = devices
                              /\ s.open => disk.is = "empty"
                              /\ backend = "go" => s.open
          /\ \A s, t \in saves : s = t
      BY <1>1 DEF KnownInv, SaveInv
    <2>1. ASSUME NEW c \in Conns, backend = "go", GoTouch(c)
          PROVE  /\ disk'.is = "empty"
                 /\ saves' = {[of |-> "auth", id |-> c, map |-> devices,
                               open |-> TRUE]}
      BY <2>1 DEF GoTouch
    <2>2. ASSUME NEW c \in Conns, backend = "node", NodeAuth(c)
          PROVE  /\ backend' = "node"
                 /\ saves' = {[of |-> "auth", id |-> c, map |-> devices,
                               open |-> FALSE]}
      <3>1. saves = {}
        BY <1>1, <2>2 DEF NodeAuth, UpdateLastSeen, Save, Kept
      <3> QED
        BY <1>1, <2>2, <3>1 DEF NodeAuth, UpdateLastSeen, Save
    <2>3. ASSUME NEW s \in saves, backend = "node", Open(s)
          PROVE  /\ disk'.is = "empty" /\ backend' = "node"
                 /\ saves' = {[s EXCEPT !.open = TRUE]}
                 /\ [s EXCEPT !.open = TRUE].map = devices
      <3>1. saves = {s} /\ s.map = devices /\ s \in Saves
        BY <2>0 DEF IInv, StoreOK
      <3>2. [s EXCEPT !.open = TRUE].map = s.map
        BY <3>1 DEF Saves
      <3> QED
        BY <1>1, <2>3, <3>1, <3>2 DEF Open
    <2>4. ASSUME NEW s \in saves, Write(s)
          PROVE  saves' = {} /\ disk'.is = "whole" /\ disk'.map = devices
      <3>1. saves = {s} /\ s.map = devices /\ disk.is = "empty"
        BY <2>0, <2>4 DEF Write
      <3> QED
        BY <2>4, <3>1 DEF Write
    <2>5. ASSUME NEW s, saves' = {s}, s.map = devices,
                 s.open => disk'.is = "empty", backend = "go" => s.open
          PROVE  /\ \A x \in saves' : /\ x.map = devices
                                      /\ x.open => disk'.is = "empty"
                                      /\ backend = "go" => x.open
                 /\ \A x, y \in saves' : x = y
                 /\ saves' # {}
      BY <2>5
    <2>6. CASE backend = "go" /\ \E c \in Conns : GoTouch(c)
      <3>1. PICK c \in Conns : GoTouch(c)
        BY <2>6
      <3> QED
        BY <1>1, <2>1, <2>5, <2>6, <3>1
    <2>7. CASE backend = "node" /\ \E c \in Conns : NodeAuth(c)
      <3>1. PICK c \in Conns : NodeAuth(c)
        BY <2>7
      <3> QED
        BY <1>1, <2>2, <2>5, <2>7, <3>1
    <2>8. CASE backend = "node" /\ \E s \in saves : Open(s)
      <3>1. PICK s \in saves : Open(s)
        BY <2>8
      <3> QED
        BY <1>1, <2>3, <2>5, <2>8, <3>1
    <2>9. CASE \E s \in saves : Write(s)
      BY <1>1, <2>4, <2>9
    <2> QED
      BY <2>6, <2>7, <2>8, <2>9
  <1>5. OffInv'
    BY <1>1 DEF OffInv
  <1> QED
    BY <1>2, <1>4, <1>5 DEF KnownInv

\* The process ends; what it leaves is whole only if no save was under way.
LEMMA KnownHalts ==
  ASSUME IInv, KnownInv, Halt
  PROVE  KnownInv'
  <1>0. req \in [Reqs -> ReqType]
    BY DEF IInv, ReqOK
  <1>1. /\ UNCHANGED <<backend, disk, tok>> /\ saves' = {} /\ Running
        /\ ~Running' /\ clean' = (clean /\ saves = {}) /\ asking' = Nothing
    BY DEF Halt, Running
  <1>2. \A r \in Reqs : /\ req'[r].dev = req[r].dev
                        /\ req'[r].at \in {req[r].at, "dead"}
    BY <1>0 DEF Halt, Over, ReqType
  <1>3. \A r \in Reqs : req[r].at = "lost" => req'[r].at = "lost"
    BY <1>0 DEF Halt, Busy
  <1>4. \A d : Unheard(d) \subseteq Unheard(d)'
    <2> SUFFICES ASSUME NEW d, NEW r \in Unheard(d) PROVE r \in Unheard(d)'
      OBVIOUS
    <2> QED
      BY <1>2 DEF Unheard
  <1>5. \A d \in Devices : AskOK(d)'
    BY <1>1 DEF AskOK, Nothing
  <1>6. SaveInv'
    BY <1>1 DEF SaveInv
  <1>7. OffInv'
    <2> SUFFICES ASSUME Kept'
                 PROVE  /\ disk.is = "whole" =>
                             \A d \in Devices : Knows(d, disk.map[d])'
                        /\ backend = "node" => disk.is = "whole"
      BY <1>1 DEF OffInv, Kept
    <2>1. Kept
      BY <1>1 DEF Kept
    <2>2. CASE saves = {}
      <3>1. disk.is = "whole" /\ disk.map = devices
        BY <1>1, <2>1, <2>2 DEF KnownInv, SaveInv
      <3>2. ASSUME NEW d \in Devices PROVE Knows(d, disk.map[d])'
        <4>1. Knows(d, disk.map[d])
          BY <1>1, <2>1, <3>1 DEF KnownInv, SaveInv
        <4> QED
          BY <1>1, <1>4, <4>1 DEF Knows
      <3> QED
        BY <3>1, <3>2
    <2>3. CASE saves # {}
      <3>1. backend = "go"
        BY <1>1, <2>3 DEF Kept
      <3>2. disk.is = "empty"
        BY <1>1, <2>1, <2>3, <3>1 DEF KnownInv, SaveInv
      <3> QED
        BY <3>1, <3>2
    <2> QED
      BY <2>2, <2>3
  <1> QED
    BY <1>5, <1>6, <1>7 DEF KnownInv

\* The process starts, from the file.
LEMMA KnownBegins ==
  ASSUME IInv, KnownInv, Start
  PROVE  KnownInv'
  <1>1. /\ UNCHANGED <<backend, disk, saves, clean, tok, req, asking>>
        /\ ~Running
    BY DEF Start, GoStart, NodeStart, phoneVars, Running
  <1>2. ASSUME NEW d \in Devices PROVE AskOK(d)'
    BY <1>1 DEF KnownInv, AskOK
  <1>3. ASSUME Kept, disk.is = "whole", NEW d \in Devices
        PROVE  Knows(d, disk.map[d])'
    BY <1>1, <1>3 DEF KnownInv, OffInv, Knows, Unheard
  <1>4. OffInv'
    BY <1>1, <1>3 DEF KnownInv, OffInv, Kept
  <1>5. ASSUME Kept, Running'
        PROVE  devices' = disk.map /\ disk.is = "whole" /\ saves = {}
    BY <1>1, <1>5
    DEF KnownInv, OffInv, Kept, Start, GoStart, NodeStart, Running
  <1>6. SaveInv'
    <2> SUFFICES ASSUME Kept', Running' PROVE SaveInv'
      BY DEF SaveInv
    <2>1. /\ devices' = disk.map /\ disk.is = "whole" /\ saves = {} /\ Kept
      BY <1>1, <1>5 DEF Kept
    <2>2. ASSUME NEW d \in Devices PROVE Knows(d, devices[d])'
      BY <1>1, <1>3, <2>1 DEF Knows
    <2> QED
      BY <1>1, <2>1, <2>2 DEF SaveInv
  <1> QED
    BY <1>2, <1>4, <1>6 DEF KnownInv

\* Steps that touch neither the requests nor the store.
LEMMA KnownOthers ==
  ASSUME IInv, KnownInv,
         \/ \E c \in Conns : GoAuth(c) \/ RefuseAuth(c) \/ Leave(c) \/ Drop(c)
         \/ \E d \in Devices : PhoneGivesUp(d) \/ PhoneConnects(d)
         \/ Pair \/ Expiry \/ GoStop \/ UNCHANGED vars
  PROVE  KnownInv'
  <1>0. asking \in [Devices -> Tokens]
    BY DEF IInv, PhoneOK
  <1>1. UNCHANGED <<backend, storeVars, tok, req>>
    BY DEF GoAuth, RefuseAuth, Leave, Drop, PhoneGivesUp, PhoneConnects,
           Pair, StartPairing, Expiry, GoExpire, NodeExpire, GoStop, vars,
           procVars, phoneVars
  <1>2. Running' <=> Running
    BY DEF GoAuth, RefuseAuth, Leave, Drop, PhoneGivesUp, PhoneConnects,
           Pair, StartPairing, Expiry, GoExpire, NodeExpire, GoStop, vars,
           procVars, Running
  <1>3. \A closed : \A d \in Devices :
          Unasked(closed)[d] \in {asking[d], NONE}
    BY DEF Unasked
  <1>4. ASSUME NEW d \in Devices PROVE asking'[d] \in {asking[d], NONE}
    <2>1. ASSUME NEW e \in Devices, PhoneGivesUp(e)
          PROVE  asking'[d] \in {asking[d], NONE}
      BY <1>0, <2>1 DEF PhoneGivesUp
    <2>2. ASSUME \E closed : asking' = Unasked(closed)
          PROVE  asking'[d] \in {asking[d], NONE}
      BY <1>3, <2>2
    <2>3. \/ asking' = asking
          \/ \E e \in Devices : PhoneGivesUp(e)
          \/ \E closed : asking' = Unasked(closed)
      BY DEF GoAuth, RefuseAuth, Leave, Drop, PhoneConnects, Pair,
             StartPairing, Expiry, GoExpire, NodeExpire, GoStop, vars,
             phoneVars
    <2> QED
      BY <2>1, <2>2, <2>3
  <1> QED
    BY <1>1, <1>2, <1>4, KnownSame

\* Every step keeps what is known.
LEMMA KnownHolds ==
  ASSUME IInv, IInv', KnownInv, [Next]_vars
  PROVE  KnownInv'
  <1>1. CASE Running /\ backend = "go" /\ GoServer
    BY <1>1, KnownRequests, KnownAdds, KnownAnswers, KnownSaves, KnownOthers
    DEF GoServer, GoLeave
  <1>2. CASE Running /\ backend = "node" /\ NodeServer
    BY <1>2, KnownRequests, KnownAdds, KnownAnswers, KnownSaves, KnownOthers
    DEF NodeServer
  <1>3. CASE Phones
    <2>1. ASSUME NEW d \in Devices, NEW k \in Codes,
                 PhoneAsks(d, k) \/ PhoneAsksOnSocket(d, k)
          PROVE  KnownInv'
      <3>1. CASE PhoneAsks(d, k)
        BY <3>1, KnownAsks DEF PhoneAsks
      <3>2. CASE PhoneAsksOnSocket(d, k)
        <4>1. Unused \in SUBSET Nat /\ Unused # {} /\ Unused \subseteq Conns
          BY <3>2, Bounds DEF PhoneAsksOnSocket, Unused, Conns
        <4>2. Fresh(Unused) \in Conns
          BY <4>1, FreshIn
        <4> QED
          BY <3>2, <4>2, KnownAsks DEF PhoneAsksOnSocket
      <3> QED
        BY <2>1, <3>1, <3>2
    <2> QED
      BY <1>3, <2>1, KnownOthers DEF Phones
  <1>4. CASE Halt
    BY <1>4, KnownHalts
  <1>5. CASE Start
    BY <1>5, KnownBegins
  <1>6. CASE \/ Pair \/ Expiry \/ GoStop \/ UNCHANGED vars
             \/ \E c \in Conns : Drop(c)
    BY <1>6, KnownOthers
  <1> QED
    BY <1>1, <1>2, <1>3, <1>4, <1>5, <1>6 DEF Next, Server

\* What is known holds in every state.
LEMMA SpecKnown == Spec => []KnownInv
  <1>1. IInv /\ IInv' /\ KnownInv /\ [Next]_vars => KnownInv'
    BY KnownHolds
  <1> QED
    BY <1>1, KnownStarts, SpecInv, PTL DEF Spec

\* The token a phone was told last is the one the server accepts, after any
\* restart, unless a save was overlapped or cut off (Node) or the phone has
\* a request it has heard no answer of.
THEOREM ToldStaysKnown == Spec => []ToldIsKnown
  <1>1. KnownInv => ToldIsKnown
    BY DEF KnownInv, SaveInv, Kept, Running, Knows, ToldIsKnown
  <1> QED
    BY <1>1, SpecKnown, PTL
=============================================================================
