----------------------------- MODULE Conn_proofs -----------------------------
(***************************************************************************)
(* Proofs about Conn, for every number of callers, connections, exchanges  *)
(* in flight and session ids.                                              *)
(*                                                                         *)
(* The driver's half (Numbering, Sessions, Updaters) knows which lifecycle *)
(* is the current one and how far each read loop has come.  The callers'   *)
(* half (Calling, Chosen, Origins, Correlation) knows of every request and *)
(* frame in flight whose it is, and that nobody else uses its session id.  *)
(***************************************************************************)
EXTENDS Conn, TLAPS

(* Connections are numbered in the order in which they are made, and the   *)
(* last one made is the only one that can be current.                      *)
Numbering ==
  /\ life = made
  /\ tlsConn \in {0, made}
  /\ taken <= made
  /\ driver = "dial" => made < MaxConns
  /\ \A k \in Conns : k > made => socket[k] = "none" /\ loop[k] = "none" /\ k \notin lost
  /\ \A k \in Conns : k <= made => socket[k] # "none" /\ loop[k] # "none"

(* A connection that is open is current or in the hands of Disconnect; one *)
(* whose loop has ended or whose channel is closed is not current.         *)
Sessions ==
  /\ driver = "close" <=> taken # 0
  /\ driver \in {"dial", "close"} => ~Connected
  /\ NoForgottenSession
  /\ \A k \in Conns : socket[k] = "open" => loop[k] \in {"read", "dispatch"}
  /\ \A k \in Conns : loop[k] \in {"signal", "done"} \/ k \in lost => tlsConn # k

(* The flag and the registered callback agree.                             *)
Updaters ==
  /\ updaters = IF updaterSet THEN 1 ELSE 0
  /\ Connected /\ driver \notin {"install", "take"} => updaterSet

(* A loop that dispatches has a frame to dispatch, and only to callers     *)
(* that are in a call.  A call has its callback registered from before     *)
(* its Write until it leaves, and has heard nothing when it begins.        *)
Calling ==
  /\ \A k \in Conns : loop[k] = "dispatch" => inbox[k] # <<>>
  /\ \A k \in Conns, c \in Callers : c \in left[k] => pc[c] # "idle"
  /\ \A c \in Callers : pc[c] \in {"idle", "register"} => c \notin callbacks
  /\ \A c \in Callers : pc[c] \notin {"idle", "register"} => c \in callbacks
  /\ \A c \in Callers : pc[c] = "idle" => heard[c] = {}
  /\ \A c \in Callers : pc[c] \in {"send", "watch", "wait"} => via[c] # 0

(* The connection a call has chosen was made.                              *)
Chosen == \A c \in Callers : via[c] <= made

(* A request or an answer for a caller is that of its current call.        *)
Exchanges(c) == pc[c] \in {"watch", "wait", "leave"}

Origins ==
  /\ \A r \in asked : \A c \in Callers :
       r.for = c => Exchanges(c) /\ r.conn = via[c] /\ r.kind = kind[c] /\ r.sid = sid[c]
  /\ \A k \in Conns : \A i \in DOMAIN inbox[k] : \A c \in Callers :
       inbox[k][i].for = c =>
         /\ Exchanges(c) /\ k = via[c]
         /\ inbox[k][i].kind = kind[c] /\ inbox[k][i].sid = sid[c]

(* Nothing in flight carries the session id of a call but what is for it.  *)
Active(c) == pc[c] # "idle"

Correlation ==
  /\ \A c, d \in Callers : Active(c) /\ Active(d) /\ sid[c] = sid[d] => c = d
  /\ \A r \in asked : \A c \in Callers : Active(c) /\ r.sid = sid[c] => r.for = c
  /\ \A k \in Conns : \A i \in DOMAIN inbox[k] : \A c \in Callers :
       Active(c) /\ inbox[k][i].sid = sid[c] => inbox[k][i].for = c
  /\ OwnAnswersOnly

DriverInv == Numbering /\ Sessions /\ Updaters
CallInv == Calling /\ Chosen /\ Origins /\ Correlation /\ NoMissedAnswer
IInv == TypeOK /\ DriverInv /\ CallInv

-----------------------------------------------------------------------------
(* Queues.                                                                 *)

(* A prefix of a queue: nothing is reordered, nothing appears.             *)
LEMMA Prefix ==
  ASSUME NEW q \in Seq(Frame), NEW n \in 0 .. Len(q)
  PROVE  /\ SubSeq(q, 1, n) \in Seq(Frame)
         /\ DOMAIN SubSeq(q, 1, n) = 1 .. n
         /\ \A i \in 1 .. n : SubSeq(q, 1, n)[i] = q[i] /\ i \in DOMAIN q
         /\ n > 0 => SubSeq(q, 1, n) # <<>>
<1>1. Len(q) \in Nat /\ DOMAIN q = 1 .. Len(q)
  OBVIOUS
<1>2. SubSeq(q, 1, n) \in Seq(Frame) /\ Len(SubSeq(q, 1, n)) = n
  BY <1>1
<1>3. \A i \in 1 .. n : SubSeq(q, 1, n)[i] = q[i] /\ i \in DOMAIN q
  BY <1>1
<1> QED BY <1>2, <1>3

(* A frame at the end: everything in front stays where it is.              *)
LEMMA AtEnd ==
  ASSUME NEW q \in Seq(Frame), NEW f \in Frame
  PROVE  /\ Append(q, f) \in Seq(Frame)
         /\ Append(q, f) # <<>>
         /\ DOMAIN Append(q, f) = 1 .. Len(q) + 1
         /\ DOMAIN q = 1 .. Len(q) /\ Len(q) \in Nat
         /\ Append(q, f)[Len(q) + 1] = f
         /\ \A i \in DOMAIN q : Append(q, f)[i] = q[i]
<1>1. Append(q, f) \in Seq(Frame) /\ Len(Append(q, f)) = Len(q) + 1
  OBVIOUS
<1>2. Append(q, f) # <<>>
  BY <1>1, SMTT(30)
<1> QED BY <1>1, <1>2

(* The rest of a queue: every frame moves up by one.                       *)
LEMMA WithoutHead ==
  ASSUME NEW q \in Seq(Frame), q # <<>>
  PROVE  /\ Tail(q) \in Seq(Frame)
         /\ \A i \in DOMAIN Tail(q) : i + 1 \in DOMAIN q /\ Tail(q)[i] = q[i + 1]
         /\ \A i \in DOMAIN q : i # 1 => i - 1 \in DOMAIN Tail(q) /\ Tail(q)[i - 1] = q[i]
<1>1. Tail(q) \in Seq(Frame) /\ Len(Tail(q)) = Len(q) - 1 /\ Len(q) > 0
  OBVIOUS
<1>2. \A i \in 1 .. Len(q) - 1 : Tail(q)[i] = q[i + 1]
  OBVIOUS
<1>3. DOMAIN Tail(q) = 1 .. Len(q) - 1 /\ DOMAIN q = 1 .. Len(q)
  BY <1>1
<1> QED BY <1>1, <1>2, <1>3

(* What a caller that leaves does to a queue.                              *)
LEMMA Forgotten ==
  ASSUME NEW q \in Seq(Frame), NEW c \in Callers
  PROVE  /\ [i \in DOMAIN q |-> Forget(c, q[i])] \in Seq(Frame)
         /\ q # <<>> => [i \in DOMAIN q |-> Forget(c, q[i])] # <<>>
<1> DEFINE g == [i \in DOMAIN q |-> Forget(c, q[i])]
<1>1. DOMAIN q = 1 .. Len(q) /\ Len(q) \in Nat /\ \A i \in DOMAIN q : q[i] \in Frame
  OBVIOUS
<1>2. \A f \in Frame : Forget(c, f) \in Frame
  BY DEF Forget, Frame
<1>3. g \in [1 .. Len(q) -> Frame]
  BY <1>1, <1>2
<1>4. g \in Seq(Frame) /\ DOMAIN g = 1 .. Len(q)
  BY <1>1, <1>3
<1>5. q # <<>> => 1 \in DOMAIN g
  BY <1>1, <1>4
<1>6. q # <<>> => g # <<>>
  BY <1>5
<1> QED BY <1>4, <1>6

-----------------------------------------------------------------------------
(* Types.                                                                  *)

(* What the driver and the loops assign to the driver's variables.         *)
LEMMA DriverTypeStep ==
  ASSUME DriverOK, Numbering, Updaters, [Next]_vars
  PROVE  DriverOK'
<1> USE ConnAssumption DEF DriverOK, Numbering, Updaters, Conns, driverVars
<1>1. CASE Driver
  <2>1. CASE Connect \/ DialFails
    BY <2>1 DEF Connect, DialFails
  <2>2. CASE Established
    BY <2>2 DEF Established
  <2>3. CASE InstallUpdaterDispatch
    BY <2>3 DEF InstallUpdaterDispatch
  <2>4. CASE Disconnect
    <3>1. updaters' \in Nat
      BY <2>4 DEF Disconnect
    <3> QED BY <2>4, <3>1 DEF Disconnect
  <2>5. CASE Take
    BY <2>5 DEF Take, Connected
  <2>6. CASE Close
    BY <2>6 DEF Close
  <2> QED BY <1>1, <2>1, <2>2, <2>3, <2>4, <2>5, <2>6 DEF Driver
<1>2. ASSUME NEW k \in Conns, ReadLoop(k) \/ Drop(k)
      PROVE  DriverOK'
  BY <1>2 DEF ReadLoop, Dispatch, Dispatched, LoopExit, SignalLost, Deliver, Drop
<1>3. ASSUME NEW c \in Callers, Begin(c) \/ DoAPICall(c) \/ Timeout(c)
      PROVE  DriverOK'
  BY <1>3 DEF Begin, DoAPICall, Timeout, Register, Write, Send, SendInVain, Watch, Wake, Leave
<1>4. CASE Answer
  BY <1>4 DEF Answer
<1>5. CASE UNCHANGED vars
  BY <1>5 DEF vars
<1> QED BY <1>1, <1>2, <1>3, <1>4, <1>5 DEF Next

(* Queues stay sequences of frames, snapshots sets of callers.             *)
LEMMA LoopsTypeStep ==
  ASSUME TypeOK, Numbering, Sessions, Calling, [Next]_vars
  PROVE  LoopsOK'
<1> USE ConnAssumption DEF TypeOK, DriverOK, LoopsOK, loopVars
<1>1. ASSUME NEW k \in Conns, NEW n \in 0 .. Len(inbox[k])
      PROVE  [inbox EXCEPT ![k] = SubSeq(@, 1, n)] \in [Conns -> Seq(Frame)]
  BY <1>1, Prefix
<1>2. CASE Driver
  <2>1. CASE Connect \/ DialFails \/ InstallUpdaterDispatch \/ Disconnect \/ Take
    BY <2>1 DEF Connect, DialFails, InstallUpdaterDispatch, Disconnect, Take
  <2>2. CASE Established
    BY <2>2 DEF Established
  <2>3. CASE Close
    <3>1. taken \in Conns
      BY <2>3 DEF Close, Sessions
    <3> QED BY <2>3, <3>1, <1>1 DEF Close, CutOff
  <2> QED BY <1>2, <2>1, <2>2, <2>3 DEF Driver
<1>3. ASSUME NEW k \in Conns, ReadLoop(k)
      PROVE  LoopsOK'
  <2>1. CASE Dispatched(k)
    <3>1. Tail(inbox[k]) \in Seq(Frame)
      BY <2>1, WithoutHead DEF Dispatched, Calling
    <3> QED BY <2>1, <3>1 DEF Dispatched
  <2>2. CASE Dispatch(k) \/ LoopExit(k) \/ SignalLost(k)
    BY <2>2 DEF Dispatch, LoopExit, SignalLost
  <2>3. ASSUME NEW c \in Callers, Deliver(k, c)
        PROVE  LoopsOK'
    BY <2>3 DEF Deliver
  <2> QED BY <1>3, <2>1, <2>2, <2>3 DEF ReadLoop
<1>4. ASSUME NEW k \in Conns, Drop(k)
      PROVE  LoopsOK'
  BY <1>4, <1>1 DEF Drop, CutOff
<1>5. ASSUME NEW c \in Callers, Begin(c) \/ DoAPICall(c) \/ Timeout(c)
      PROVE  LoopsOK'
  <2>1. CASE Leave(c)
    <3>1. \A k \in Conns : [i \in DOMAIN inbox[k] |-> Forget(c, inbox[k][i])] \in Seq(Frame)
      BY Forgotten
    <3> QED BY <2>1, <3>1 DEF Leave
  <2>2. CASE Begin(c) \/ Timeout(c) \/ Register(c) \/ Write(c) \/ Send(c) \/ SendInVain(c)
               \/ Watch(c) \/ Wake(c)
    BY <2>2 DEF Begin, Timeout, Register, Write, Send, SendInVain, Watch, Wake
  <2> QED BY <1>5, <2>1, <2>2 DEF DoAPICall
<1>6. CASE Answer
  <2>1. PICK r \in asked :
          inbox' = [inbox EXCEPT ![r.conn] = Append(@, [for |-> r.for, kind |-> r.kind, sid |-> r.sid])]
    BY <1>6 DEF Answer
  <2>2. r.conn \in Conns /\ [for |-> r.for, kind |-> r.kind, sid |-> r.sid] \in Frame
    BY DEF CallsOK, Request, Frame
  <2>3. inbox' \in [Conns -> Seq(Frame)]
    BY <2>1, <2>2, AtEnd
  <2> QED BY <1>6, <2>3 DEF Answer
<1>7. CASE UNCHANGED vars
  BY <1>7 DEF vars
<1> QED BY <1>2, <1>3, <1>4, <1>5, <1>6, <1>7 DEF Next

(* A new session id is one of 1 .. MaxSid.                                 *)
LEMMA NewSidInRange ==
  ASSUME NEW s \in 0 .. MaxSid
  PROVE  NewSessionID(s) \in Sids
BY ConnAssumption DEF NewSessionID, Sids

(* A call is in one of its labels, and its request well formed.            *)
LEMMA CallsTypeStep ==
  ASSUME TypeOK, Calling, [Next]_vars
  PROVE  CallsOK'
<1> USE ConnAssumption DEF TypeOK, DriverOK, CallsOK, callVars
<1>1. CASE Driver
  BY <1>1 DEF Driver, Connect, DialFails, Established, InstallUpdaterDispatch, Disconnect, Take,
    Close, CutOff
<1>2. ASSUME NEW k \in Conns, ReadLoop(k) \/ Drop(k)
      PROVE  CallsOK'
  <2>1. CASE Dispatch(k) \/ Dispatched(k) \/ LoopExit(k) \/ SignalLost(k) \/ Drop(k)
    BY <2>1 DEF Dispatch, Dispatched, LoopExit, SignalLost, Drop, CutOff
  <2>2. ASSUME NEW c \in Callers, Deliver(k, c)
        PROVE  CallsOK'
    <3>1. Origin(c, Head(inbox[k])) \in {"own", "foreign"}
      BY DEF Origin
    <3>2. heard' \in [Callers -> SUBSET {"own", "foreign"}]
      BY <2>2, <3>1 DEF Deliver
    <3> QED BY <2>2, <3>2 DEF Deliver
  <2> QED BY <1>2, <2>1, <2>2 DEF ReadLoop
<1>3. ASSUME NEW c \in Callers, Begin(c) \/ DoAPICall(c) \/ Timeout(c)
      PROVE  CallsOK'
  <2>1. CASE Begin(c)
    BY <2>1, NewSidInRange DEF Begin, Sids
  <2>2. CASE Send(c)
    <3>1. via[c] \in Conns
      BY <2>2 DEF Send, Calling
    <3>2. [conn |-> via[c], for |-> c, kind |-> kind[c], sid |-> sid[c]] \in Request
      BY <3>1 DEF Request
    <3> QED BY <2>2, <3>2 DEF Send
  <2>3. CASE Leave(c)
    <3>1. \A r \in Request : Forget(c, r) \in Request
      BY DEF Forget, Request
    <3>2. 1 \in Sids /\ "session" \in Kinds
      BY DEF Sids, Kinds
    <3> QED BY <2>3, <3>1, <3>2 DEF Leave
  <2>4. CASE Timeout(c) \/ Register(c) \/ Write(c) \/ SendInVain(c) \/ Watch(c) \/ Wake(c)
    BY <2>4 DEF Timeout, Register, Write, SendInVain, Watch, Wake
  <2> QED BY <1>3, <2>1, <2>2, <2>3, <2>4 DEF DoAPICall
<1>4. CASE Answer
  BY <1>4 DEF Answer
<1>5. CASE UNCHANGED vars
  BY <1>5 DEF vars
<1> QED BY <1>1, <1>2, <1>3, <1>4, <1>5 DEF Next

-----------------------------------------------------------------------------
(* The driver's half.                                                      *)

(* What a caller, a delivery or an answer leaves alone.                    *)
LEMMA DriverUntouched ==
  ASSUME [Next]_vars,
         ~Driver, \A k \in Conns : ~Drop(k),
         \A k \in Conns : ReadLoop(k) => \E c \in Callers : Deliver(k, c)
  PROVE  UNCHANGED <<driverVars, socket, loop, lost>>
<1>1. ASSUME NEW k \in Conns, NEW c \in Callers, Deliver(k, c)
      PROVE  UNCHANGED <<driverVars, socket, loop, lost>>
  BY <1>1 DEF Deliver
<1>2. ASSUME NEW c \in Callers, Begin(c) \/ DoAPICall(c) \/ Timeout(c)
      PROVE  UNCHANGED <<driverVars, socket, loop, lost>>
  BY <1>2 DEF Begin, DoAPICall, Timeout, Register, Write, Send, SendInVain, Watch, Wake, Leave,
    loopVars
<1>3. CASE Answer
  BY <1>3 DEF Answer
<1>4. CASE UNCHANGED vars
  BY <1>4 DEF vars, loopVars
<1> QED BY <1>1, <1>2, <1>3, <1>4 DEF Next

(* Only Established makes a connection, and it gives it the next number.   *)
LEMMA NumberingStep ==
  ASSUME TypeOK, Numbering, Sessions, [Next]_vars
  PROVE  Numbering'
<1> USE ConnAssumption DEF TypeOK, DriverOK, LoopsOK, Numbering, Conns, driverVars
<1>1. CASE Driver
  <2>1. CASE Connect \/ DialFails \/ InstallUpdaterDispatch \/ Disconnect
    BY <2>1 DEF Connect, DialFails, InstallUpdaterDispatch, Disconnect, loopVars
  <2>2. CASE Established
    BY <2>2 DEF Established
  <2>3. CASE Take
    BY <2>3 DEF Take, loopVars
  <2>4. CASE Close
    <3>1. taken \in Conns /\ taken <= made
      BY <2>4 DEF Close, Sessions
    <3> QED BY <2>4, <3>1 DEF Close
  <2> QED BY <1>1, <2>1, <2>2, <2>3, <2>4 DEF Driver
<1>2. ASSUME NEW k \in Conns, Dispatch(k) \/ Dispatched(k) \/ LoopExit(k) \/ SignalLost(k) \/ Drop(k)
      PROVE  Numbering'
  <2>1. CASE Dispatch(k)
    BY <2>1 DEF Dispatch
  <2>2. CASE Dispatched(k)
    BY <2>2 DEF Dispatched
  <2>3. CASE LoopExit(k)
    BY <2>3 DEF LoopExit
  <2>4. CASE SignalLost(k)
    BY <2>4 DEF SignalLost
  <2>5. CASE Drop(k)
    BY <2>5 DEF Drop
  <2> QED BY <1>2, <2>1, <2>2, <2>3, <2>4, <2>5
<1>3. CASE UNCHANGED <<driverVars, socket, loop, lost>>
  BY <1>3
<1> QED BY <1>1, <1>2, <1>3, DriverUntouched DEF ReadLoop

(* A loop that ends and a Disconnect touch their own connection only.      *)
LEMMA SessionsStep ==
  ASSUME TypeOK, Numbering, Sessions, [Next]_vars
  PROVE  Sessions'
<1> USE ConnAssumption DEF TypeOK, DriverOK, LoopsOK, Numbering, Conns, driverVars, Sessions,
    NoForgottenSession, Connected
<1>1. CASE Driver
  <2>1. CASE Connect \/ DialFails \/ InstallUpdaterDispatch \/ Disconnect
    BY <2>1 DEF Connect, DialFails, InstallUpdaterDispatch, Disconnect, loopVars
  <2>2. CASE Established
    BY <2>2 DEF Established
  <2>3. CASE Take
    BY <2>3 DEF Take, loopVars
  <2>4. CASE Close
    BY <2>4 DEF Close
  <2> QED BY <1>1, <2>1, <2>2, <2>3, <2>4 DEF Driver
<1>2. ASSUME NEW k \in Conns, Dispatch(k) \/ Dispatched(k) \/ LoopExit(k) \/ SignalLost(k) \/ Drop(k)
      PROVE  Sessions'
  <2>1. CASE Dispatch(k) \/ Dispatched(k)
    BY <2>1, SMTT(30) DEF Dispatch, Dispatched
  <2>2. CASE LoopExit(k)
    <3>1. \A j \in Conns : loop'[j] = IF j = k THEN "signal" ELSE loop[j]
      BY <2>2 DEF LoopExit
    <3>2. tlsConn' # k /\ (tlsConn' = tlsConn \/ (tlsConn = k /\ tlsConn' = 0))
      BY <2>2 DEF LoopExit
    <3>3. UNCHANGED <<driver, taken, socket, lost>> /\ socket[k] # "open"
      BY <2>2 DEF LoopExit
    <3>4. (driver = "close" <=> taken # 0)' /\ (driver \in {"dial", "close"} => ~Connected)'
      BY <3>2, <3>3
    <3>5. NoForgottenSession'
      BY <3>2, <3>3
    <3>6. \A j \in Conns : (socket[j] = "open" => loop[j] \in {"read", "dispatch"})'
      BY <3>1, <3>3
    <3>7. ASSUME NEW j \in Conns, loop'[j] \in {"signal", "done"} \/ j \in lost'
          PROVE  tlsConn' # j
      <4>1. j = k \/ tlsConn # j
        BY <3>1, <3>3, <3>7
      <4>2. j # 0
        OBVIOUS
      <4> QED BY <4>1, <4>2, <3>2
    <3> QED BY <3>4, <3>5, <3>6, <3>7
  <2>3. CASE SignalLost(k)
    BY <2>3 DEF SignalLost
  <2>4. CASE Drop(k)
    BY <2>4 DEF Drop
  <2> QED BY <1>2, <2>1, <2>2, <2>3, <2>4
<1>3. CASE UNCHANGED <<driverVars, socket, loop, lost>>
  BY <1>3
<1> QED BY <1>1, <1>2, <1>3, DriverUntouched DEF ReadLoop

(* Installing and removing the updater keep the flag and the callback      *)
(* together.                                                               *)
LEMMA UpdatersStep ==
  ASSUME TypeOK, Numbering, Sessions, Updaters, [Next]_vars
  PROVE  Updaters'
<1> USE DEF TypeOK, DriverOK, driverVars, Updaters, Connected
<1>1. CASE Driver
  <2>1. CASE Connect \/ DialFails
    BY <2>1 DEF Connect, DialFails, Sessions
  <2>2. CASE Established
    BY <2>2 DEF Established
  <2>3. CASE InstallUpdaterDispatch
    BY <2>3 DEF InstallUpdaterDispatch
  <2>4. CASE Disconnect
    BY <2>4 DEF Disconnect
  <2>5. CASE Take
    BY <2>5 DEF Take
  <2>6. CASE Close
    BY <2>6 DEF Close, Sessions
  <2> QED BY <1>1, <2>1, <2>2, <2>3, <2>4, <2>5, <2>6 DEF Driver
<1>2. ASSUME NEW k \in Conns, Dispatch(k) \/ Dispatched(k) \/ LoopExit(k) \/ SignalLost(k) \/ Drop(k)
      PROVE  Updaters'
  BY <1>2 DEF Dispatch, Dispatched, LoopExit, SignalLost, Drop
<1>3. CASE UNCHANGED <<driverVars, socket, loop, lost>>
  BY <1>3
<1> QED BY <1>1, <1>2, <1>3, DriverUntouched DEF ReadLoop

-----------------------------------------------------------------------------
(* The callers' half.                                                      *)

(* Who is in a call has its callback registered; who is not, has not, and  *)
(* is in no snapshot.                                                      *)
LEMMA CallingStep ==
  ASSUME TypeOK, Sessions, Calling, [Next]_vars
  PROVE  Calling'
<1> USE DEF TypeOK, LoopsOK, CallsOK, callVars, Calling
<1>1. ASSUME NEW k \in Conns, CutOff(k), UNCHANGED <<loop, left, callVars, callbacks>>
      PROVE  Calling'
  <2>1. PICK n \in 0 .. Len(inbox[k]) :
          /\ loop[k] = "dispatch" => n > 0
          /\ inbox' = [inbox EXCEPT ![k] = SubSeq(@, 1, n)]
    BY <1>1 DEF CutOff
  <2>2. n > 0 => SubSeq(inbox[k], 1, n) # <<>>
    BY Prefix
  <2>3. \A j \in Conns : loop[j] = "dispatch" => inbox'[j] # <<>>
    BY <2>1, <2>2
  <2> QED BY <1>1, <2>3
<1>2. CASE Driver
  <2>1. CASE Connect \/ DialFails \/ InstallUpdaterDispatch \/ Disconnect \/ Take
    BY <2>1 DEF Connect, DialFails, InstallUpdaterDispatch, Disconnect, Take, loopVars
  <2>2. CASE Established
    BY <2>2 DEF Established
  <2>3. CASE Close
    <3>1. taken \in Conns
      BY <2>3 DEF Close, Sessions, DriverOK
    <3> QED BY <2>3, <3>1, <1>1 DEF Close
  <2> QED BY <1>2, <2>1, <2>2, <2>3 DEF Driver
<1>3. ASSUME NEW k \in Conns, ReadLoop(k)
      PROVE  Calling'
  <2>1. CASE Dispatch(k)
    BY <2>1 DEF Dispatch
  <2>2. CASE Dispatched(k) \/ LoopExit(k) \/ SignalLost(k)
    BY <2>2 DEF Dispatched, LoopExit, SignalLost
  <2>3. ASSUME NEW c \in Callers, Deliver(k, c)
        PROVE  Calling'
    BY <2>3 DEF Deliver
  <2> QED BY <1>3, <2>1, <2>2, <2>3 DEF ReadLoop
<1>4. ASSUME NEW k \in Conns, Drop(k)
      PROVE  Calling'
  BY <1>4, <1>1 DEF Drop
<1>5. ASSUME NEW c \in Callers, Begin(c) \/ DoAPICall(c) \/ Timeout(c)
      PROVE  Calling'
  <2>1. CASE Begin(c)
    BY <2>1 DEF Begin, loopVars
  <2>2. CASE Register(c)
    BY <2>2 DEF Register, loopVars
  <2>3. CASE Timeout(c)
    BY <2>3 DEF Timeout, loopVars
  <2>4. CASE Wake(c)
    BY <2>4 DEF Wake, loopVars
  <2>5. CASE Watch(c)
    BY <2>5 DEF Watch, loopVars
  <2>6. CASE Write(c)
    BY <2>6 DEF Write, loopVars, Connected
  <2>7. CASE Send(c)
    BY <2>7 DEF Send, loopVars
  <2>8. CASE SendInVain(c)
    <3>1. PICK l \in {"leave", "watch"} : pc' = [pc EXCEPT ![c] = l]
      BY <2>8 DEF SendInVain
    <3>2. pc[c] = "send" /\ UNCHANGED <<inbox, loop, left, callbacks, heard, via>>
      BY <2>8 DEF SendInVain, loopVars
    <3> QED BY <3>1, <3>2
  <2>9. CASE Leave(c)
    <3>1. ASSUME NEW k \in Conns
          PROVE  inbox[k] # <<>> => inbox'[k] # <<>>
      <4>1. inbox \in [Conns -> Seq(Frame)]
        BY DEF TypeOK, LoopsOK
      <4>2. inbox'[k] = [i \in DOMAIN inbox[k] |-> Forget(c, inbox[k][i])]
        BY <2>9, <4>1 DEF Leave
      <4> HIDE DEF TypeOK, LoopsOK, CallsOK, callVars, Calling
      <4> QED BY <4>1, <4>2, Forgotten
    <3> QED BY <2>9, <3>1 DEF Leave
  <2> QED BY <1>5, <2>1, <2>2, <2>3, <2>4, <2>5, <2>6, <2>7, <2>8, <2>9 DEF DoAPICall
<1>6. CASE Answer
  <2>1. PICK r \in asked :
          inbox' = [inbox EXCEPT ![r.conn] = Append(@, [for |-> r.for, kind |-> r.kind, sid |-> r.sid])]
    BY <1>6 DEF Answer
  <2>2. r.conn \in Conns /\ [for |-> r.for, kind |-> r.kind, sid |-> r.sid] \in Frame
    BY DEF Request, Frame
  <2>3. \A k \in Conns : inbox[k] # <<>> => inbox'[k] # <<>>
    BY <2>1, <2>2, AtEnd, SMTT(30)
  <2> QED BY <1>6, <2>3 DEF Answer
<1>7. CASE UNCHANGED vars
  BY <1>7 DEF vars, loopVars
<1> QED BY <1>2, <1>3, <1>4, <1>5, <1>6, <1>7 DEF Next

(* Connections are never unmade.                                           *)
LEMMA ChosenStep ==
  ASSUME TypeOK, Numbering, Chosen, [Next]_vars
  PROVE  Chosen'
<1> USE DEF TypeOK, DriverOK, CallsOK, callVars, driverVars, Conns, Chosen
<1>1. CASE Driver
  BY <1>1 DEF Driver, Connect, DialFails, Established, InstallUpdaterDispatch, Disconnect, Take, Close
<1>2. ASSUME NEW k \in Conns, ReadLoop(k) \/ Drop(k)
      PROVE  Chosen'
  BY <1>2 DEF ReadLoop, Dispatch, Dispatched, LoopExit, SignalLost, Deliver, Drop
<1>3. ASSUME NEW c \in Callers, Begin(c) \/ DoAPICall(c) \/ Timeout(c)
      PROVE  Chosen'
  <2>1. made' = made
    BY <1>3 DEF Begin, DoAPICall, Timeout, Register, Write, Send, SendInVain, Watch, Wake, Leave
  <2>2. via'[c] \in {via[c], tlsConn, 0}
    BY <1>3 DEF Begin, DoAPICall, Timeout, Register, Write, Send, SendInVain, Watch, Wake, Leave
  <2>3. \A d \in Callers : d # c => via'[d] = via[d]
    BY <1>3 DEF Begin, DoAPICall, Timeout, Register, Write, Send, SendInVain, Watch, Wake, Leave
  <2> QED BY <2>1, <2>2, <2>3 DEF Numbering
<1>4. CASE Answer
  BY <1>4 DEF Answer
<1>5. CASE UNCHANGED vars
  BY <1>5 DEF vars
<1> QED BY <1>1, <1>2, <1>3, <1>4, <1>5 DEF Next

(* Closing a connection and finishing a dispatch only take frames away.    *)
LEMMA NothingAppears ==
  ASSUME TypeOK, Calling, NEW k \in Conns, CutOff(k) \/ Dispatched(k)
  PROVE  /\ asked' \subseteq asked
         /\ \A j \in Conns : \A i \in DOMAIN inbox'[j] :
              \E h \in DOMAIN inbox[j] : inbox'[j][i] = inbox[j][h]
<1> USE DEF TypeOK, LoopsOK
<1>1. inbox[k] \in Seq(Frame)
  OBVIOUS
<1>2. CASE CutOff(k)
  <2>1. PICK n \in 0 .. Len(inbox[k]) : inbox' = [inbox EXCEPT ![k] = SubSeq(@, 1, n)]
    BY <1>2 DEF CutOff
  <2>2. DOMAIN SubSeq(inbox[k], 1, n) = 1 .. n
        /\ \A i \in 1 .. n : SubSeq(inbox[k], 1, n)[i] = inbox[k][i] /\ i \in DOMAIN inbox[k]
    BY <1>1, Prefix
  <2> QED BY <1>2, <2>1, <2>2 DEF CutOff
<1>3. CASE Dispatched(k)
  <2>1. \A i \in DOMAIN Tail(inbox[k]) :
          i + 1 \in DOMAIN inbox[k] /\ Tail(inbox[k])[i] = inbox[k][i + 1]
    BY <1>1, <1>3, WithoutHead DEF Dispatched, Calling
  <2>2. \A j \in Conns : inbox'[j] = IF j = k THEN Tail(inbox[k]) ELSE inbox[j]
    BY <1>3 DEF Dispatched
  <2> QED BY <1>3, <2>1, <2>2 DEF Dispatched
<1> QED BY <1>2, <1>3

(* An answer takes the place of its request.                               *)
LEMMA AnswerMoves ==
  ASSUME TypeOK, Answer
  PROVE  \E r \in asked :
           /\ asked' = asked \ {r} /\ r.conn \in Conns
           /\ Len(inbox[r.conn]) + 1 \in DOMAIN inbox'[r.conn]
           /\ inbox'[r.conn][Len(inbox[r.conn]) + 1] = [for |-> r.for, kind |-> r.kind, sid |-> r.sid]
           /\ \A k \in Conns : \A i \in DOMAIN inbox[k] :
                i \in DOMAIN inbox'[k] /\ inbox'[k][i] = inbox[k][i]
           /\ \A k \in Conns : \A i \in DOMAIN inbox'[k] :
                i \in DOMAIN inbox[k] \/ (k = r.conn /\ i = Len(inbox[r.conn]) + 1)
<1> USE DEF TypeOK, LoopsOK, CallsOK
<1>1. PICK r \in asked :
        /\ asked' = asked \ {r}
        /\ inbox' = [inbox EXCEPT ![r.conn] = Append(@, [for |-> r.for, kind |-> r.kind, sid |-> r.sid])]
  BY DEF Answer
<1> DEFINE f == [for |-> r.for, kind |-> r.kind, sid |-> r.sid]
           q == inbox[r.conn]
<1>2. r.conn \in Conns /\ f \in Frame
  BY DEF Request, Frame
<1>3. q \in Seq(Frame)
  BY <1>2
<1>4. /\ DOMAIN Append(q, f) = 1 .. Len(q) + 1 /\ DOMAIN q = 1 .. Len(q) /\ Len(q) \in Nat
      /\ Append(q, f)[Len(q) + 1] = f
      /\ \A i \in DOMAIN q : Append(q, f)[i] = q[i]
  BY <1>2, <1>3, AtEnd
<1>5. \A k \in Conns : inbox'[k] = IF k = r.conn THEN Append(q, f) ELSE inbox[k]
  BY <1>1
<1>6. inbox'[r.conn] = Append(q, f)
  BY <1>2, <1>5
<1>7. Len(q) + 1 \in DOMAIN Append(q, f)
  BY <1>4
<1>8. \A i \in DOMAIN Append(q, f) : i \in DOMAIN q \/ i = Len(q) + 1
  BY <1>4
<1>9. \A i \in DOMAIN q : i \in DOMAIN Append(q, f)
  BY <1>4
<1>10. \A k \in Conns : \A i \in DOMAIN inbox[k] :
          i \in DOMAIN inbox'[k] /\ inbox'[k][i] = inbox[k][i]
  BY <1>4, <1>5, <1>9
<1>11. \A k \in Conns : \A i \in DOMAIN inbox'[k] :
          i \in DOMAIN inbox[k] \/ (k = r.conn /\ i = Len(q) + 1)
  BY <1>5, <1>8
<1>12. inbox'[r.conn][Len(q) + 1] = f
  BY <1>4, <1>6
<1> HIDE DEF f, q
<1>13. Len(q) + 1 \in DOMAIN inbox'[r.conn]
  BY <1>6, <1>7
<1> QED BY <1>1, <1>2, <1>10, <1>11, <1>12, <1>13 DEF f, q

(* Forgetting a caller changes nothing but whose a frame is.               *)
LEMMA ForgetOnly ==
  ASSUME NEW c \in Callers, NEW f \in Frame \cup Request
  PROVE  /\ Forget(c, f).for # c
         /\ \A d \in Callers : Forget(c, f).for = d <=> d # c /\ f.for = d
         /\ Forget(c, f).kind = f.kind /\ Forget(c, f).sid = f.sid
         /\ f \in Request => Forget(c, f).conn = f.conn
BY ConnAssumption DEF Forget, Request, Frame

(* A frame or request for a caller belongs to the call it is in.           *)
LEMMA OriginsStep ==
  ASSUME TypeOK, Sessions, Calling, Origins, [Next]_vars
  PROVE  Origins'
<1> USE DEF TypeOK, LoopsOK, CallsOK, callVars
<1>1. ASSUME asked' \subseteq asked,
             \A j \in Conns : \A i \in DOMAIN inbox'[j] :
               \E h \in DOMAIN inbox[j] : inbox'[j][i] = inbox[j][h],
             \A c \in Callers : Exchanges(c) => Exchanges(c)',
             \A c \in Callers : Exchanges(c) => via'[c] = via[c] /\ kind'[c] = kind[c] /\ sid'[c] = sid[c]
      PROVE  Origins'
  <2>1. ASSUME NEW r \in asked', NEW c \in Callers, r.for = c
        PROVE  Exchanges(c)' /\ r.conn = via'[c] /\ r.kind = kind'[c] /\ r.sid = sid'[c]
    BY <1>1, <2>1, SMTT(30) DEF Origins
  <2>2. ASSUME NEW k \in Conns, NEW i \in DOMAIN inbox'[k], NEW c \in Callers, inbox'[k][i].for = c
        PROVE  Exchanges(c)' /\ k = via'[c] /\ inbox'[k][i].kind = kind'[c] /\ inbox'[k][i].sid = sid'[c]
    <3>1. PICK h \in DOMAIN inbox[k] : inbox'[k][i] = inbox[k][h]
      BY <1>1
    <3>2. Exchanges(c) /\ k = via[c] /\ inbox[k][h].kind = kind[c] /\ inbox[k][h].sid = sid[c]
      BY <2>2, <3>1, SMTT(30) DEF Origins
    <3> QED BY <1>1, <3>1, <3>2
  <2> QED BY <2>1, <2>2 DEF Origins
<1>2. ASSUME NEW k \in Conns, CutOff(k), UNCHANGED callVars
      PROVE  Origins'
  BY <1>1, <1>2, NothingAppears DEF Exchanges
<1>3. CASE Driver
  <2>1. CASE Connect \/ DialFails \/ InstallUpdaterDispatch \/ Disconnect \/ Take
    BY <2>1, <1>1 DEF Connect, DialFails, InstallUpdaterDispatch, Disconnect, Take, loopVars, Exchanges
  <2>2. CASE Established
    BY <2>2, <1>1 DEF Established, Exchanges
  <2>3. CASE Close
    <3>1. taken \in Conns
      BY <2>3 DEF Close, Sessions, DriverOK
    <3> QED BY <2>3, <3>1, <1>2 DEF Close
  <2> QED BY <1>3, <2>1, <2>2, <2>3 DEF Driver
<1>4. ASSUME NEW k \in Conns, ReadLoop(k)
      PROVE  Origins'
  <2>1. CASE Dispatched(k)
    <3>1. \A j \in Conns : \A i \in DOMAIN inbox'[j] :
            \E h \in DOMAIN inbox[j] : inbox'[j][i] = inbox[j][h]
      BY <2>1, NothingAppears
    <3> QED BY <2>1, <3>1, <1>1 DEF Dispatched, Exchanges
  <2>2. CASE Dispatch(k) \/ LoopExit(k) \/ SignalLost(k)
    BY <2>2, <1>1 DEF Dispatch, LoopExit, SignalLost, Exchanges
  <2>3. ASSUME NEW c \in Callers, Deliver(k, c)
        PROVE  Origins'
    BY <2>3, <1>1 DEF Deliver, Exchanges
  <2> QED BY <1>4, <2>1, <2>2, <2>3 DEF ReadLoop
<1>5. ASSUME NEW k \in Conns, Drop(k)
      PROVE  Origins'
  BY <1>5, <1>2 DEF Drop
<1>6. ASSUME NEW c \in Callers, Begin(c) \/ DoAPICall(c) \/ Timeout(c)
      PROVE  Origins'
  <2>1. CASE Begin(c)
    BY <2>1, <1>1 DEF Begin, loopVars, Exchanges
  <2>2. CASE Register(c) \/ SendInVain(c) \/ Watch(c) \/ Wake(c) \/ Timeout(c)
    BY <2>2, <1>1 DEF Register, SendInVain, Watch, Wake, Timeout, loopVars, Exchanges
  <2>3. CASE Write(c)
    BY <2>3, <1>1 DEF Write, loopVars, Exchanges
  <2>4. CASE Send(c)
    <3> DEFINE new == [conn |-> via[c], for |-> c, kind |-> kind[c], sid |-> sid[c]]
    <3>1. /\ asked' = asked \cup {new}
          /\ UNCHANGED <<inbox, kind, sid, via>> /\ pc' = [pc EXCEPT ![c] = "watch"]
      BY <2>4 DEF Send, loopVars
    <3>2. \A d \in Callers : Exchanges(d) => Exchanges(d)'
      BY <3>1 DEF Exchanges
    <3>3. Exchanges(c)'
      BY <3>1 DEF Exchanges
    <3>4. \A d \in Callers : new.for = d => Exchanges(d)' /\ new.conn = via'[d] /\ new.kind = kind'[d]
                                            /\ new.sid = sid'[d]
      BY <3>1, <3>3
    <3> HIDE DEF new
    <3> QED BY <3>1, <3>2, <3>4 DEF Origins
  <2>5. CASE Leave(c)
    <3>1. /\ asked' = {Forget(c, r) : r \in asked}
          /\ inbox' = [k \in Conns |-> [i \in DOMAIN inbox[k] |-> Forget(c, inbox[k][i])]]
          /\ \A d \in Callers : d # c => via'[d] = via[d] /\ kind'[d] = kind[d] /\ sid'[d] = sid[d]
                                         /\ pc'[d] = pc[d]
      BY <2>5 DEF Leave
    <3>2. ASSUME NEW r \in asked', NEW d \in Callers, r.for = d
          PROVE  Exchanges(d)' /\ r.conn = via'[d] /\ r.kind = kind'[d] /\ r.sid = sid'[d]
      <4>1. PICK s \in asked : r = Forget(c, s)
        BY <3>1, <3>2
      <4>2. s \in Request
        OBVIOUS
      <4>3. d # c /\ s.for = d /\ r.conn = s.conn /\ r.kind = s.kind /\ r.sid = s.sid
        BY <3>2, <4>1, <4>2, ForgetOnly DEF Request
      <4>4. Exchanges(d) /\ s.conn = via[d] /\ s.kind = kind[d] /\ s.sid = sid[d]
        BY <4>3 DEF Origins
      <4> QED BY <3>1, <4>3, <4>4 DEF Exchanges
    <3>3. ASSUME NEW k \in Conns, NEW i \in DOMAIN inbox'[k], NEW d \in Callers, inbox'[k][i].for = d
          PROVE  Exchanges(d)' /\ k = via'[d] /\ inbox'[k][i].kind = kind'[d] /\ inbox'[k][i].sid = sid'[d]
      <4>1. i \in DOMAIN inbox[k] /\ inbox'[k][i] = Forget(c, inbox[k][i])
        BY <3>1, <3>3
      <4>2. inbox[k] \in Seq(Frame)
        OBVIOUS
      <4>3. inbox[k][i] \in Frame
        BY <4>1, <4>2
      <4>4. /\ d # c /\ inbox[k][i].for = d /\ inbox'[k][i].kind = inbox[k][i].kind
            /\ inbox'[k][i].sid = inbox[k][i].sid
        BY <3>3, <4>1, <4>3, ForgetOnly DEF Frame
      <4>5. Exchanges(d) /\ k = via[d] /\ inbox[k][i].kind = kind[d] /\ inbox[k][i].sid = sid[d]
        BY <4>1, <4>4 DEF Origins
      <4> QED BY <3>1, <4>4, <4>5 DEF Exchanges
    <3> QED BY <3>2, <3>3 DEF Origins
  <2> QED BY <1>6, <2>1, <2>2, <2>3, <2>4, <2>5 DEF DoAPICall
<1>7. CASE Answer
  <2>1. PICK r \in asked :
          /\ asked' = asked \ {r} /\ r.conn \in Conns
          /\ inbox'[r.conn][Len(inbox[r.conn]) + 1] = [for |-> r.for, kind |-> r.kind, sid |-> r.sid]
          /\ \A k \in Conns : \A i \in DOMAIN inbox[k] :
               i \in DOMAIN inbox'[k] /\ inbox'[k][i] = inbox[k][i]
          /\ \A k \in Conns : \A i \in DOMAIN inbox'[k] :
               i \in DOMAIN inbox[k] \/ (k = r.conn /\ i = Len(inbox[r.conn]) + 1)
    BY <1>7, AnswerMoves
  <2>2. UNCHANGED callVars
    BY <1>7 DEF Answer
  <2>3. ASSUME NEW k \in Conns, NEW i \in DOMAIN inbox'[k], NEW c \in Callers, inbox'[k][i].for = c
        PROVE  Exchanges(c) /\ k = via[c] /\ inbox'[k][i].kind = kind[c] /\ inbox'[k][i].sid = sid[c]
    <3>1. CASE i \in DOMAIN inbox[k]
      <4>1. inbox'[k][i] = inbox[k][i]
        BY <2>1, <3>1
      <4>2. inbox[k][i].for = c
        BY <2>3, <4>1
      <4>3. Exchanges(c) /\ k = via[c] /\ inbox[k][i].kind = kind[c] /\ inbox[k][i].sid = sid[c]
        BY <3>1, <4>2 DEF Origins
      <4> QED BY <4>1, <4>3
    <3>2. CASE k = r.conn /\ i = Len(inbox[r.conn]) + 1
      <4>1. inbox'[k][i] = [for |-> r.for, kind |-> r.kind, sid |-> r.sid]
        BY <2>1, <3>2
      <4>2. r.for = c
        BY <2>3, <4>1
      <4>3. Exchanges(c) /\ r.conn = via[c] /\ r.kind = kind[c] /\ r.sid = sid[c]
        BY <4>2 DEF Origins
      <4> QED BY <3>2, <4>1, <4>3
    <3> QED BY <2>1, <3>1, <3>2
  <2> QED BY <2>1, <2>2, <2>3 DEF Origins, Exchanges
<1>8. CASE UNCHANGED vars
  BY <1>8, <1>1 DEF vars, loopVars, Exchanges
<1> QED BY <1>3, <1>4, <1>5, <1>6, <1>7, <1>8 DEF Next

(* Nobody else uses the session id of a call, so nothing else completes it.*)
LEMMA CorrelationStep ==
  ASSUME TypeOK, Sessions, Calling, Correlation, [Next]_vars
  PROVE  Correlation'
<1> USE DEF TypeOK, LoopsOK, CallsOK, callVars
<1>1. ASSUME asked' \subseteq asked,
             \A j \in Conns : \A i \in DOMAIN inbox'[j] :
               \E h \in DOMAIN inbox[j] : inbox'[j][i] = inbox[j][h],
             \A c \in Callers : Active(c)' => Active(c) /\ sid'[c] = sid[c],
             OwnAnswersOnly'
      PROVE  Correlation'
  <2>1. \A c, d \in Callers : Active(c)' /\ Active(d)' /\ sid'[c] = sid'[d] => c = d
    BY <1>1 DEF Correlation
  <2>2. \A r \in asked' : \A c \in Callers : Active(c)' /\ r.sid = sid'[c] => r.for = c
    BY <1>1 DEF Correlation
  <2>3. ASSUME NEW k \in Conns, NEW i \in DOMAIN inbox'[k], NEW c \in Callers,
               Active(c)', inbox'[k][i].sid = sid'[c]
        PROVE  inbox'[k][i].for = c
    <3>1. PICK h \in DOMAIN inbox[k] : inbox'[k][i] = inbox[k][h]
      BY <1>1
    <3>2. inbox[k][h].sid = sid[c] /\ Active(c)
      BY <1>1, <2>3, <3>1
    <3> QED BY <3>1, <3>2 DEF Correlation
  <2> QED BY <1>1, <2>1, <2>2, <2>3 DEF Correlation
<1>2. ASSUME kind' = kind, heard' = heard
      PROVE  OwnAnswersOnly'
  BY <1>2 DEF Correlation, OwnAnswersOnly
<1>3. ASSUME NEW k \in Conns, CutOff(k), UNCHANGED callVars
      PROVE  Correlation'
  <2>1. OwnAnswersOnly'
    BY <1>2, <1>3
  <2> QED BY <1>1, <1>3, <2>1, NothingAppears DEF Active
<1>4. CASE Driver
  <2>1. CASE Connect \/ DialFails \/ InstallUpdaterDispatch \/ Disconnect \/ Take
    BY <2>1, <1>1, <1>2 DEF Connect, DialFails, InstallUpdaterDispatch, Disconnect, Take, loopVars, Active
  <2>2. CASE Established
    BY <2>2, <1>1, <1>2 DEF Established, Active
  <2>3. CASE Close
    <3>1. taken \in Conns
      BY <2>3 DEF Close, Sessions, DriverOK
    <3> QED BY <2>3, <3>1, <1>3 DEF Close
  <2> QED BY <1>4, <2>1, <2>2, <2>3 DEF Driver
<1>5. ASSUME NEW k \in Conns, ReadLoop(k)
      PROVE  Correlation'
  <2>1. CASE Dispatched(k)
    <3>1. \A j \in Conns : \A i \in DOMAIN inbox'[j] :
            \E h \in DOMAIN inbox[j] : inbox'[j][i] = inbox[j][h]
      BY <2>1, NothingAppears
    <3> QED BY <2>1, <3>1, <1>1, <1>2 DEF Dispatched, Active
  <2>2. CASE Dispatch(k) \/ LoopExit(k) \/ SignalLost(k)
    BY <2>2, <1>1, <1>2 DEF Dispatch, LoopExit, SignalLost, Active
  <2>3. ASSUME NEW c \in Callers, Deliver(k, c)
        PROVE  Correlation'
    <3> DEFINE f == Head(inbox[k])
    <3>1. inbox[k] \in Seq(Frame) /\ inbox[k] # <<>>
      BY <2>3 DEF Deliver, Calling
    <3>2. f = inbox[k][1] /\ 1 \in DOMAIN inbox[k]
      BY <3>1
    <3>3. Active(c)
      BY <2>3 DEF Deliver, Calling, Active
    <3>4. kind[c] = "session" /\ Matches(c, f) => Origin(c, f) = "own"
      BY <3>2, <3>3 DEF Matches, Origin, Correlation
    <3> HIDE DEF f
    <3>5. heard' = IF Matches(c, f) THEN [heard EXCEPT ![c] = @ \cup {Origin(c, f)}] ELSE heard
      BY <2>3 DEF Deliver, f
    <3>6. kind' = kind
      BY <2>3 DEF Deliver
    <3>7. \A d \in Callers : d # c => heard'[d] = heard[d]
      BY <3>5
    <3>8. "foreign" \in heard'[c] => "foreign" \in heard[c] \/ (Matches(c, f) /\ Origin(c, f) = "foreign")
      BY <3>5
    <3>9. OwnAnswersOnly'
      BY <3>4, <3>6, <3>7, <3>8 DEF OwnAnswersOnly, Correlation
    <3> QED BY <2>3, <3>9, <1>1 DEF Deliver, Active
  <2> QED BY <1>5, <2>1, <2>2, <2>3 DEF ReadLoop
<1>6. ASSUME NEW k \in Conns, Drop(k)
      PROVE  Correlation'
  BY <1>6, <1>3 DEF Drop
<1>7. ASSUME NEW c \in Callers, Begin(c) \/ DoAPICall(c) \/ Timeout(c)
      PROVE  Correlation'
  <2>1. CASE Begin(c)
    <3> DEFINE s == NewSessionID(lastSid)
    <3>1. /\ pc[c] = "idle" /\ ~InUse(s)
          /\ sid' = [sid EXCEPT ![c] = s]
          /\ UNCHANGED <<asked, inbox, heard>>
          /\ \A d \in Callers : d # c => kind'[d] = kind[d] /\ pc'[d] = pc[d]
      BY <2>1 DEF Begin, loopVars
    <3> HIDE DEF s
    <3>2. \A d \in Callers : d # c /\ Active(d) => sid[d] # s
      BY <3>1 DEF InUse, Active
    <3>3. \A r \in asked : r.sid # s
      BY <3>1 DEF InUse
    <3>4. \A k \in Conns : \A i \in DOMAIN inbox[k] : inbox[k][i].sid # s
      BY <3>1 DEF InUse
    <3>5. \A d \in Callers : d # c => (Active(d)' <=> Active(d)) /\ sid'[d] = sid[d]
      BY <3>1 DEF Active
    <3>6. sid'[c] = s
      BY <3>1
    <3>7. \A d, e \in Callers : Active(d)' /\ Active(e)' /\ sid'[d] = sid'[e] => d = e
      BY <3>2, <3>5, <3>6 DEF Correlation
    <3>8. \A r \in asked' : \A d \in Callers : Active(d)' /\ r.sid = sid'[d] => r.for = d
      BY <3>1, <3>3, <3>5, <3>6 DEF Correlation
    <3>9. \A k \in Conns : \A i \in DOMAIN inbox'[k] : \A d \in Callers :
            Active(d)' /\ inbox'[k][i].sid = sid'[d] => inbox'[k][i].for = d
      BY <3>1, <3>4, <3>5, <3>6 DEF Correlation
    <3>10. heard[c] = {}
      BY <3>1 DEF Calling
    <3>11. OwnAnswersOnly'
      BY <3>1, <3>10 DEF OwnAnswersOnly, Correlation
    <3> QED BY <3>7, <3>8, <3>9, <3>11 DEF Correlation
  <2>2. CASE Register(c) \/ SendInVain(c) \/ Watch(c) \/ Wake(c) \/ Timeout(c)
    BY <2>2, <1>1, <1>2 DEF Register, SendInVain, Watch, Wake, Timeout, loopVars, Active
  <2>3. CASE Write(c)
    BY <2>3, <1>1, <1>2 DEF Write, loopVars, Active
  <2>4. CASE Send(c)
    <3> DEFINE new == [conn |-> via[c], for |-> c, kind |-> kind[c], sid |-> sid[c]]
    <3>1. /\ pc[c] = "send" /\ pc' = [pc EXCEPT ![c] = "watch"]
          /\ asked' = asked \cup {new}
          /\ UNCHANGED <<inbox, kind, sid, heard>>
      BY <2>4 DEF Send, loopVars
    <3>2. \A d \in Callers : Active(d)' <=> Active(d)
      BY <3>1 DEF Active
    <3>3. new.for = c /\ new.sid = sid[c]
      OBVIOUS
    <3> HIDE DEF new
    <3>4. Active(c)
      BY <3>1 DEF Active
    <3>5. \A d \in Callers : Active(d)' /\ new.sid = sid'[d] => new.for = d
      BY <3>1, <3>2, <3>3, <3>4 DEF Correlation
    <3>6. OwnAnswersOnly'
      BY <3>1, <1>2
    <3>7. \A r \in asked' : \A d \in Callers : Active(d)' /\ r.sid = sid'[d] => r.for = d
      BY <3>1, <3>2, <3>5 DEF Correlation
    <3> QED BY <3>1, <3>2, <3>6, <3>7 DEF Correlation
  <2>5. CASE Leave(c)
    <3>1. /\ asked' = {Forget(c, r) : r \in asked}
          /\ inbox' = [k \in Conns |-> [i \in DOMAIN inbox[k] |-> Forget(c, inbox[k][i])]]
          /\ pc' = [pc EXCEPT ![c] = "idle"]
          /\ kind' = [kind EXCEPT ![c] = "session"]
          /\ heard' = [heard EXCEPT ![c] = {}]
          /\ sid' = [sid EXCEPT ![c] = 1]
      BY <2>5 DEF Leave
    <3>2. \A d \in Callers : Active(d)' => d # c /\ Active(d) /\ sid'[d] = sid[d]
      BY <3>1 DEF Active
    <3>3. ASSUME NEW r \in asked', NEW d \in Callers, Active(d)', r.sid = sid'[d]
          PROVE  r.for = d
      <4>1. PICK s \in asked : r = Forget(c, s)
        BY <3>1
      <4>2. s \in Request
        OBVIOUS
      <4>3. s.sid = r.sid
        BY <4>1, <4>2, ForgetOnly
      <4>4. s.for = d
        BY <3>2, <3>3, <4>3 DEF Correlation
      <4> QED BY <3>2, <3>3, <4>1, <4>2, <4>4, ForgetOnly
    <3>4. ASSUME NEW k \in Conns, NEW i \in DOMAIN inbox'[k], NEW d \in Callers,
                 Active(d)', inbox'[k][i].sid = sid'[d]
          PROVE  inbox'[k][i].for = d
      <4>1. i \in DOMAIN inbox[k] /\ inbox'[k][i] = Forget(c, inbox[k][i])
        BY <3>1
      <4>2. inbox[k] \in Seq(Frame)
        OBVIOUS
      <4>3. inbox[k][i] \in Frame
        BY <4>1, <4>2
      <4>4. inbox[k][i].sid = sid[d]
        BY <3>2, <3>4, <4>1, <4>3, ForgetOnly
      <4>5. inbox[k][i].for = d
        BY <3>2, <3>4, <4>1, <4>4 DEF Correlation
      <4> QED BY <3>2, <3>4, <4>1, <4>3, <4>5, ForgetOnly
    <3>5. OwnAnswersOnly'
      BY <3>1 DEF OwnAnswersOnly, Correlation
    <3> QED BY <3>2, <3>3, <3>4, <3>5 DEF Correlation
  <2> QED BY <1>7, <2>1, <2>2, <2>3, <2>4, <2>5 DEF DoAPICall
<1>8. CASE Answer
  <2>1. PICK r \in asked :
          /\ asked' = asked \ {r} /\ r.conn \in Conns
          /\ inbox'[r.conn][Len(inbox[r.conn]) + 1] = [for |-> r.for, kind |-> r.kind, sid |-> r.sid]
          /\ \A k \in Conns : \A i \in DOMAIN inbox[k] :
               i \in DOMAIN inbox'[k] /\ inbox'[k][i] = inbox[k][i]
          /\ \A k \in Conns : \A i \in DOMAIN inbox'[k] :
               i \in DOMAIN inbox[k] \/ (k = r.conn /\ i = Len(inbox[r.conn]) + 1)
    BY <1>8, AnswerMoves
  <2>2. UNCHANGED callVars
    BY <1>8 DEF Answer
  <2>3. ASSUME NEW k \in Conns, NEW i \in DOMAIN inbox'[k], NEW c \in Callers,
               Active(c), inbox'[k][i].sid = sid[c]
        PROVE  inbox'[k][i].for = c
    <3>1. CASE i \in DOMAIN inbox[k]
      <4>1. inbox'[k][i] = inbox[k][i]
        BY <2>1, <3>1
      <4> QED BY <2>3, <3>1, <4>1 DEF Correlation
    <3>2. CASE k = r.conn /\ i = Len(inbox[r.conn]) + 1
      <4>1. inbox'[k][i] = [for |-> r.for, kind |-> r.kind, sid |-> r.sid]
        BY <2>1, <3>2
      <4>2. r.sid = sid[c]
        BY <2>3, <4>1
      <4> QED BY <2>3, <4>1, <4>2 DEF Correlation
    <3> QED BY <2>1, <3>1, <3>2
  <2>4. OwnAnswersOnly'
    BY <2>2, <1>2
  <2> QED BY <2>1, <2>2, <2>3, <2>4 DEF Correlation, Active
<1>9. CASE UNCHANGED vars
  BY <1>9, <1>1, <1>2 DEF vars, loopVars, Active
<1> QED BY <1>4, <1>5, <1>6, <1>7, <1>8, <1>9 DEF Next

(* An answer that is on its way stays on its way until its caller has it.  *)
LEMMA MissedStep ==
  ASSUME TypeOK, Numbering, Sessions, Calling, Chosen, Origins, NoMissedAnswer, [Next]_vars
  PROVE  NoMissedAnswer'
<1> USE DEF TypeOK, LoopsOK, CallsOK, callVars
<1> DEFINE Waits(c) == pc[c] \in {"watch", "wait"} /\ socket[via[c]] = "open"
<1>1. ASSUME NEW c \in Callers, Waits(c)' => Waits(c),
             asked \subseteq asked', inbox' = inbox,
             \A k \in Conns : loop'[k] = "dispatch" => loop[k] = "dispatch" /\ (c \in left[k] => c \in left'[k]),
             heard[c] \subseteq heard'[c]
      PROVE  Waits(c)' => OnTheWay(c)' \/ heard'[c] # {}
  <2>1. SUFFICES ASSUME OnTheWay(c) PROVE OnTheWay(c)'
    BY <1>1 DEF NoMissedAnswer
  <2> QED BY <1>1, <2>1 DEF OnTheWay
<1>2. ASSUME \A c \in Callers : Waits(c)' => OnTheWay(c)' \/ heard'[c] # {}
      PROVE  NoMissedAnswer'
  BY <1>2 DEF NoMissedAnswer
<1> HIDE DEF Waits
<1>3. ASSUME NEW k \in Conns, CutOff(k), UNCHANGED <<loop, left, callVars>>,
             socket'[k] # "open", \A j \in Conns : j # k => socket'[j] = socket[j]
      PROVE  NoMissedAnswer'
  <2>1. SUFFICES ASSUME NEW c \in Callers, Waits(c)' PROVE OnTheWay(c)' \/ heard'[c] # {}
    BY <1>2
  <2>2. via[c] \in Conns /\ via[c] # k
    BY <1>3, <2>1 DEF Waits, Calling
  <2>3. Waits(c)
    BY <1>3, <2>1, <2>2 DEF Waits
  <2>4. CASE heard[c] # {}
    BY <1>3, <2>4
  <2>5. CASE \E r \in asked : r.for = c
    <3>1. PICK r \in asked : r.for = c
      BY <2>5
    <3>2. r.conn # k
      BY <2>2, <3>1 DEF Origins
    <3>3. r \in asked'
      BY <1>3, <3>2 DEF CutOff
    <3> QED BY <3>1, <3>3 DEF OnTheWay
  <2>6. ASSUME NEW j \in Conns, NEW i \in DOMAIN inbox[j], inbox[j][i].for = c,
               i = 1 /\ loop[j] = "dispatch" => c \in left[j]
        PROVE  OnTheWay(c)'
    <3>1. j = via[c]
      BY <2>6 DEF Origins
    <3>2. inbox'[j] = inbox[j]
      BY <1>3, <2>2, <3>1 DEF CutOff
    <3> QED BY <1>3, <2>6, <3>2 DEF OnTheWay
  <2> QED BY <2>3, <2>4, <2>5, <2>6 DEF NoMissedAnswer, OnTheWay, Waits
<1>4. CASE Driver
  <2>1. CASE Connect \/ DialFails \/ InstallUpdaterDispatch \/ Disconnect \/ Take
    <3>1. UNCHANGED <<loopVars, callVars, asked>>
      BY <2>1 DEF Connect, DialFails, InstallUpdaterDispatch, Disconnect, Take
    <3>2. \A c \in Callers : Waits(c)' => Waits(c)
      BY <3>1 DEF Waits, loopVars
    <3> QED BY <3>1, <3>2, <1>1, <1>2 DEF loopVars
  <2>2. CASE Established
    <3>1. /\ UNCHANGED <<inbox, left, pc, via, heard, asked>>
          /\ socket' = [socket EXCEPT ![made + 1] = "open"]
          /\ loop' = [loop EXCEPT ![made + 1] = "read"]
      BY <2>2 DEF Established
    <3>2. \A c \in Callers : via[c] # made + 1
      BY DEF Chosen, Conns, DriverOK
    <3>3. \A c \in Callers : pc[c] \in {"watch", "wait"} => via[c] \in Conns
      BY DEF Calling
    <3>4. \A c \in Callers : Waits(c)' => Waits(c)
      BY <3>1, <3>2, <3>3 DEF Waits
    <3>5. \A k \in Conns : loop'[k] = "dispatch" => loop[k] = "dispatch"
      BY <3>1
    <3> QED BY <3>1, <3>4, <3>5, <1>1, <1>2
  <2>3. CASE Close
    <3>1. taken \in Conns
      BY <2>3 DEF Close, Sessions, DriverOK
    <3> QED BY <2>3, <3>1, <1>3 DEF Close
  <2> QED BY <1>4, <2>1, <2>2, <2>3 DEF Driver
<1>5. ASSUME NEW k \in Conns, ReadLoop(k)
      PROVE  NoMissedAnswer'
  <2>1. ASSUME UNCHANGED <<pc, via, socket>>, NEW c \in Callers
        PROVE  Waits(c)' <=> Waits(c)
    BY <2>1 DEF Waits
  <2>2. CASE LoopExit(k) \/ SignalLost(k)
    <3>1. /\ UNCHANGED <<pc, via, socket, heard, asked, inbox, left>>
          /\ \A j \in Conns : loop'[j] = "dispatch" => loop[j] = "dispatch"
      BY <2>2 DEF LoopExit, SignalLost
    <3> QED BY <2>1, <3>1, <1>1, <1>2
  <2>3. CASE Dispatch(k)
    <3>1. /\ UNCHANGED <<pc, via, socket, heard, asked, inbox>>
          /\ loop' = [loop EXCEPT ![k] = "dispatch"] /\ left' = [left EXCEPT ![k] = callbacks]
      BY <2>3 DEF Dispatch
    <3>2. ASSUME NEW c \in Callers, Waits(c)'
          PROVE  OnTheWay(c)' \/ heard'[c] # {}
      <4>1. Waits(c) /\ c \in callbacks
        BY <2>1, <3>1, <3>2 DEF Waits, Calling
      <4>2. c \in left'[k] /\ \A j \in Conns : j # k => loop'[j] = loop[j] /\ left'[j] = left[j]
        BY <3>1, <4>1
      <4>3. OnTheWay(c) => OnTheWay(c)'
        BY <3>1, <4>2 DEF OnTheWay
      <4> QED BY <3>1, <4>1, <4>3 DEF NoMissedAnswer, Waits
    <3> QED BY <3>2, <1>2
  <2>4. CASE Dispatched(k)
    <3>1. /\ UNCHANGED <<pc, via, socket, heard, asked, left>>
          /\ loop[k] = "dispatch" /\ left[k] = {}
          /\ loop' = [loop EXCEPT ![k] = "read"] /\ inbox' = [inbox EXCEPT ![k] = Tail(@)]
      BY <2>4 DEF Dispatched
    <3>2. inbox[k] \in Seq(Frame) /\ inbox[k] # <<>>
      BY <3>1 DEF Calling
    <3>3. \A i \in DOMAIN inbox[k] :
            i # 1 => i - 1 \in DOMAIN Tail(inbox[k]) /\ Tail(inbox[k])[i - 1] = inbox[k][i]
      BY <3>2, WithoutHead
    <3>4. ASSUME NEW c \in Callers, Waits(c)'
          PROVE  OnTheWay(c)' \/ heard'[c] # {}
      <4>1. ASSUME NEW j \in Conns, NEW i \in DOMAIN inbox[j], inbox[j][i].for = c,
                   i = 1 /\ loop[j] = "dispatch" => c \in left[j]
            PROVE  OnTheWay(c)'
        <5>1. CASE j = k
          <6>1. i # 1
            BY <3>1, <4>1, <5>1
          <6>2. i - 1 \in DOMAIN inbox'[k] /\ inbox'[k][i - 1].for = c
            BY <3>1, <3>3, <4>1, <5>1, <6>1
          <6>3. loop'[k] # "dispatch"
            BY <3>1
          <6> QED BY <6>2, <6>3 DEF OnTheWay
        <5>2. CASE j # k
          <6>1. inbox'[j] = inbox[j] /\ loop'[j] = loop[j] /\ left'[j] = left[j]
            BY <3>1, <5>2
          <6> QED BY <4>1, <6>1 DEF OnTheWay
        <5> QED BY <5>1, <5>2
      <4>2. OnTheWay(c) => OnTheWay(c)'
        BY <3>1, <4>1 DEF OnTheWay
      <4>3. Waits(c)
        BY <2>1, <3>1, <3>4
      <4> QED BY <3>1, <4>2, <4>3 DEF NoMissedAnswer, Waits
    <3> QED BY <3>4, <1>2
  <2>5. ASSUME NEW d \in Callers, Deliver(k, d)
        PROVE  NoMissedAnswer'
    <3> DEFINE f == Head(inbox[k])
    <3>1. /\ UNCHANGED <<pc, via, socket, loop, inbox, asked>>
          /\ loop[k] = "dispatch"
          /\ left' = [left EXCEPT ![k] = @ \ {d}]
          /\ heard' = IF Matches(d, f) THEN [heard EXCEPT ![d] = @ \cup {Origin(d, f)}] ELSE heard
      BY <2>5 DEF Deliver
    <3>2. inbox[k] \in Seq(Frame) /\ inbox[k] # <<>>
      BY <3>1 DEF Calling
    <3>3. f = inbox[k][1] /\ 1 \in DOMAIN inbox[k]
      BY <3>2
    <3>4. f.for = d => Matches(d, f)
      BY <3>3 DEF Matches, Origins
    <3> HIDE DEF f
    <3>5. ASSUME NEW c \in Callers, Waits(c)'
          PROVE  OnTheWay(c)' \/ heard'[c] # {}
      <4>1. heard[c] \subseteq heard'[c]
        BY <3>1
      <4>2. f.for = d => heard'[d] # {}
        BY <3>1, <3>4
      <4>3. ASSUME NEW j \in Conns, NEW i \in DOMAIN inbox[j], inbox[j][i].for = c,
                   i = 1 /\ loop[j] = "dispatch" => c \in left[j]
            PROVE  OnTheWay(c)' \/ heard'[c] # {}
        <5>1. CASE j = k /\ i = 1 /\ c = d
          BY <3>3, <4>2, <4>3, <5>1
        <5>2. CASE ~(j = k /\ i = 1 /\ c = d)
          <6>1. i = 1 /\ loop'[j] = "dispatch" => c \in left'[j]
            BY <3>1, <4>3, <5>2
          <6> QED BY <3>1, <4>3, <6>1 DEF OnTheWay
        <5> QED BY <5>1, <5>2
      <4>4. OnTheWay(c) => OnTheWay(c)' \/ heard'[c] # {}
        BY <3>1, <4>3 DEF OnTheWay
      <4>5. Waits(c)
        BY <2>1, <3>1, <3>5
      <4> QED BY <4>1, <4>4, <4>5 DEF NoMissedAnswer, Waits
    <3> QED BY <3>5, <1>2
  <2> QED BY <1>5, <2>2, <2>3, <2>4, <2>5 DEF ReadLoop
<1>6. ASSUME NEW k \in Conns, Drop(k)
      PROVE  NoMissedAnswer'
  <2>1. socket'[k] # "open" /\ \A j \in Conns : j # k => socket'[j] = socket[j]
    BY <1>6 DEF Drop
  <2> QED BY <1>6, <2>1, <1>3 DEF Drop
<1>7. ASSUME NEW d \in Callers, Begin(d) \/ DoAPICall(d) \/ Timeout(d)
      PROVE  NoMissedAnswer'
  <2>1. CASE Begin(d) \/ Register(d) \/ Write(d) \/ SendInVain(d) \/ Watch(d) \/ Wake(d) \/ Timeout(d)
    <3>1. UNCHANGED <<loopVars, heard, asked>>
      BY <2>1 DEF Begin, Register, Write, SendInVain, Watch, Wake, Timeout
    <3>2. ASSUME NEW c \in Callers, Waits(c)'
          PROVE  Waits(c)
      <4>1. socket' = socket
        BY <3>1 DEF loopVars
      <4>2. CASE c = d
        BY <2>1, <3>2, <4>1, <4>2 DEF Waits, Begin, Register, Write, SendInVain, Watch, Wake, Timeout
      <4>3. CASE c # d
        <5>1. pc'[c] = pc[c] /\ via'[c] = via[c]
          BY <2>1, <4>3 DEF Begin, Register, Write, SendInVain, Watch, Wake, Timeout
        <5> QED BY <3>2, <4>1, <5>1 DEF Waits
      <4> QED BY <4>2, <4>3
    <3> QED BY <3>1, <3>2, <1>1, <1>2 DEF loopVars
  <2>2. CASE Send(d)
    <3> DEFINE new == [conn |-> via[d], for |-> d, kind |-> kind[d], sid |-> sid[d]]
    <3>1. /\ pc' = [pc EXCEPT ![d] = "watch"] /\ asked' = asked \cup {new}
          /\ UNCHANGED <<loopVars, via, heard>>
      BY <2>2 DEF Send
    <3>2. ASSUME NEW c \in Callers, Waits(c)'
          PROVE  OnTheWay(c)' \/ heard'[c] # {}
      <4>1. CASE c = d
        <5>1. new \in asked' /\ new.for = c
          BY <3>1, <4>1
        <5> HIDE DEF new
        <5> QED BY <5>1 DEF OnTheWay
      <4>2. CASE c # d
        <5>1. Waits(c)
          BY <3>1, <3>2, <4>2 DEF Waits, loopVars
        <5> QED BY <3>1, <3>2, <5>1, <1>1 DEF loopVars
      <4> QED BY <4>1, <4>2
    <3> QED BY <3>2, <1>2
  <2>3. CASE Leave(d)
    <3>1. /\ pc' = [pc EXCEPT ![d] = "idle"]
          /\ asked' = {Forget(d, r) : r \in asked}
          /\ inbox' = [k \in Conns |-> [i \in DOMAIN inbox[k] |-> Forget(d, inbox[k][i])]]
          /\ left' = [k \in Conns |-> left[k] \ {d}]
          /\ UNCHANGED <<socket, loop>>
          /\ \A c \in Callers : c # d => via'[c] = via[c] /\ heard'[c] = heard[c]
      BY <2>3 DEF Leave
    <3>2. ASSUME NEW c \in Callers, Waits(c)'
          PROVE  OnTheWay(c)' \/ heard'[c] # {}
      <4>1. c # d
        BY <3>1, <3>2 DEF Waits
      <4>2. Waits(c)
        BY <3>1, <3>2, <4>1 DEF Waits
      <4>3. ASSUME NEW r \in asked, r.for = c
            PROVE  OnTheWay(c)'
        <5>1. Forget(d, r) \in asked'
          BY <3>1
        <5>2. Forget(d, r).for = c
          BY <4>1, <4>3, ForgetOnly
        <5> QED BY <5>1, <5>2 DEF OnTheWay
      <4>4. ASSUME NEW j \in Conns, NEW i \in DOMAIN inbox[j], inbox[j][i].for = c,
                   i = 1 /\ loop[j] = "dispatch" => c \in left[j]
            PROVE  OnTheWay(c)'
        <5>1. inbox[j] \in Seq(Frame)
          OBVIOUS
        <5>2. inbox[j][i] \in Frame
          BY <5>1
        <5>3. Forget(d, inbox[j][i]).for = c
          BY <4>1, <4>4, <5>2, ForgetOnly
        <5>4. i \in DOMAIN inbox'[j] /\ inbox'[j][i] = Forget(d, inbox[j][i])
          BY <3>1
        <5>5. c \in left[j] => c \in left'[j]
          BY <3>1, <4>1
        <5> QED BY <3>1, <4>4, <5>3, <5>4, <5>5 DEF OnTheWay
      <4>5. OnTheWay(c) => OnTheWay(c)'
        BY <4>3, <4>4 DEF OnTheWay
      <4> QED BY <3>1, <4>1, <4>2, <4>5 DEF NoMissedAnswer, Waits
    <3> QED BY <3>2, <1>2
  <2> QED BY <1>7, <2>1, <2>2, <2>3 DEF DoAPICall
<1>8. CASE Answer
  <2>1. PICK r \in asked :
          /\ asked' = asked \ {r} /\ r.conn \in Conns
          /\ Len(inbox[r.conn]) + 1 \in DOMAIN inbox'[r.conn]
          /\ inbox'[r.conn][Len(inbox[r.conn]) + 1] = [for |-> r.for, kind |-> r.kind, sid |-> r.sid]
          /\ \A k \in Conns : \A i \in DOMAIN inbox[k] :
               i \in DOMAIN inbox'[k] /\ inbox'[k][i] = inbox[k][i]
    BY <1>8, AnswerMoves
  <2>2. UNCHANGED <<socket, loop, left, callVars>>
    BY <1>8 DEF Answer
  <2>3. ASSUME NEW c \in Callers, Waits(c)'
        PROVE  OnTheWay(c)' \/ heard'[c] # {}
    <3>1. Waits(c)
      BY <2>2, <2>3 DEF Waits
    <3>2. ASSUME r.for = c
          PROVE  OnTheWay(c)'
      <4> DEFINE n == Len(inbox[r.conn]) + 1
      <4>1. inbox[r.conn] \in Seq(Frame)
        BY <2>1
      <4>2. loop[r.conn] = "dispatch" => inbox[r.conn] # <<>>
        BY <2>1 DEF Calling
      <4>3. loop[r.conn] = "dispatch" => n # 1
        BY <4>1, <4>2
      <4>4. n \in DOMAIN inbox'[r.conn] /\ inbox'[r.conn][n].for = c
        BY <2>1, <3>2
      <4> HIDE DEF n
      <4> QED BY <2>1, <2>2, <4>3, <4>4 DEF OnTheWay
    <3>3. ASSUME NEW s \in asked, s.for = c, s # r
          PROVE  OnTheWay(c)'
      BY <2>1, <3>3 DEF OnTheWay
    <3>4. ASSUME NEW j \in Conns, NEW i \in DOMAIN inbox[j], inbox[j][i].for = c,
                 i = 1 /\ loop[j] = "dispatch" => c \in left[j]
          PROVE  OnTheWay(c)'
      <4>1. i \in DOMAIN inbox'[j] /\ inbox'[j][i].for = c
        BY <2>1, <3>4
      <4> QED BY <2>2, <3>4, <4>1 DEF OnTheWay
    <3>5. OnTheWay(c) => OnTheWay(c)'
      BY <3>2, <3>3, <3>4 DEF OnTheWay
    <3> QED BY <2>2, <3>1, <3>5 DEF NoMissedAnswer, Waits
  <2> QED BY <2>3, <1>2
<1>9. CASE UNCHANGED vars
  <2>1. \A c \in Callers : Waits(c)' => Waits(c)
    BY <1>9 DEF vars, loopVars, Waits
  <2> QED BY <1>9, <2>1, <1>1, <1>2 DEF vars, loopVars
<1> QED BY <1>4, <1>5, <1>6, <1>7, <1>8, <1>9 DEF Next

-----------------------------------------------------------------------------
(* The theorems.                                                           *)

(* Nothing is connected, nobody calls.                                     *)
LEMMA InitiallyIInv == Init => IInv
<1> SUFFICES ASSUME Init PROVE IInv
  OBVIOUS
<1> USE ConnAssumption DEF Init
<1>1. TypeOK
  <2>1. DriverOK
    BY DEF DriverOK
  <2>2. LoopsOK
    BY DEF LoopsOK
  <2>3. CallsOK
    BY DEF CallsOK, Kinds, Sids
  <2> QED BY <2>1, <2>2, <2>3 DEF TypeOK
<1>2. DriverInv
  BY DEF DriverInv, Numbering, Sessions, NoForgottenSession, Updaters, Connected, Conns
<1>3. Calling /\ Chosen
  BY DEF Calling, Chosen
<1>4. Origins
  BY DEF Origins
<1>5. Correlation
  BY DEF Correlation, Active, OwnAnswersOnly
<1>6. NoMissedAnswer
  BY DEF NoMissedAnswer
<1> QED BY <1>1, <1>2, <1>3, <1>4, <1>5, <1>6 DEF IInv, CallInv

(* IInv, the inductive strengthening of the safety properties of Conn,     *)
(* holds in every reachable state: of the driver's variables, the read     *)
(* loops of connection.go and the calls of client.go's DoAPICall.          *)
THEOREM Invariance == SafetySpec => []IInv
<1>1. IInv /\ [Next]_vars => IInv'
  <2> SUFFICES ASSUME IInv, [Next]_vars PROVE IInv'
    OBVIOUS
  <2> USE DEF IInv, DriverInv, CallInv
  <2>1. DriverOK /\ LoopsOK /\ CallsOK
    BY DEF TypeOK
  <2>2. TypeOK'
    BY <2>1, DriverTypeStep, LoopsTypeStep, CallsTypeStep DEF TypeOK
  <2>3. Numbering' /\ Sessions' /\ Updaters'
    BY NumberingStep, SessionsStep, UpdatersStep
  <2>4. Calling' /\ Chosen' /\ Origins' /\ Correlation' /\ NoMissedAnswer'
    BY CallingStep, ChosenStep, OriginsStep, CorrelationStep, MissedStep
  <2> QED BY <2>2, <2>3, <2>4
<1> QED BY <1>1, InitiallyIInv, PTL DEF SafetySpec

(* Every variable keeps its type; a queue of frames stays one, however the *)
(* connection was cut.                                                     *)
THEOREM TypeCorrect == SafetySpec => []TypeOK
<1>1. IInv => TypeOK
  BY DEF IInv
<1> QED BY <1>1, Invariance, PTL

(* No read loop makes Conn forget a session that is still open             *)
(* (connection.go:287, the guard on the teardown).                         *)
THEOREM SessionsAreReachable == SafetySpec => []NoForgottenSession
<1>1. IInv => NoForgottenSession
  BY DEF IInv, DriverInv, Sessions
<1> QED BY <1>1, Invariance, PTL

(* The current connection is the one of the current lifecycle, which is    *)
(* open, and its read loop runs.                                           *)
THEOREM ServedByItsLoop == SafetySpec => []ServedConnection
<1>1. IInv => ServedConnection
  <2> SUFFICES ASSUME IInv, Connected PROVE tlsConn = life /\ life \notin lost /\ loop[tlsConn] \in {"read", "dispatch"}
    BY DEF ServedConnection
  <2> USE DEF IInv, TypeOK, DriverInv
  <2>1. tlsConn = made /\ life = made /\ tlsConn \in Conns /\ made \in Nat
    BY DEF Connected, Numbering, DriverOK, Conns
  <2>2. loop[tlsConn] # "none"
    BY <2>1 DEF Numbering
  <2>3. tlsConn \notin lost /\ loop[tlsConn] \notin {"signal", "done"}
    BY <2>1 DEF Sessions
  <2> QED BY <2>1, <2>2, <2>3 DEF LoopsOK
<1> QED BY <1>1, Invariance, PTL

(* There is never more than one updater callback, and a connection that is *)
(* set up has one (client.go, installUpdaterDispatch and Disconnect).      *)
THEOREM UpdaterOnce == SafetySpec => []OneUpdater
<1>1. IInv => OneUpdater
  BY DEF IInv, DriverInv, Updaters, OneUpdater
<1> QED BY <1>1, Invariance, PTL

(* An answer that went through a read loop has completed the call it is    *)
(* for (client.go, DoAPICall: register before sending).                    *)
THEOREM AnswersFound == SafetySpec => []NoMissedAnswer
<1>1. IInv => NoMissedAnswer
  BY DEF IInv, CallInv
<1> QED BY <1>1, Invariance, PTL

(* A call with a session id completes on its own answer only.              *)
THEOREM AnswersOwn == SafetySpec => []OwnAnswersOnly
<1>1. IInv => OwnAnswersOnly
  BY DEF IInv, CallInv, Correlation
<1> QED BY <1>1, Invariance, PTL

-----------------------------------------------------------------------------
(* The connection implements SessionSlot.                                  *)

(* What changes neither the current connection nor a socket is a stutter.  *)
LEMMA SlotUntouched ==
  ASSUME UNCHANGED <<tlsConn, socket>>
  PROVE  UNCHANGED Slot!svars
  BY DEF Slot!svars

(* The handshake ends with nothing held: the driver that dials has nothing *)
(* in its hands, and a session that is open would be current.              *)
LEMMA EstablishedOpens ==
  ASSUME TypeOK, Numbering, Sessions, Established
  PROVE  Slot!Open
<1> DEFINE k == made + 1
<1>1. k \in Conns /\ tlsConn = 0 /\ taken = 0
  BY ConnAssumption DEF Established, Numbering, Sessions, Connected, TypeOK, DriverOK, Conns
<1>2. \A j \in Conns : socket[j] # "open"
  BY <1>1 DEF Sessions, NoForgottenSession, Conns
<1>3. tlsConn' = k /\ socket' = [socket EXCEPT ![k] = "open"]
  BY DEF Established
<1>4. DOMAIN socket = Conns /\ k # 0
  BY <1>1 DEF TypeOK, LoopsOK, Conns
<1> HIDE DEF k
<1>5. socket'[k] = "open" /\ {j \in Conns : socket'[j] = "open"} = {k}
  BY <1>1, <1>2, <1>3, <1>4
<1> QED BY <1>1, <1>2, <1>3, <1>4, <1>5 DEF Slot!Open

(* A socket that is closed, by whichever side: the session it held is the  *)
(* only one.                                                               *)
LEMMA ClosingEnds ==
  ASSUME TypeOK, Numbering, Sessions, NEW k \in Conns, NEW e \in {"dropped", "closed"},
         socket' = [socket EXCEPT ![k] = e], UNCHANGED tlsConn,
         k \in {tlsConn, taken}
  PROVE  [Slot!Next]_(Slot!svars)
<1>1. DOMAIN socket = Conns
  BY DEF TypeOK, LoopsOK
<1>2. \A j \in Conns : socket[j] = "open" => j = k
  BY DEF Sessions, NoForgottenSession, Connected, Conns
<1>3. socket'[k] = e /\ \A j \in Conns \ {k} : socket'[j] = socket[j]
  BY <1>1
<1>4. {j \in Conns : socket'[j] = "open"} = {}
  BY <1>2, <1>3
<1>5. tlsConn \in {0} \cup Conns
  BY DEF TypeOK, DriverOK
<1>6. CASE socket[k] = "open"
  <2>1. {j \in Conns : socket[j] = "open"} # {}
    BY <1>6
  <2>2. tlsConn # 0 => tlsConn = k
    BY DEF Sessions, Connected, Conns
  <2> QED BY <1>3, <1>4, <1>6, <2>1, <2>2 DEF Slot!Next, Slot!End
<1>7. CASE socket[k] # "open"
  <2>1. {j \in Conns : socket[j] = "open"} = {}
    BY <1>2, <1>7
  <2>2. tlsConn # 0 => (socket'[tlsConn] = "open" <=> socket[tlsConn] = "open")
    BY <1>3, <1>5, <1>7
  <2> QED BY <1>4, <2>1, <2>2 DEF Slot!svars
<1> QED BY <1>6, <1>7

(* Disconnect takes the connection, or a loop gives up its own; what the   *)
(* gateway holds stays.                                                    *)
LEMMA HidingLetsGo ==
  ASSUME tlsConn # 0, tlsConn' = 0, UNCHANGED socket
  PROVE  Slot!LetGo
  BY DEF Slot!LetGo

(* The connection of the bridge implements SessionSlot: no session is      *)
(* opened beside another one, and a lost connection never serves again     *)
(* (connection.go, Connect, Disconnect and the teardown of the read loop). *)
THEOREM SlotRefinement == SafetySpec => SlotIsKept
<1>1. Init => Slot!Init
  BY DEF Init, Slot!Init, Conns
<1>2. ASSUME IInv, [Next]_vars PROVE [Slot!Next]_(Slot!svars)
  <2> USE <1>2
  <2>1. TypeOK /\ Numbering /\ Sessions
    BY DEF IInv, DriverInv
  <2>2. CASE Established
    BY <2>1, <2>2, EstablishedOpens DEF Slot!Next
  <2>3. CASE Take
    <3>1. CASE tlsConn = 0
      BY <2>3, <3>1, SlotUntouched DEF Take, loopVars
    <3>2. CASE tlsConn # 0
      BY <2>3, <3>2, HidingLetsGo DEF Take, loopVars, Slot!Next
    <3> QED BY <3>1, <3>2
  <2>4. CASE Close
    <3>1. taken \in Conns
      BY <2>1, <2>4 DEF Close, Sessions, TypeOK, DriverOK
    <3> QED BY <2>1, <2>4, <3>1, ClosingEnds DEF Close
  <2>5. ASSUME NEW k \in Conns, LoopExit(k) PROVE [Slot!Next]_(Slot!svars)
    <3>1. k # 0 /\ UNCHANGED socket
      BY <2>5 DEF LoopExit, Conns
    <3>2. CASE tlsConn = k
      BY <2>5, <3>1, <3>2, HidingLetsGo DEF LoopExit, Slot!Next
    <3>3. CASE tlsConn # k
      BY <2>5, <3>1, <3>3, SlotUntouched DEF LoopExit
    <3> QED BY <3>2, <3>3
  <2>6. ASSUME NEW k \in Conns, Drop(k) PROVE [Slot!Next]_(Slot!svars)
    <3>1. k \in {tlsConn, taken}
      BY <2>1, <2>6 DEF Drop, Sessions, NoForgottenSession
    <3> QED BY <2>1, <2>6, <3>1, ClosingEnds DEF Drop, driverVars
  <2>7. CASE Connect \/ DialFails \/ InstallUpdaterDispatch \/ Disconnect
    BY <2>7, SlotUntouched DEF Connect, DialFails, InstallUpdaterDispatch, Disconnect, loopVars
  <2>8. ASSUME NEW k \in Conns,
               Dispatch(k) \/ Dispatched(k) \/ SignalLost(k) \/ \E c \in Callers : Deliver(k, c)
        PROVE  [Slot!Next]_(Slot!svars)
    BY <2>8, SlotUntouched DEF Dispatch, Dispatched, SignalLost, Deliver, driverVars
  <2>9. ASSUME NEW c \in Callers, Begin(c) \/ DoAPICall(c) \/ Timeout(c)
        PROVE  [Slot!Next]_(Slot!svars)
    BY <2>9, SlotUntouched DEF Begin, DoAPICall, Register, Write, Send, SendInVain, Watch, Wake,
      Leave, Timeout, driverVars, loopVars
  <2>10. CASE Answer \/ UNCHANGED vars
    BY <2>10, SlotUntouched DEF Answer, vars, driverVars, loopVars
  <2> QED BY <2>2, <2>3, <2>4, <2>5, <2>6, <2>7, <2>8, <2>9, <2>10 DEF Next, Driver, ReadLoop
<1> QED BY <1>1, <1>2, Invariance, PTL DEF SafetySpec, SlotIsKept, Slot!Safety, Slot!svars
=============================================================================
