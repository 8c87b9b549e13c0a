-------------------------------- MODULE Conn --------------------------------
(***************************************************************************)
(* The connection to the gateway and the calls made over it                *)
(* (app/klf200/connection.go, client.go, event.go, session.go):            *)
(*                                                                         *)
(*   a driver    the goroutine that holds resetMu: Connect and Disconnect  *)
(*               of the Client, one after the other (module Recovery)      *)
(*   a read loop for every connection, which outlives the connection       *)
(*   callers     MQTT handlers, the heartbeat and the driver itself, each  *)
(*               in DoAPICall: register a callback, write a request, wait  *)
(*                                                                         *)
(* and the gateway, which answers requests in any order, late or never.    *)
(*                                                                         *)
(* Connections are numbered in the order in which they are made; 0 stands  *)
(* for "none" in tlsConn and for the lifecycle NewConn installs, whose     *)
(* channel nobody closes.  The flag connected is set and cleared in the    *)
(* critical sections that set and clear tlsConn, and is no state of its    *)
(* own.  An exchange is one request and its terminal frame.                *)
(***************************************************************************)
EXTENDS Naturals, Sequences, FiniteSets

CONSTANTS
  Callers,    (* goroutines that make API calls                            *)
  MaxConns,   (* bound on the connections of a behaviour                   *)
  MaxQueue,   (* bound on the exchanges a connection has in flight         *)
  MaxSid      (* maxSessionID                                              *)

Conns  == 1 .. MaxConns
Sids   == 1 .. MaxSid
Nobody == "nobody"

(* How a handler recognises its terminal frame: by the session id it put   *)
(* in the request (CommandSend, GetLimitation, StatusRequest), or by the   *)
(* type of the frame alone (SetLimitation, PasswordEnter, GetState, ...).  *)
Kinds == {"session", "type"}

ASSUME ConnAssumption ==
  /\ Nobody \notin Callers
  /\ MaxConns \in Nat \ {0}
  /\ MaxQueue \in Nat \ {0}
  /\ MaxSid \in Nat \ {0}

VARIABLES
  tlsConn,     \* Conn.tlsConn
  life,        \* the connection whose channel Lost() returns
  made,        \* Conn.connectionCounter
  driver,      \* where the driver is in Connect or Disconnect
  taken,       \* the connection a Disconnect took out of tlsConn
  updaterSet,  \* Client.updaterSet
  updaters,    \* registered callbacks that feed the node updaters
  callbacks,   \* callers whose callback is registered
  socket,      \* per connection: open, closed by the gateway, closed by us
  loop,        \* per connection: where its read loop is
  inbox,       \* per connection: frames sent and not yet dispatched
  left,        \* per read loop: who of its snapshot has not had the frame yet
  lost,        \* lifecycles whose channel is closed
  pc,          \* per caller: where it is in DoAPICall
  kind, sid,   \* per caller: of the request
  via,         \* per caller: the connection Write chose
  watch,       \* per caller: the lifecycle it waits on
  heard,       \* per caller: whose answers its handler took for the terminal frame
  asked,       \* requests the gateway has received and not answered
  lastSid      \* SessionIDGenerator.last

driverVars == <<tlsConn, life, made, driver, taken, updaterSet, updaters>>
loopVars   == <<socket, loop, inbox, left, lost>>
callVars   == <<pc, kind, sid, via, watch, heard, lastSid>>
vars == <<driverVars, loopVars, callVars, callbacks, asked>>

Frame   == [for : Callers \cup {Nobody}, kind : Kinds, sid : Sids]
Request == [conn : Conns, for : Callers \cup {Nobody}, kind : Kinds, sid : Sids]

DriverOK ==
  /\ tlsConn \in {0} \cup Conns
  /\ life \in {0} \cup Conns
  /\ made \in {0} \cup Conns
  /\ driver \in {"idle", "dial", "install", "take", "close"}
  /\ taken \in {0} \cup Conns
  /\ updaterSet \in BOOLEAN
  /\ updaters \in Nat

LoopsOK ==
  /\ callbacks \subseteq Callers
  /\ socket \in [Conns -> {"none", "open", "dropped", "closed"}]
  /\ loop \in [Conns -> {"none", "read", "dispatch", "signal", "done"}]
  /\ inbox \in [Conns -> Seq(Frame)]
  /\ left \in [Conns -> SUBSET Callers]
  /\ lost \subseteq Conns

CallsOK ==
  /\ pc \in [Callers -> {"idle", "register", "write", "send", "watch", "wait", "leave"}]
  /\ kind \in [Callers -> Kinds]
  /\ sid \in [Callers -> Sids]
  /\ via \in [Callers -> {0} \cup Conns]
  /\ watch \in [Callers -> {0} \cup Conns]
  /\ heard \in [Callers -> SUBSET {"own", "foreign"}]
  /\ asked \subseteq Request
  /\ lastSid \in 0 .. MaxSid

TypeOK == DriverOK /\ LoopsOK /\ CallsOK

Init ==
  /\ tlsConn = 0 /\ life = 0 /\ made = 0
  /\ driver = "idle" /\ taken = 0
  /\ updaterSet = FALSE /\ updaters = 0
  /\ callbacks = {}
  /\ socket = [k \in Conns |-> "none"]
  /\ loop = [k \in Conns |-> "none"]
  /\ inbox = [k \in Conns |-> <<>>]
  /\ left = [k \in Conns |-> {}]
  /\ lost = {}
  /\ pc = [c \in Callers |-> "idle"]
  /\ kind = [c \in Callers |-> "session"]
  /\ sid = [c \in Callers |-> 1]
  /\ via = [c \in Callers |-> 0]
  /\ watch = [c \in Callers |-> 0]
  /\ heard = [c \in Callers |-> {}]
  /\ asked = {}
  /\ lastSid = 0

Connected == tlsConn # 0

(* Closing one end of connection k loses what the gateway has not answered *)
(* and what is still on the wire; a frame the loop is dispatching, and     *)
(* frames it has read along with it, it goes on with.                      *)
CutOff(k) ==
  /\ asked' = {r \in asked : r.conn # k}
  /\ \E n \in 0 .. Len(inbox[k]) :
       /\ loop[k] = "dispatch" => n > 0
       /\ inbox' = [inbox EXCEPT ![k] = SubSeq(@, 1, n)]

-----------------------------------------------------------------------------
(* The driver: Client.Connect and Client.Disconnect.                       *)

Connect ==
  /\ driver = "idle"
  /\ ~Connected
  /\ made < MaxConns
  /\ driver' = "dial"
  /\ UNCHANGED <<tlsConn, life, made, taken, updaterSet, updaters, loopVars, callVars, callbacks, asked>>

DialFails ==
  /\ driver = "dial"
  /\ driver' = "idle"
  /\ UNCHANGED <<tlsConn, life, made, taken, updaterSet, updaters, loopVars, callVars, callbacks, asked>>

(* A fresh connection, a fresh lifecycle, and a read loop for both.        *)
Established ==
  LET k == made + 1 IN
  /\ driver = "dial"
  /\ driver' = "install"
  /\ made' = k /\ tlsConn' = k /\ life' = k
  /\ socket' = [socket EXCEPT ![k] = "open"]
  /\ loop' = [loop EXCEPT ![k] = "read"]
  /\ UNCHANGED <<taken, updaterSet, updaters, inbox, left, lost, callVars, callbacks, asked>>

\* The updater callback is installed whether or not there is one.
InstallAlways ==
  /\ driver = "install"
  /\ driver' = "idle"
  /\ updaterSet' = TRUE
  /\ updaters' = updaters + 1
  /\ UNCHANGED <<tlsConn, life, made, taken, loopVars, callVars, callbacks, asked>>

InstallUpdaterDispatch ==
  /\ driver = "install"
  /\ driver' = "idle"
  /\ updaterSet' = TRUE
  /\ updaters' = IF updaterSet THEN updaters ELSE updaters + 1
  /\ UNCHANGED <<tlsConn, life, made, taken, loopVars, callVars, callbacks, asked>>

Disconnect ==
  /\ driver = "idle"
  /\ driver' = "take"
  /\ updaterSet' = FALSE
  /\ updaters' = IF updaterSet THEN updaters - 1 ELSE updaters
  /\ UNCHANGED <<tlsConn, life, made, taken, loopVars, callVars, callbacks, asked>>

(* The critical section of Conn.Disconnect; without a connection there is  *)
(* nothing to close.                                                       *)
Take ==
  /\ driver = "take"
  /\ driver' = IF Connected THEN "close" ELSE "idle"
  /\ taken' = tlsConn
  /\ tlsConn' = 0
  /\ UNCHANGED <<life, made, updaterSet, updaters, loopVars, callVars, callbacks, asked>>

(* The graceful close, outside the lock, and the lifecycle it belongs to.  *)
Close ==
  /\ driver = "close"
  /\ driver' = "idle"
  /\ taken' = 0
  /\ socket' = [socket EXCEPT ![taken] = "closed"]
  /\ lost' = lost \cup {taken}
  /\ CutOff(taken)
  /\ UNCHANGED <<tlsConn, life, made, updaterSet, updaters, loop, left, callVars, callbacks>>

Driver ==
  \/ Connect \/ DialFails \/ Established \/ InstallUpdaterDispatch
  \/ Disconnect \/ Take \/ Close

-----------------------------------------------------------------------------
(* A read loop.                                                            *)

(* The next frame, for the callbacks that are registered now.              *)
Dispatch(k) ==
  /\ loop[k] = "read"
  /\ inbox[k] # <<>>
  /\ loop' = [loop EXCEPT ![k] = "dispatch"]
  /\ left' = [left EXCEPT ![k] = callbacks]
  /\ UNCHANGED <<driverVars, socket, inbox, lost, callVars, callbacks, asked>>

\* The handlers of session calls do not compare the session id.
MatchesAnySession(c, f) == f.kind = kind[c]

Matches(c, f) == f.kind = kind[c] /\ (kind[c] = "session" => f.sid = sid[c])

Origin(c, f) == IF f.for = c THEN "own" ELSE "foreign"

(* One callback of the snapshot runs; done is closed when its handler says *)
(* that the frame is the terminal one.                                     *)
Deliver(k, c) ==
  /\ loop[k] = "dispatch"
  /\ c \in left[k]
  /\ left' = [left EXCEPT ![k] = @ \ {c}]
  /\ heard' = IF Matches(c, Head(inbox[k]))
              THEN [heard EXCEPT ![c] = @ \cup {Origin(c, Head(inbox[k]))}]
              ELSE heard
  /\ UNCHANGED <<driverVars, socket, loop, inbox, lost, pc, kind, sid, via, watch, lastSid,
                 callbacks, asked>>

Dispatched(k) ==
  /\ loop[k] = "dispatch"
  /\ left[k] = {}
  /\ loop' = [loop EXCEPT ![k] = "read"]
  /\ inbox' = [inbox EXCEPT ![k] = Tail(@)]
  /\ UNCHANGED <<driverVars, socket, left, lost, callVars, callbacks, asked>>

\* The loop clears the current connection, whichever it is.
LoopExitUnguarded(k) ==
  /\ loop[k] = "read"
  /\ inbox[k] = <<>> /\ socket[k] # "open"
  /\ loop' = [loop EXCEPT ![k] = "signal"]
  /\ tlsConn' = 0
  /\ UNCHANGED <<life, made, driver, taken, updaterSet, updaters, socket, inbox, left, lost,
                 callVars, callbacks, asked>>

\* The loop leaves the shared state as it is.
LoopExitKeeps(k) ==
  /\ loop[k] = "read"
  /\ inbox[k] = <<>> /\ socket[k] # "open"
  /\ loop' = [loop EXCEPT ![k] = "signal"]
  /\ UNCHANGED <<driverVars, socket, inbox, left, lost, callVars, callbacks, asked>>

(* Read fails.  The shared state is torn down only if it is still that of  *)
(* this connection.                                                        *)
LoopExit(k) ==
  /\ loop[k] = "read"
  /\ inbox[k] = <<>> /\ socket[k] # "open"
  /\ loop' = [loop EXCEPT ![k] = "signal"]
  /\ tlsConn' = IF tlsConn = k THEN 0 ELSE tlsConn
  /\ UNCHANGED <<life, made, driver, taken, updaterSet, updaters, socket, inbox, left, lost,
                 callVars, callbacks, asked>>

\* The loop closes the channel of the current lifecycle.
SignalCurrent(k) ==
  /\ loop[k] = "signal"
  /\ loop' = [loop EXCEPT ![k] = "done"]
  /\ lost' = lost \cup {life}
  /\ UNCHANGED <<driverVars, socket, inbox, left, callVars, callbacks, asked>>

\* The loop ends and tells nobody.
SignalForgotten(k) ==
  /\ loop[k] = "signal"
  /\ loop' = [loop EXCEPT ![k] = "done"]
  /\ UNCHANGED <<driverVars, socket, inbox, left, lost, callVars, callbacks, asked>>

SignalLost(k) ==
  /\ loop[k] = "signal"
  /\ loop' = [loop EXCEPT ![k] = "done"]
  /\ lost' = lost \cup {k}
  /\ UNCHANGED <<driverVars, socket, inbox, left, callVars, callbacks, asked>>

ReadLoop(k) ==
  \/ Dispatch(k) \/ Dispatched(k) \/ LoopExit(k) \/ SignalLost(k)
  \/ \E c \in Callers : Deliver(k, c)

-----------------------------------------------------------------------------
(* A caller: a request with a session id of its own, then DoAPICall.       *)

\* One past the maximum before it wraps.
NewSessionIDOffByOne(s) == IF s > MaxSid THEN 1 ELSE s + 1

NewSessionID(s) == IF s + 1 > MaxSid THEN 1 ELSE s + 1

(* Session ids are unique among the exchanges of a behaviour that is short *)
(* enough: fewer than MaxSid calls begin while one waits, or while its     *)
(* answer is on the way.  (Requests without a session id take one here as  *)
(* well; nothing looks at it.)                                             *)
InUse(s) ==
  \/ \E c \in Callers : pc[c] # "idle" /\ sid[c] = s
  \/ \E r \in asked : r.sid = s
  \/ \E k \in Conns : \E i \in DOMAIN inbox[k] : inbox[k][i].sid = s

Begin(c) ==
  /\ pc[c] = "idle"
  /\ ~InUse(NewSessionID(lastSid))
  /\ lastSid' = NewSessionID(lastSid)
  /\ sid' = [sid EXCEPT ![c] = NewSessionID(lastSid)]
  /\ \E t \in Kinds : kind' = [kind EXCEPT ![c] = t]
  /\ pc' = [pc EXCEPT ![c] = "register"]
  /\ UNCHANGED <<driverVars, loopVars, via, watch, heard, callbacks, asked>>

Register(c) ==
  /\ pc[c] = "register"
  /\ callbacks' = callbacks \cup {c}
  /\ pc' = [pc EXCEPT ![c] = "write"]
  /\ UNCHANGED <<driverVars, loopVars, kind, sid, via, watch, heard, lastSid, asked>>

(* Write takes the connection under the lock and sends without it.         *)
Write(c) ==
  /\ pc[c] = "write"
  /\ via' = [via EXCEPT ![c] = tlsConn]
  /\ pc' = [pc EXCEPT ![c] = IF Connected THEN "send" ELSE "leave"]
  /\ UNCHANGED <<driverVars, loopVars, kind, sid, watch, heard, lastSid, callbacks, asked>>

InFlight(k) == Cardinality({r \in asked : r.conn = k}) + Len(inbox[k])

Send(c) ==
  /\ pc[c] = "send"
  /\ socket[via[c]] = "open"
  /\ InFlight(via[c]) < MaxQueue
  /\ asked' = asked \cup {[conn |-> via[c], for |-> c, kind |-> kind[c], sid |-> sid[c]]}
  /\ pc' = [pc EXCEPT ![c] = "watch"]
  /\ UNCHANGED <<driverVars, loopVars, kind, sid, via, watch, heard, lastSid, callbacks>>

(* Writing to a connection the gateway has closed may succeed all the same.*)
SendInVain(c) ==
  /\ pc[c] = "send"
  /\ socket[via[c]] # "open"
  /\ \E l \in IF socket[via[c]] = "dropped" THEN {"leave", "watch"} ELSE {"leave"} :
       pc' = [pc EXCEPT ![c] = l]
  /\ UNCHANGED <<driverVars, loopVars, kind, sid, via, watch, heard, lastSid, callbacks, asked>>

(* The connection-lost signal is taken after the request was written.      *)
Watch(c) ==
  /\ pc[c] = "watch"
  /\ watch' = [watch EXCEPT ![c] = life]
  /\ pc' = [pc EXCEPT ![c] = "wait"]
  /\ UNCHANGED <<driverVars, loopVars, kind, sid, via, heard, lastSid, callbacks, asked>>

Wake(c) ==
  /\ pc[c] = "wait"
  /\ heard[c] # {} \/ watch[c] \in lost
  /\ pc' = [pc EXCEPT ![c] = "leave"]
  /\ UNCHANGED <<driverVars, loopVars, kind, sid, via, watch, heard, lastSid, callbacks, asked>>

(* The deadline of the context, whenever it comes.                         *)
Timeout(c) ==
  /\ pc[c] = "wait"
  /\ pc' = [pc EXCEPT ![c] = "leave"]
  /\ UNCHANGED <<driverVars, loopVars, kind, sid, via, watch, heard, lastSid, callbacks, asked>>

Forget(c, f) == IF f.for = c THEN [f EXCEPT !.for = Nobody] ELSE f

\* The handle is taken for an index: another caller's callback is removed.
LeaveWithOther(c) ==
  /\ pc[c] = "leave"
  /\ pc' = [pc EXCEPT ![c] = "idle"]
  /\ callbacks' = IF callbacks = {c} THEN {} ELSE callbacks \ {CHOOSE d \in callbacks : d # c}
  /\ kind' = [kind EXCEPT ![c] = "session"]
  /\ sid' = [sid EXCEPT ![c] = 1]
  /\ via' = [via EXCEPT ![c] = 0]
  /\ watch' = [watch EXCEPT ![c] = 0]
  /\ heard' = [heard EXCEPT ![c] = {}]
  /\ left' = [k \in Conns |-> left[k] \ {c}]
  /\ asked' = {Forget(c, r) : r \in asked}
  /\ inbox' = [k \in Conns |-> [i \in DOMAIN inbox[k] |-> Forget(c, inbox[k][i])]]
  /\ UNCHANGED <<driverVars, socket, loop, lost, lastSid>>

(* The deferred Unregister, and the return.  Whatever answers this call    *)
(* from now on answers nobody; a read loop that still has its callback in  *)
(* a snapshot calls a handler that no call waits for.  The locals of the   *)
(* call are gone.                                                          *)
Leave(c) ==
  /\ pc[c] = "leave"
  /\ pc' = [pc EXCEPT ![c] = "idle"]
  /\ callbacks' = callbacks \ {c}
  /\ kind' = [kind EXCEPT ![c] = "session"]
  /\ sid' = [sid EXCEPT ![c] = 1]
  /\ via' = [via EXCEPT ![c] = 0]
  /\ watch' = [watch EXCEPT ![c] = 0]
  /\ heard' = [heard EXCEPT ![c] = {}]
  /\ left' = [k \in Conns |-> left[k] \ {c}]
  /\ asked' = {Forget(c, r) : r \in asked}
  /\ inbox' = [k \in Conns |-> [i \in DOMAIN inbox[k] |-> Forget(c, inbox[k][i])]]
  /\ UNCHANGED <<driverVars, socket, loop, lost, lastSid>>

DoAPICall(c) ==
  \/ Register(c) \/ Write(c) \/ Send(c) \/ SendInVain(c) \/ Watch(c) \/ Wake(c) \/ Leave(c)

-----------------------------------------------------------------------------
(* The gateway and the network.                                            *)

Answer ==
  \E r \in asked :
    /\ asked' = asked \ {r}
    /\ inbox' = [inbox EXCEPT ![r.conn] = Append(@, [for |-> r.for, kind |-> r.kind, sid |-> r.sid])]
    /\ UNCHANGED <<driverVars, socket, loop, left, lost, callVars, callbacks>>

Drop(k) ==
  /\ socket[k] = "open"
  /\ socket' = [socket EXCEPT ![k] = "dropped"]
  /\ CutOff(k)
  /\ UNCHANGED <<driverVars, loop, left, lost, callVars, callbacks>>

-----------------------------------------------------------------------------

Next ==
  \/ Driver
  \/ \E k \in Conns : ReadLoop(k) \/ Drop(k)
  \/ \E c \in Callers : Begin(c) \/ DoAPICall(c) \/ Timeout(c)
  \/ Answer

SafetySpec == Init /\ [][Next]_vars

(* Read loops and callers run.  The driver, the gateway, the network and   *)
(* the deadlines owe nothing: a Disconnect that has begun ends.            *)
Fairness ==
  /\ WF_vars(Take \/ Close)
  /\ \A k \in Conns : WF_vars(ReadLoop(k))
  /\ \A c \in Callers : WF_vars(DoAPICall(c))

Spec == SafetySpec /\ Fairness

-----------------------------------------------------------------------------
(* Safety.                                                                 *)

(* A session that is open at the gateway is one the next Disconnect        *)
(* closes: the read loop of an older connection never makes Conn forget a  *)
(* newer one, whose session slot would stay occupied (connection.go:287).  *)
NoForgottenSession ==
  \A k \in Conns : socket[k] = "open" => tlsConn = k \/ taken = k

(* A connection that serves has a read loop and an open lifecycle; the     *)
(* channel of a lifecycle is closed by its own loop or Disconnect only.    *)
ServedConnection ==
  Connected =>
    /\ tlsConn = life /\ life \notin lost
    /\ loop[tlsConn] \in {"read", "dispatch"}

(* Every frame reaches the node updaters exactly once, however often and   *)
(* in whatever way the connection was lost before.                         *)
OneUpdater ==
  /\ updaters <= 1
  /\ Connected /\ driver = "idle" => updaters = 1

(* "Register before sending so we cannot miss a fast response": an answer  *)
(* that went through a read loop has completed the call it is for, unless  *)
(* the connection was closed meanwhile.                                    *)
OnTheWay(c) ==
  \/ \E r \in asked : r.for = c
  \/ \E k \in Conns : \E i \in DOMAIN inbox[k] :
       inbox[k][i].for = c /\ (i = 1 /\ loop[k] = "dispatch" => c \in left[k])

NoMissedAnswer ==
  \A c \in Callers :
    pc[c] \in {"watch", "wait"} /\ socket[via[c]] = "open" => OnTheWay(c) \/ heard[c] # {}

(* A call that is correlated by its session id completes on its own answer *)
(* only: never on that of a concurrent call, nor on the late answer to a   *)
(* call that gave up.                                                      *)
OwnAnswersOnly ==
  \A c \in Callers : kind[c] = "session" => "foreign" \notin heard[c]

(* The connection as Recovery sees it.                                     *)
Slot == INSTANCE SessionSlot WITH
  Sessions <- Conns,
  link     <- IF tlsConn = 0 THEN "none" ELSE IF socket[tlsConn] = "open" THEN "open" ELSE "dead",
  held     <- {k \in Conns : socket[k] = "open"}

(* Whatever read loops, callers, the network and Disconnect do at the same *)
(* time, no session is opened while the gateway holds another one of ours, *)
(* and a connection that was lost never serves again.                      *)
SlotIsKept == Slot!Safety

-----------------------------------------------------------------------------
(* Liveness.                                                               *)

(* A call does not wait for its deadline once the connection it watches is *)
(* gone, and a connection the gateway dropped is not shown as connected    *)
(* for ever.                                                               *)
Gone(k) == socket[k] \in {"dropped", "closed"}

CallsEndWithConnection ==
  \A c \in Callers, k \in Conns : pc[c] = "wait" /\ watch[c] = k /\ Gone(k) ~> pc[c] # "wait"

LossIsNoticed == \A k \in Conns : Gone(k) ~> tlsConn # k

=============================================================================
