-------------------------------- MODULE Api --------------------------------
(***************************************************************************)
(* The calls of the application over one connection after the other, whole *)
(* exchanges at a time (module Exchange; module Conn has the goroutines    *)
(* inside one call):                                                       *)
(*                                                                         *)
(*   driver      App.doReboot: stop the heartbeat, ask for a reboot,       *)
(*               disconnect, then App.connectAndLoad until it succeeds,    *)
(*               and a new heartbeat                                       *)
(*   pulse       the heartbeat goroutine (app/klf200/heartbeat.go)         *)
(*   others      MQTT handlers and users of the library, one call at a time*)
(*                                                                         *)
(* The gateway decides on every request when it comes, and sends the       *)
(* frames of its answer one by one, between those of other answers, late   *)
(* or never; requests beyond MaxOwed open answers it ignores.  A frame     *)
(* reaches every call that waits.  What a call that gave up was owed goes  *)
(* to the calls that wait by then.                                         *)
(***************************************************************************)
EXTENDS Exchange, FiniteSets, Functions

CONSTANTS
  Others,    (* callers besides the driver and the heartbeat               *)
  Blinds,    (* the nodes that are blinds                                  *)
  Scenarios, (* what happens: [ops, busy]: the operations of the others,   *)
             (* and whether the driver and the heartbeat run               *)
  MaxSid,    (* the session ids, enough for all exchanges under way         *)
  MaxOwed    (* bound on the answers the gateway has open                  *)

Driver  == "driver"
Pulse   == "pulse"
Callers == {Driver, Pulse} \cup Others

(* The handlers of the application log in and load nothing: the driver     *)
(* alone does.                                                             *)
ASSUME ApiAssumption ==
  /\ Driver \notin Others /\ Pulse \notin Others /\ IsFiniteSet(Others)
  /\ System \in Seq(Nat) /\ SceneList \in Seq(Nat)
  /\ \A i, j \in DOMAIN System : System[i] = System[j] => i = j
  /\ \A s \in Scenarios :
       /\ s.ops \subseteq Ops /\ s.busy \in BOOLEAN
       /\ s.busy => s.ops \cap {"PasswordEnter", "GetAllNodes"} = {}
  /\ MaxSid \in Nat /\ MaxSid > Cardinality(Callers) + MaxOwed
  /\ MaxOwed \in Nat \ {0}

VARIABLES
  scenario,   \* which of the Scenarios
  connected,  \* whether there is a connection
  authed,     \* whether the gateway has accepted the password on it
  owed,       \* the answers it has open: [of, frames], in the order of the requests
  at,         \* per caller: idle, waiting, done (the terminal frame was there), lost
  call,       \* per caller: the call
  verdict,    \* per caller: what the gateway decided on it
  alone,      \* per caller: whether no other call of this kind is under way
  driver,     \* where the driver is
  beat,       \* where the heartbeat goroutine is
  stopping,   \* whether its stopCh is closed
  due,        \* whether its timer has fired
  todo,       \* the blinds it has yet to ask in this pulse
  nodes       \* Client.nodes: the ids

callVars  == <<at, call, verdict, alone>>
beatVars  == <<beat, stopping, due, todo>>
gateway   == <<connected, authed, owed>>
vars == <<scenario, gateway, callVars, driver, beatVars, nodes>>

NodeIds == Range(System)
Items   == NodeIds \cup Range(SceneList)
NoCall  == NewCall("GetState", 0, 0, FALSE)

Steps == {"serve", "pause", "reboot", "disconnect", "connect",
          "password", "clock", "monitor", "load", "register"}

TypeOK ==
  /\ scenario \in Scenarios
  /\ connected \in BOOLEAN /\ authed \in BOOLEAN
  /\ \A i \in DOMAIN owed : owed[i].of \in Ops /\ Len(owed[i].frames) > 0
  /\ Len(owed) <= MaxOwed
  /\ at \in [Callers -> {"idle", "wait", "done", "lost"}]
  /\ \A c \in Callers :
       /\ call[c].op \in Ops /\ call[c].sid \in 0 .. MaxSid
       /\ call[c].expected >= -1 /\ Range(call[c].collected) \subseteq Items
  /\ verdict \in [Callers -> Statuses]
  /\ alone \in [Callers -> BOOLEAN]
  /\ driver \in Steps
  /\ beat \in {"off", "timer", "state", "status"}
  /\ stopping \in BOOLEAN /\ due \in BOOLEAN
  /\ todo \subseteq Blinds
  /\ nodes \subseteq NodeIds

Init ==
  /\ scenario \in Scenarios
  /\ connected = ~scenario.busy /\ authed = connected
  /\ owed = <<>>
  /\ at = [c \in Callers |-> "idle"]
  /\ call = [c \in Callers |-> NoCall]
  /\ verdict = [c \in Callers |-> "rejected"]
  /\ alone = [c \in Callers |-> TRUE]
  /\ driver = IF scenario.busy THEN "connect" ELSE "serve"
  /\ beat = "off" /\ stopping = FALSE /\ due = FALSE /\ todo = {}
  /\ nodes = {}

-----------------------------------------------------------------------------
(* A call.                                                                 *)

(* Session ids are unique among the exchanges under way (module Conn has  *)
(* the generator).                                                         *)
SidInUse(s) ==
  \/ \E c \in Callers : at[c] # "idle" /\ call[c].sid = s
  \/ \E i \in DOMAIN owed : \E j \in DOMAIN owed[i].frames : owed[i].frames[j].sid = s

FreshSid == CHOOSE s \in 1 .. MaxSid : ~SidInUse(s)

Similar(op) == {c \in Callers : at[c] \in {"wait", "done"} /\ call[c].op = op}
Pending(op) == \E i \in DOMAIN owed : owed[i].of = op

(* The request goes out on the connection there is; the gateway decides,   *)
(* and answers if it listens.  Without a connection the call fails.        *)
Request(c, op, node, wait) ==
  LET withSid == op \in Correlated \cup {"SetLimitation"}
      new     == NewCall(op, IF withSid THEN FreshSid ELSE 0, node, wait)
  IN
  /\ at[c] = "idle"
  /\ call' = [call EXCEPT ![c] = new]
  /\ at' = [at EXCEPT ![c] = IF connected THEN "wait" ELSE "lost"]
  /\ alone' = [d \in Callers |->
                 IF d = c THEN Similar(op) = {} /\ ~Pending(op)
                 ELSE alone[d] /\ d \notin Similar(op)]
  /\ \E v \in Verdicts(op) :
       /\ verdict' = [verdict EXCEPT ![c] = v]
       /\ authed' = IF connected /\ op \in PasswordEnter THEN v = "accepted" ELSE authed
       /\ owed' = IF connected /\ Len(owed) < MaxOwed
                  THEN Append(owed, [of |-> op, frames |-> Replies(new, v)]) ELSE owed
  /\ UNCHANGED connected

(* One frame of one answer is dispatched to all who wait, and to those who *)
(* have had theirs and are about to return.                                *)
Answer ==
  \E i \in DOMAIN owed :
    LET f == Head(owed[i].frames)
        rest == Tail(owed[i].frames)
    IN
    /\ owed' = IF rest = <<>> THEN SubSeq(owed, 1, i - 1) \o SubSeq(owed, i + 1, Len(owed))
               ELSE [owed EXCEPT ![i].frames = rest]
    /\ call' = [c \in Callers |-> IF at[c] \in {"wait", "done"} THEN Notes(call[c], f) ELSE call[c]]
    /\ at' = [c \in Callers |-> IF at[c] = "wait" /\ Ends(call[c], f) THEN "done" ELSE at[c]]
    /\ UNCHANGED <<scenario, connected, authed, verdict, alone, driver, beatVars, nodes>>

(* The connection is gone: nothing more comes, and who waits is told.      *)
Hangup ==
  /\ connected' = FALSE /\ authed' = FALSE /\ owed' = <<>>
  /\ at' = [c \in Callers |-> IF at[c] = "wait" THEN "lost" ELSE at[c]]

(* The network or the gateway ends the connection.                         *)
Drop ==
  /\ connected /\ scenario.busy
  /\ Hangup
  /\ UNCHANGED <<scenario, call, verdict, alone, driver, beatVars, nodes>>

(* The call returns, with success if its terminal frame came and its       *)
(* result is good, or else with an error.                                  *)
Leaves(c) ==
  /\ at' = [at EXCEPT ![c] = "idle"]
  /\ call' = [call EXCEPT ![c] = NoCall]
  /\ verdict' = [verdict EXCEPT ![c] = "rejected"]
  /\ alone' = [alone EXCEPT ![c] = TRUE]
  /\ UNCHANGED gateway

Works(c) == at[c] = "done" /\ Succeeds(call[c]) /\ Leaves(c)
Fails(c) == (at[c] = "lost" \/ (at[c] = "done" /\ ~Succeeds(call[c]))) /\ Leaves(c)

\* A pulse has no deadline.
TimeoutOfOthers(c) ==
  /\ at[c] = "wait" /\ c # Pulse
  /\ at' = [at EXCEPT ![c] = "lost"]
  /\ UNCHANGED <<scenario, gateway, call, verdict, alone, driver, beatVars, nodes>>

(* The deadline of the context.                                            *)
Timeout(c) ==
  /\ at[c] = "wait"
  /\ at' = [at EXCEPT ![c] = "lost"]
  /\ UNCHANGED <<scenario, gateway, call, verdict, alone, driver, beatVars, nodes>>

-----------------------------------------------------------------------------
(* The others.                                                             *)

Targets(op) == IF op \in Reads \cup {"LoadNode"} THEN NodeIds ELSE {0}

(* The bridge never waits for the end of a movement.                       *)
Ask(c) ==
  /\ \E op \in scenario.ops :
       \E n \in Targets(op), wait \in BOOLEAN :
         /\ wait => op \in Moves /\ ~scenario.busy
         /\ Request(c, op, n, wait)
  /\ UNCHANGED <<scenario, driver, beatVars, nodes>>

(* Client.LoadNode puts the node it has asked for into the collection.     *)
Upsert(c) == IF call[c].op = "LoadNode" THEN nodes \cup {call[c].node} ELSE nodes

Told(c) ==
  /\ \/ Works(c) /\ nodes' = Upsert(c)
     \/ Fails(c) /\ UNCHANGED nodes
  /\ UNCHANGED <<scenario, driver, beatVars>>

Other(c) == Ask(c) \/ Told(c)

-----------------------------------------------------------------------------
(* The driver.                                                             *)

Goto(from, to) == driver = from /\ driver' = to

(* Heartbeat.Stop: stopCh is closed, ...                                   *)
StopHeartbeat ==
  /\ scenario.busy
  /\ Goto("serve", "pause")
  /\ stopping' = TRUE
  /\ UNCHANGED <<scenario, gateway, callVars, beat, due, todo, nodes>>

\* Stop does not wait for the goroutine.
StoppedEarly ==
  /\ Goto("pause", "reboot")
  /\ stopping' = FALSE
  /\ UNCHANGED <<scenario, gateway, callVars, beat, due, todo, nodes>>

(* ... and Stop returns when the goroutine has closed doneCh.              *)
Stopped ==
  /\ beat = "off"
  /\ Goto("pause", "reboot")
  /\ stopping' = FALSE
  /\ UNCHANGED <<scenario, gateway, callVars, beat, due, todo, nodes>>

Calls(step, op) ==
  /\ driver = step /\ Request(Driver, op, 0, FALSE)
  /\ UNCHANGED <<scenario, driver, beatVars, nodes>>

(* Whatever became of the reboot request, the connection is closed.        *)
Rebooted ==
  /\ Works(Driver) \/ Fails(Driver)
  /\ Goto("reboot", "disconnect")
  /\ UNCHANGED <<scenario, beatVars, nodes>>

\* A failed attempt leaves the connection as it is.
DisconnectKeeps ==
  /\ Goto("disconnect", IF connected THEN "password" ELSE "connect")
  /\ UNCHANGED <<scenario, gateway, callVars, beatVars, nodes>>

Disconnect ==
  /\ Goto("disconnect", "connect")
  /\ Hangup
  /\ UNCHANGED <<scenario, call, verdict, alone, beatVars, nodes>>

Connect ==
  /\ Goto("connect", "password")
  /\ connected' = TRUE
  /\ UNCHANGED <<scenario, authed, owed, callVars, beatVars, nodes>>

\* A refused password does not stop the attempt.
AuthenticateAnyway ==
  /\ Works(Driver) \/ Fails(Driver)
  /\ Goto("password", "clock")
  /\ UNCHANGED <<scenario, beatVars, nodes>>

(* connectAndLoad: the password and the nodes must succeed, the clock and  *)
(* the monitor need not.                                                   *)
Authenticate ==
  /\ \/ Works(Driver) /\ Goto("password", "clock")
     \/ Fails(Driver) /\ Goto("password", "disconnect")
  /\ UNCHANGED <<scenario, beatVars, nodes>>

BestEffort ==
  /\ Works(Driver) \/ Fails(Driver)
  /\ Goto("clock", "monitor") \/ Goto("monitor", "load")
  /\ UNCHANGED <<scenario, beatVars, nodes>>

(* Client.LoadNodes clears the collection and adds what was collected; a   *)
(* node that is there already is replaced.                                 *)
LoadNodes ==
  /\ \/ Works(Driver) /\ Goto("load", "register") /\ nodes' = Range(call[Driver].collected)
     \/ Fails(Driver) /\ Goto("load", "disconnect") /\ UNCHANGED nodes
  /\ UNCHANGED <<scenario, beatVars>>

(* Heartbeat.Start of a new heartbeat, after the covers are registered.    *)
StartHeartbeat ==
  /\ Goto("register", "serve")
  /\ beat' = "timer" /\ due' = FALSE
  /\ UNCHANGED <<scenario, gateway, callVars, stopping, todo, nodes>>

Operation ==
  \/ Stopped \/ Calls("reboot", "Reboot") \/ Rebooted \/ Disconnect \/ Connect
  \/ Calls("password", "PasswordEnter") \/ Authenticate
  \/ Calls("clock", "SetUTC") \/ Calls("monitor", "HouseStatusMonitorEnable") \/ BestEffort
  \/ Calls("load", "GetAllNodes") \/ LoadNodes
  \/ StartHeartbeat

-----------------------------------------------------------------------------
(* The heartbeat goroutine: Heartbeat.loop and pulse.                      *)

(* The interval is long: the timer does not fire again between the end of  *)
(* a pulse and the select that finds stopCh closed.                        *)
TimerFires ==
  /\ beat = "timer" /\ ~due /\ ~stopping
  /\ due' = TRUE
  /\ UNCHANGED <<scenario, gateway, callVars, driver, beat, stopping, todo, nodes>>

(* With the timer fired and stopCh closed, select may choose either.       *)
LoopEnds ==
  /\ beat = "timer" /\ stopping
  /\ beat' = "off" /\ due' = FALSE
  /\ UNCHANGED <<scenario, gateway, callVars, driver, stopping, todo, nodes>>

PulseBegins ==
  /\ beat = "timer" /\ due
  /\ Request(Pulse, "GetState", 0, FALSE)
  /\ beat' = "state"
  /\ UNCHANGED <<scenario, driver, stopping, due, todo, nodes>>

(* After the state every blind of the collection is asked for its status;  *)
(* without the state the pulse has failed.                                 *)
StateKnown ==
  /\ beat = "state"
  /\ \/ Works(Pulse) /\ beat' = "status" /\ todo' = Blinds \cap nodes /\ UNCHANGED due
     \/ Fails(Pulse) /\ beat' = "timer" /\ due' = FALSE /\ UNCHANGED todo
  /\ UNCHANGED <<scenario, driver, stopping, nodes>>

AskStatus ==
  /\ beat = "status"
  /\ \E n \in todo :
       /\ Request(Pulse, "StatusRequest", n, FALSE)
       /\ todo' = todo \ {n}
  /\ UNCHANGED <<scenario, driver, beat, stopping, due, nodes>>

\* The first status request that fails ends the goroutine.
StatusKnownOrDead ==
  /\ beat = "status"
  /\ \/ Works(Pulse) /\ UNCHANGED beatVars
     \/ Fails(Pulse) /\ beat' = "dead" /\ UNCHANGED <<stopping, due, todo>>
  /\ UNCHANGED <<scenario, driver, nodes>>

(* A status request that fails is passed over.                             *)
StatusKnown ==
  /\ beat = "status"
  /\ Works(Pulse) \/ Fails(Pulse)
  /\ UNCHANGED <<scenario, driver, beatVars, nodes>>

PulseEnds ==
  /\ beat = "status" /\ todo = {} /\ at[Pulse] = "idle"
  /\ beat' = "timer" /\ due' = FALSE
  /\ UNCHANGED <<scenario, gateway, callVars, driver, stopping, todo, nodes>>

Loop == LoopEnds \/ PulseBegins \/ StateKnown \/ AskStatus \/ StatusKnown \/ PulseEnds

-----------------------------------------------------------------------------

Next ==
  \/ Answer \/ Drop
  \/ StopHeartbeat \/ Operation
  \/ TimerFires \/ Loop
  \/ \E c \in Others : Other(c)
  \/ \E c \in Callers : Timeout(c)

(* Goroutines run and deadlines come.  The gateway owes no answer.         *)
Fairness ==
  /\ WF_vars(Operation) /\ WF_vars(Loop)
  /\ \A c \in Others : WF_vars(Told(c))
  /\ \A c \in Callers : WF_vars(Timeout(c))

Spec == Init /\ [][Next]_vars /\ Fairness

-----------------------------------------------------------------------------
(* Safety.                                                                 *)

(* No pulse is under way, and none begins, while an operation takes the    *)
(* connection down and up again: Stop has waited for the goroutine         *)
(* (heartbeat.go, "blocks until the goroutine has exited").                *)
QuietOperation ==
  driver \notin {"serve", "pause"} => beat = "off" /\ at[Pulse] = "idle"

(* A call that reports success reports the truth: the gateway accepted     *)
(* this request, has ended the movement the call waits for, and listed     *)
(* every item.  Calls that compare session ids do so in any company; those *)
(* that take any frame of a type do so if no other call of their kind, or  *)
(* late answer to one, is about.                                           *)
EverythingCollected(c) ==
  /\ c.op = "GetAllNodes" => c.collected = System
  /\ c.op = "GetSceneList" => c.collected = SceneList
  /\ c.op \in Reads \cup {"LoadNode"} => c.collected = <<c.node>>

Over(c) == c.wait => \A i \in DOMAIN owed : \A j \in DOMAIN owed[i].frames : owed[i].frames[j].sid # c.sid

ResultsAreTrue ==
  \A c \in Callers :
    /\ at[c] = "done" /\ Succeeds(call[c])
    /\ call[c].op \in Correlated \/ alone[c]
    => verdict[c] = "accepted" /\ EverythingCollected(call[c]) /\ Over(call[c])

(* Loading the nodes is all or nothing, although a shorter list is not an  *)
(* error: the end of a list that an earlier attempt asked for would end    *)
(* the next one half way, and covers would be missing.                     *)
LoadIsExact == driver = "register" => nodes = NodeIds

(* Nothing is asked of a gateway that has not accepted the password on     *)
(* this connection; a late confirmation of an earlier attempt is not taken *)
(* for the present one.                                                    *)
AuthenticatedFirst ==
  driver \in {"clock", "monitor", "load", "register"} /\ connected => authed

-----------------------------------------------------------------------------
(* Liveness.                                                               *)

(* Stop returns: every call of a pulse ends with its deadline, and the     *)
(* goroutine then finds the closed channel, so no operation waits for ever *)
(* for the heartbeat of a gateway that has fallen silent.                  *)
PauseEnds == driver = "pause" ~> driver # "pause"
=============================================================================
