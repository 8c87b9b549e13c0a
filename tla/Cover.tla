------------------------------- MODULE Cover -------------------------------
(***************************************************************************)
(* One opening device on its way from the gateway to Home Assistant and    *)
(* back (app/bridge/cover.go, cover_state.go, manager.go; app/klf200/      *)
(* node_updater.go, opening_device.go, nodes.go, node_loading.go).         *)
(*                                                                         *)
(*   "loop"     the read loop: gives each frame to the node updater, which *)
(*              writes the node and calls its cover's UpdateNode           *)
(*   Handlers   MQTT handlers: a command goes to the gateway, and when it  *)
(*              is confirmed the handler calls UpdateNode as well          *)
(*   "driver"   the goroutine that holds resetMu: a reload replaces the    *)
(*              node, and Register gives the new one a cover, a route for  *)
(*              commands, and a first UpdateNode                           *)
(*                                                                         *)
(* UpdateNode reads the node and publishes retained topics, step by step   *)
(* and without a lock; the three kinds of thread interleave in it.         *)
(*                                                                         *)
(* Positions are percentages, 0 is open.  The percentages that a sentinel  *)
(* parameter yields lie above 100 (PositionPercent rounds raw[0]/2).       *)
(*                                                                         *)
(* Simplifications.  Nodes are numbered by the load that made them.  The   *)
(* read loop of a closed connection finishes the frame it works on before  *)
(* the next connection is made, and drops what it has read ahead.  The     *)
(* information about all nodes and its FINISHED frame are one frame.  A    *)
(* publish lands before it returns.  The topics of availability are those  *)
(* of the module Recovery.  Payloads that are no command change nothing.   *)
(* Nobody asks the gateway for limits, and it does not send them unasked;  *)
(* of a blind only the position is modelled, not its slats.                *)
(***************************************************************************)
EXTENDS Naturals, Sequences

CONSTANTS
  Devices,    (* the kinds of device: is it a blind, is its cover inverted     *)
  Stops,      (* positions at which the device may rest                        *)
  Payloads,   (* commands that Home Assistant sends                            *)
  Handlers,   (* MQTT handlers that may run at the same time                   *)
  MaxLoads,   (* bound on the loads of the node collection                     *)
  MaxWire,    (* bound on the frames between the gateway and the read loop     *)
  Faults      (* what else may happen                                          *)

Device == [blind : BOOLEAN, inverted : BOOLEAN]

ASSUME CoverAssumption ==
  /\ Devices \subseteq Device /\ Devices # {}
  /\ \A d \in Devices : d.inverted => ~d.blind        \* only awnings are inverted
  /\ Stops \subseteq 0 .. 100 /\ {0, 100} \subseteq Stops
  /\ Payloads \subseteq {"OPEN", "CLOSE", "STOP", "SET", "ON", "OFF"}
  /\ Handlers \cap {"loop", "driver"} = {}
  /\ MaxLoads \in Nat \ {0}
  /\ MaxWire \in Nat \ {0, 1}
  /\ Faults \subseteq {"drop", "remote", "timeout", "reject", "vague"}

Current == 105      \* 0xD200
Ignore  == 106      \* 0xD400
Unknown == 124      \* 0xF7FF

Valid(p) == p <= 100

Readings == Stops \cup {Current, Unknown}
Loads    == 1 .. MaxLoads
Threads  == {"loop", "driver"} \cup Handlers

VARIABLES
  device,     \* the device behind the cover
  at, goal,   \* where it is and where it is going
  limited,    \* a limitation keeps it open
  vague,      \* the gateway does not know its position
  order,      \* the last command the gateway accepted that still holds
  linked,     \* a session with house-status monitoring is open
  wire,       \* frames the read loop has not finished with
  node,       \* the node objects, by load
  loads,      \* the node in the collection; 0 before the first load
  pulled,     \* what the driver's request for all nodes returned
  hooked,     \* nodes with a cover's device-updated callback
  route,      \* the node to which the command topics lead
  shown,      \* what the broker retains
  pc,         \* where each thread is
  on,         \* the node each thread works on
  seen,       \* what the UpdateNode of each thread has read
  cmd,        \* the command each handler carries out
  doubtful,   \* auxiliary: UpdateNode last began beside another, or for an old node
  missed      \* auxiliary: the last report went to a node that was being replaced

deviceVars == <<device, at, goal, limited, vague, order>>
nodeVars   == <<node, loads, pulled, hooked, route>>
auxVars    == <<doubtful, missed>>
vars == <<deviceVars, linked, wire, nodeVars, shown, pc, on, seen, cmd, auxVars>>

Nodes    == [pos : Readings, target : Readings, max : {0, Ignore}]
Command  == [is : {"OPEN", "CLOSE", "STOP", "SET", "ON", "OFF"}, to : Stops \cup {Current}]

Reports == [is : {"changed", "info", "status"}, pos : Stops \cup {Unknown}, target : Stops]
Answers == [is : {"cfm"}, for : Handlers, ok : BOOLEAN]
Frames  == Reports \cup Answers

\* The steps of UpdateNode once it has begun, and all others.
Inside == {"target", "showPosition", "showState", "limit", "showLimit"}
Labels == Inside \cup {"idle", "setTarget", "update", "send", "wait", "limits",
                       "connect", "request", "load", "clear", "add", "hook", "subscribe"}

States == {"open", "closed", "opening", "closing"}
NoCommand == [is |-> "STOP", to |-> Current]
Nothing   == [pos |-> 0, target |-> 0, max |-> Ignore]

TypeOK ==
  /\ device \in Devices
  /\ at \in Stops /\ goal \in Stops
  /\ limited \in BOOLEAN /\ vague \in BOOLEAN /\ linked \in BOOLEAN
  /\ order \in {"OPEN", "CLOSE", "none"}
  /\ wire \in Seq(Frames)
  /\ node \in [Loads -> Nodes]
  /\ loads \in {0} \cup Loads /\ route \in {0} \cup Loads /\ hooked \subseteq Loads
  /\ pulled \in [pos : Readings, target : Readings]
  /\ shown \in [position : Stops, state : States, keepopen : {"on", "off"}]
  /\ pc \in [Threads -> Labels]
  /\ on \in [Threads -> {0} \cup Loads]
  /\ seen \in [Threads -> Nodes]
  /\ cmd \in [Handlers -> Command]
  /\ doubtful \in BOOLEAN /\ missed \in BOOLEAN

Init ==
  /\ device \in Devices
  /\ at \in Stops /\ goal = at
  /\ limited = FALSE /\ vague = FALSE /\ order = "none"
  /\ linked = FALSE /\ wire = <<>>
  /\ node = [g \in Loads |-> Nothing]
  /\ loads = 0 /\ route = 0 /\ hooked = {}
  /\ pulled = [pos |-> 0, target |-> 0]
  /\ shown = [position |-> 0, state |-> "open", keepopen |-> "off"]
  /\ pc = [t \in Threads |-> "idle"]
  /\ on = [t \in Threads |-> 0]
  /\ seen = [t \in Threads |-> Nothing]
  /\ cmd = [h \in Handlers |-> NoCommand]
  /\ doubtful = FALSE /\ missed = FALSE

Goto(t, l) == pc' = [pc EXCEPT ![t] = l]

-----------------------------------------------------------------------------
(* cover_state.go.                                                         *)

ValidatePosition(p) == IF Valid(p) THEN p ELSE 0
ValidateTarget(t, p) == IF Valid(t) THEN t ELSE p

Shut(inverted) == IF inverted THEN 0 ELSE 100

\* The awning's states are those of a shutter.
DeriveStateUninverted(p, t, inverted) ==
  CASE p = t -> IF p = 100 THEN "closed" ELSE "open"
    [] t < p -> "opening"
    [] t > p -> "closing"

DeriveState(p, t, inverted) ==
  CASE p = t -> IF p = Shut(inverted) THEN "closed" ELSE "open"
    [] t < p -> IF inverted THEN "closing" ELSE "opening"
    [] t > p -> IF inverted THEN "opening" ELSE "closing"

CoverState(p, t, inverted) ==
  LET q == ValidatePosition(p) IN DeriveState(q, ValidateTarget(t, q), inverted)

-----------------------------------------------------------------------------
(* UpdateNode, by any thread t.                                            *)

(* The auxiliary judgement on an UpdateNode that begins: another one is    *)
(* under way, or it is about a node that a reload has replaced.            *)
Disturbed(t) == on[t] # loads \/ \E u \in Threads \ {t} : pc[u] \in Inside

ReadPosition(t) ==
  /\ pc[t] = "update"
  /\ Goto(t, "target")
  /\ seen' = [seen EXCEPT ![t].pos = node[on[t]].pos]
  /\ doubtful' = Disturbed(t)
  /\ UNCHANGED <<deviceVars, linked, wire, nodeVars, shown, on, cmd, missed>>

ReadTarget(t) ==
  /\ pc[t] = "target"
  /\ Goto(t, "showPosition")
  /\ seen' = [seen EXCEPT ![t].target = node[on[t]].target]
  /\ UNCHANGED <<deviceVars, linked, wire, nodeVars, shown, on, cmd, auxVars>>

\* The percentage is published as it is.
ShowPositionRaw(t) ==
  /\ pc[t] = "showPosition"
  /\ Goto(t, "showState")
  /\ shown' = [shown EXCEPT !.position = seen[t].pos]
  /\ UNCHANGED <<deviceVars, linked, wire, nodeVars, on, seen, cmd, auxVars>>

ShowPosition(t) ==
  /\ pc[t] = "showPosition"
  /\ Goto(t, "showState")
  /\ shown' = [shown EXCEPT !.position = ValidatePosition(seen[t].pos)]
  /\ UNCHANGED <<deviceVars, linked, wire, nodeVars, on, seen, cmd, auxVars>>

ShowState(t) ==
  /\ pc[t] = "showState"
  /\ Goto(t, "limit")
  /\ shown' = [shown EXCEPT !.state = CoverState(seen[t].pos, seen[t].target, device.inverted)]
  /\ seen' = [seen EXCEPT ![t] = Nothing]
  /\ UNCHANGED <<deviceVars, linked, wire, nodeVars, on, cmd, auxVars>>

ReadLimit(t) ==
  /\ pc[t] = "limit"
  /\ Goto(t, "showLimit")
  /\ seen' = [seen EXCEPT ![t].max = node[on[t]].max]
  /\ UNCHANGED <<deviceVars, linked, wire, nodeVars, shown, on, cmd, auxVars>>

(* The thread is through.  The read loop is then through with its frame,   *)
(* and the handler of the driver's request, which registered after the     *)
(* updater, sees it: LoadAllNodes has what it asked for.                   *)
Answered(t) == t = "loop" /\ Head(wire).is = "info" /\ pc["driver"] = "load"

Finish(t) ==
  /\ pc' = [pc EXCEPT ![t] = "idle", !["driver"] = IF Answered(t) THEN "clear" ELSE @]
  /\ on' = [on EXCEPT ![t] = 0]
  /\ wire' = IF t = "loop" THEN Tail(wire) ELSE wire
  /\ pulled' = IF Answered(t) THEN [pos |-> Head(wire).pos, target |-> Head(wire).target] ELSE pulled

ShowLimit(t) ==
  /\ pc[t] = "showLimit"
  /\ shown' = [shown EXCEPT !.keepopen = IF seen[t].max < 100 THEN "on" ELSE "off"]
  /\ seen' = [seen EXCEPT ![t] = Nothing]
  /\ cmd' = [h \in Handlers |-> IF h = t THEN NoCommand ELSE cmd[h]]
  /\ Finish(t)
  /\ UNCHANGED <<deviceVars, linked, node, loads, hooked, route, auxVars>>

UpdateNode(t) ==
  \/ ReadPosition(t) \/ ReadTarget(t) \/ ShowPosition(t)
  \/ ShowState(t) \/ ReadLimit(t) \/ ShowLimit(t)

(* AfterUpdate of node g, by thread t: its cover's UpdateNode, if there is *)
(* a callback.  (pc, on, wire and pulled change.)                          *)
AfterUpdate(t, g) ==
  IF g \in hooked
  THEN Goto(t, "update") /\ on' = [on EXCEPT ![t] = g] /\ UNCHANGED <<wire, pulled>>
  ELSE Finish(t)

-----------------------------------------------------------------------------
(* The read loop: node_updater.go.                                         *)

(* The collection is empty between its Clear and its Add.                  *)
Collected == IF pc["driver"] = "add" THEN 0 ELSE loads

Replacing == pc["driver"] \in {"clear", "add"}

\* A blind's node ignores the answer to a status request.
ReceiveNoStatus ==
  LET f == Head(wire) IN
  /\ pc["loop"] = "idle"
  /\ wire # <<>> /\ f.is # "cfm"
  /\ Collected # 0
  /\ node' = [node EXCEPT ![Collected].pos =
                 IF Valid(f.pos) /\ f.is # "status" THEN f.pos ELSE @]
  /\ missed' = Replacing
  /\ IF device.blind
     THEN AfterUpdate("loop", Collected)
     ELSE /\ Goto("loop", "setTarget") /\ on' = [on EXCEPT !["loop"] = Collected]
          /\ UNCHANGED <<wire, pulled>>
  /\ UNCHANGED <<deviceVars, linked, loads, hooked, route, shown, seen, cmd, doubtful>>

(* The position of a report goes into the node unless it is a sentinel.    *)
Receive ==
  LET f == Head(wire) IN
  /\ pc["loop"] = "idle"
  /\ wire # <<>> /\ f.is # "cfm"
  /\ Collected # 0
  /\ node' = [node EXCEPT ![Collected].pos = IF Valid(f.pos) THEN f.pos ELSE @]
  /\ missed' = Replacing
  /\ IF device.blind
     THEN AfterUpdate("loop", Collected)
     ELSE /\ Goto("loop", "setTarget") /\ on' = [on EXCEPT !["loop"] = Collected]
          /\ UNCHANGED <<wire, pulled>>
  /\ UNCHANGED <<deviceVars, linked, loads, hooked, route, shown, seen, cmd, doubtful>>

\* The target of a report is not stored.
TargetForgotten ==
  /\ pc["loop"] = "setTarget"
  /\ AfterUpdate("loop", on["loop"])
  /\ UNCHANGED <<deviceVars, linked, node, loads, hooked, route, shown, seen, cmd, auxVars>>

(* The target goes into the node of a device that is no blind.             *)
SetTarget ==
  LET g == on["loop"] IN
  /\ pc["loop"] = "setTarget"
  /\ node' = [node EXCEPT ![g].target = Head(wire).target]
  /\ AfterUpdate("loop", g)
  /\ UNCHANGED <<deviceVars, linked, loads, hooked, route, shown, seen, cmd, auxVars>>

(* A report about a node that is not in the collection changes no node.    *)
Unclaimed ==
  /\ pc["loop"] = "idle"
  /\ wire # <<>> /\ Head(wire).is # "cfm"
  /\ Collected = 0
  /\ missed' = Replacing
  /\ Finish("loop")
  /\ UNCHANGED <<deviceVars, linked, node, loads, hooked, route, shown, seen, cmd, doubtful>>

(* The confirmation of a command reaches the handler that waits for it; an *)
(* error is logged, and the command is over.                               *)
Over(h) ==
  /\ Goto(h, "idle")
  /\ on' = [on EXCEPT ![h] = 0]
  /\ cmd' = [cmd EXCEPT ![h] = NoCommand]

Confirmed(h) == IF cmd[h].is \in {"ON", "OFF"} THEN "limits" ELSE "update"

Confirm ==
  LET f == Head(wire) IN
  /\ pc["loop"] = "idle"
  /\ wire # <<>> /\ f.is = "cfm"
  /\ wire' = Tail(wire)
  /\ IF pc[f.for] = "wait"
     THEN IF f.ok THEN Goto(f.for, Confirmed(f.for)) /\ UNCHANGED <<on, cmd>> ELSE Over(f.for)
     ELSE UNCHANGED <<pc, on, cmd>>
  /\ UNCHANGED <<deviceVars, linked, nodeVars, shown, seen, auxVars>>

ReadLoop == Receive \/ SetTarget \/ Unclaimed \/ Confirm

-----------------------------------------------------------------------------
(* An MQTT handler: handleCoverCommand, handleKeepOpenCommand.             *)

\* The awning's commands are those of a shutter.
ParameterUninverted(c, p) ==
  CASE c = "OPEN" -> 0 [] c = "CLOSE" -> 100 [] c = "SET" -> p [] OTHER -> Current

(* openFunc and closeFunc swap for an inverted cover; a number is taken as *)
(* it is.                                                                  *)
Parameter(c, p) ==
  CASE c = "OPEN"  -> IF device.inverted THEN 100 ELSE 0
    [] c = "CLOSE" -> IF device.inverted THEN 0 ELSE 100
    [] c = "SET"   -> p
    [] OTHER       -> Current

(* A handler is a name for a goroutine; it is not given to another while   *)
(* an answer to the first is under way.                                    *)
Free(h) == pc[h] = "idle" /\ \A i \in DOMAIN wire : ~(wire[i].is = "cfm" /\ wire[i].for = h)

(* A blind enters its new position before it sends the command.            *)
Handle(h) ==
  /\ Free(h) /\ route # 0
  /\ \E c \in Payloads, p \in Stops :
       LET to == Parameter(c, p) IN
       /\ c # "SET" => p = 0
       /\ cmd' = [cmd EXCEPT ![h] = [is |-> c, to |-> to]]
       /\ node' = IF device.blind /\ c \notin {"ON", "OFF"}
                  THEN [node EXCEPT ![route].target = to, ![route].pos = to] ELSE node
  /\ on' = [on EXCEPT ![h] = route]
  /\ Goto(h, "send")
  /\ UNCHANGED <<deviceVars, linked, wire, loads, pulled, hooked, route, shown, seen, auxVars>>

(* SetLimitation was confirmed: the node keeps the limit.                  *)
Limits(h) ==
  /\ pc[h] = "limits"
  /\ node' = [node EXCEPT ![on[h]].max = IF cmd[h].is = "ON" THEN 0 ELSE Ignore]
  /\ AfterUpdate(h, on[h])
  /\ UNCHANGED <<deviceVars, linked, loads, hooked, route, shown, seen, cmd, auxVars>>

(* No connection, or none any more.                                        *)
Fail(h) ==
  /\ \/ pc[h] = "send" /\ ~linked
     \/ pc[h] = "wait" /\ \A i \in DOMAIN wire : ~(wire[i].is = "cfm" /\ wire[i].for = h)
  /\ Over(h)
  /\ UNCHANGED <<deviceVars, linked, wire, nodeVars, shown, seen, auxVars>>

(* The deadline; the gateway may have carried the command out.             *)
Timeout(h) ==
  /\ "timeout" \in Faults
  /\ pc[h] = "wait"
  /\ Over(h)
  /\ UNCHANGED <<deviceVars, linked, wire, nodeVars, shown, seen, auxVars>>

-----------------------------------------------------------------------------
(* The gateway.                                                            *)

Pos == IF vague THEN Unknown ELSE at

(* A change is reported in a session that monitors the house status.       *)
Changed(p, g) == [is |-> "changed", pos |-> p, target |-> g]
Room(n) == linked => Len(wire) + n <= MaxWire

(* A limitation keeps the device at 0.                                     *)
Allowed(p) == IF limited THEN 0 ELSE p

Accept(h) ==
  LET g == IF cmd[h].to = Current THEN at ELSE Allowed(cmd[h].to)
      yes == <<[is |-> "cfm", for |-> h, ok |-> TRUE]>> IN
  IF cmd[h].is \in {"ON", "OFF"}
  THEN /\ limited' = (cmd[h].is = "ON")
       /\ wire' = wire \o yes
       /\ UNCHANGED <<goal, order>>
  ELSE /\ goal' = g
       /\ wire' = wire \o yes \o IF g # goal THEN <<Changed(Pos, g)>> ELSE <<>>
       /\ order' = IF cmd[h].is \in {"OPEN", "CLOSE"} /\ ~limited THEN cmd[h].is ELSE "none"
       /\ UNCHANGED limited

Reject(h) ==
  /\ "reject" \in Faults
  /\ wire' = Append(wire, [is |-> "cfm", for |-> h, ok |-> FALSE])
  /\ UNCHANGED <<limited, goal, order>>

Send(h) ==
  /\ pc[h] = "send" /\ linked /\ Room(2)
  /\ Goto(h, "wait")
  /\ Accept(h) \/ Reject(h)
  /\ UNCHANGED <<device, at, vague, linked, nodeVars, shown, on, seen, cmd, auxVars>>

Report(p, g) == wire' = IF linked THEN Append(wire, Changed(p, g)) ELSE wire

(* The device moves, and the gateway knows where it is.                    *)
Travel ==
  /\ at # goal /\ Room(1)
  /\ at' \in {p \in Stops : (at < p /\ p <= goal) \/ (goal <= p /\ p < at)}
  /\ vague' = FALSE
  /\ Report(at', goal)
  /\ UNCHANGED <<device, goal, limited, order, linked, nodeVars, shown, pc, on, seen, cmd, auxVars>>

(* Somebody else moves the device: a remote control, a rain sensor.        *)
Remote ==
  /\ "remote" \in Faults
  /\ Room(1)
  /\ \E p \in Stops : goal' = Allowed(p)
  /\ goal' # goal
  /\ order' = "none"
  /\ Report(Pos, goal')
  /\ UNCHANGED <<device, at, limited, vague, linked, nodeVars, shown, pc, on, seen, cmd, auxVars>>

(* What is on the wire is lost with the session.                           *)
Hangup ==
  /\ linked' = FALSE
  /\ wire' = IF pc["loop"] = "idle" THEN <<>> ELSE <<Head(wire)>>

Drop ==
  /\ "drop" \in Faults
  /\ linked
  /\ Hangup
  /\ UNCHANGED <<deviceVars, nodeVars, shown, pc, on, seen, cmd, auxVars>>

(* The heartbeat asks for the state of blinds.                             *)
Pulse ==
  /\ device.blind /\ linked /\ loads # 0
  /\ pc["driver"] = "idle"
  /\ Room(1)
  /\ wire' = Append(wire, [is |-> "status", pos |-> Pos, target |-> goal])
  /\ UNCHANGED <<deviceVars, linked, nodeVars, shown, pc, on, seen, cmd, auxVars>>

-----------------------------------------------------------------------------
(* The driver: connectAndLoad after a Disconnect, then Register.           *)

Step(from, to) == pc["driver"] = from /\ Goto("driver", to)

Disconnect ==
  /\ Step("idle", "connect")
  /\ loads < MaxLoads
  /\ Hangup
  /\ UNCHANGED <<deviceVars, nodeVars, shown, on, seen, cmd, auxVars>>

(* House-status monitoring is enabled before the nodes are loaded.  A      *)
(* gateway that was restarted may not know where its devices are.          *)
Connect ==
  /\ Step("connect", "request")
  /\ pc["loop"] = "idle"
  /\ linked' = TRUE
  /\ vague' \in {vague, "vague" \in Faults}
  /\ UNCHANGED <<device, at, goal, limited, order, wire, nodeVars, shown, on, seen, cmd, auxVars>>

Request ==
  /\ Step("request", "load")
  /\ linked /\ Room(1)
  /\ wire' = Append(wire, [is |-> "info", pos |-> Pos, target |-> goal])
  /\ missed' = FALSE
  /\ UNCHANGED <<deviceVars, linked, nodeVars, shown, on, seen, cmd, doubtful>>

LoadFails ==
  /\ Step("request", "idle") \/ Step("load", "idle")
  /\ ~linked
  /\ UNCHANGED <<deviceVars, linked, wire, nodeVars, shown, on, seen, cmd, auxVars>>

Clear ==
  /\ Step("clear", "add")
  /\ UNCHANGED <<deviceVars, linked, wire, nodeVars, shown, on, seen, cmd, auxVars>>

(* newOpeningDevice: the limits of a new node are not known.               *)
Add ==
  /\ Step("add", "hook")
  /\ loads' = loads + 1
  /\ node' = [node EXCEPT ![loads'] =
                [pos |-> pulled.pos, target |-> pulled.target, max |-> Ignore]]
  /\ pulled' = [pos |-> 0, target |-> 0]
  /\ UNCHANGED <<deviceVars, linked, wire, hooked, route, shown, on, seen, cmd, auxVars>>

Hook ==
  /\ Step("hook", "subscribe")
  /\ hooked' = hooked \cup {loads}
  /\ UNCHANGED <<deviceVars, linked, wire, node, loads, pulled, route, shown, on, seen, cmd, auxVars>>

Subscribe ==
  /\ Step("subscribe", "update")
  /\ route' = loads
  /\ on' = [on EXCEPT !["driver"] = loads]
  /\ UNCHANGED <<deviceVars, linked, wire, node, loads, pulled, hooked, shown, seen, cmd, auxVars>>

Driver ==
  \/ Disconnect \/ Connect \/ Request \/ LoadFails
  \/ Clear \/ Add \/ Hook \/ Subscribe

-----------------------------------------------------------------------------

Next ==
  \/ ReadLoop \/ Driver
  \/ \E t \in Threads : UpdateNode(t)
  \/ \E h \in Handlers : Handle(h) \/ Send(h) \/ Limits(h) \/ Fail(h) \/ Timeout(h)
  \/ Travel \/ Remote \/ Drop \/ Pulse

SafetySpec == Init /\ [][Next]_vars

(* Goroutines run and the device arrives where it goes.  The heartbeat     *)
(* pulses again and again; its request gets its turn on the connection.    *)
(* Nobody has to send a command or to reload.                              *)
Fairness ==
  /\ WF_vars(ReadLoop \/ UpdateNode("loop"))
  /\ WF_vars(Connect \/ Request \/ LoadFails \/ Clear \/ Add \/ Hook \/ Subscribe
             \/ UpdateNode("driver"))
  /\ \A h \in Handlers : WF_vars(Send(h) \/ Limits(h) \/ Fail(h) \/ UpdateNode(h))
  /\ WF_vars(Travel)
  /\ SF_vars(Pulse)

Spec == SafetySpec /\ Fairness

-----------------------------------------------------------------------------
(* Safety.                                                                 *)

(* Nothing is under way between the gateway and the broker.                *)
Quiet == linked /\ wire = <<>> /\ \A t \in Threads : pc[t] = "idle"

(* What the broker retains of a device that is no blind is where the       *)
(* device is, where it is going and whether its node is limited, unless    *)
(* the last UpdateNode began beside another one or for a replaced node, or *)
(* the last report fell between the answer to a load and the new node.     *)
BrokerIsCurrent ==
  Quiet /\ ~doubtful =>
    /\ ~device.blind /\ ~missed =>
         /\ shown.position = ValidatePosition(Pos)
         /\ shown.state = CoverState(Pos, goal, device.inverted)
    /\ shown.keepopen = "on" <=> node[loads].max = 0

(* OPEN opens and CLOSE closes, as Home Assistant reads the topics: for a  *)
(* device with inverted commands, states and position_open alike.          *)
PositionOpen == IF device.inverted THEN 100 ELSE 0
PositionClosed == IF device.inverted THEN 0 ELSE 100

CommandsMeanWhatTheySay ==
  Quiet /\ ~doubtful /\ ~missed /\ ~device.blind /\ ~vague =>
    /\ order = "OPEN" =>
         IF at = goal THEN shown.state = "open" /\ shown.position = PositionOpen
                      ELSE shown.state = "opening"
    /\ order = "CLOSE" =>
         IF at = goal THEN shown.state = "closed" /\ shown.position = PositionClosed
                      ELSE shown.state = "closing"

-----------------------------------------------------------------------------
(* Liveness.                                                               *)

(* Whatever a blind's node was given before a command failed or was        *)
(* overtaken: once commands, reloads and losses end, the heartbeat makes   *)
(* the position right.                                                     *)
Calm == <>[][\A h \in Handlers : ~Handle(h)]_vars /\ <>[](linked /\ ~vague /\ at = goal)

BlindPositionHeals ==
  device.blind /\ Calm => <>[](shown.position = at)

-----------------------------------------------------------------------------
(* What the documents say and the code does not do.                        *)

(* README: the keep-open topic says whether keep-open is active.  Once the *)
(* gateway has confirmed a limitation to this process, and while it holds, *)
(* the topic is on.                                                        *)
Confirmation == \E g \in Loads : node[g].max = 0

KeepOpenIsShown == Quiet /\ ~doubtful /\ limited /\ Confirmation => shown.keepopen = "on"
=============================================================================
