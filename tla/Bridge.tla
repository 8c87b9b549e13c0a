------------------------------- MODULE Bridge -------------------------------
(***************************************************************************)
(* The bridge to MQTT (app/bridge): the map of covers, discovery, and the  *)
(* publishes of the goroutines that share them                             *)
(*                                                                         *)
(*   "main"      App.Start and App.Stop                                    *)
(*   "health"    checkHealth: availability, recovery operations            *)
(*   "periodic"  the maintenance: recovery operations                      *)
(*   Updaters    the read loop and the handlers of commands, which call    *)
(*               UpdateNode                                                *)
(*                                                                         *)
(* Module Recovery has what decides on the recovery operations, with a     *)
(* broker that is always there; module Cover has position, state and       *)
(* keep-open of one cover.  Here the broker goes away and comes back.  A   *)
(* publish in the meantime is given up after a while and its caller goes   *)
(* on; when the broker is back the library sends all it has kept, in no    *)
(* particular order.  A broker that is there answers before the timeout.   *)
(***************************************************************************)
EXTENDS Integers, Sequences, FiniteSets

CONSTANTS
  Covers,   (* the ids of the covers, one per node: see README             *)
  Updaters, (* goroutines that call UpdateNode                             *)
  MaxJobs,  (* bound on what the goroutines begin                          *)
  MaxOutages (* bound on the outages of the broker; one may last for ever  *)

Loops      == {"health", "periodic"}
Publishers == {"main"} \cup Loops \cup Updaters
Nobody     == "nobody"

ASSUME BridgeAssumption ==
  /\ Updaters \cap ({"main", Nobody} \cup Loops) = {}
  /\ MaxJobs \in Nat /\ MaxOutages \in Nat

(* NewTopics: the topics of a cover and of its keep-open switch that this  *)
(* module is about, the configs of both for discovery, and the plug.       *)
DiscoveryTopics    == Covers \X {"cover/config", "switch/config"}
AvailabilityTopics == Covers \X {"available", "keepopen/available"}
PlugTopic == <<"plug", "set">>
Topics == DiscoveryTopics \cup AvailabilityTopics \cup {PlugTopic}

Payloads == {"config", "", "online", "offline", "ON", "OFF"}

VARIABLES
  stage,      \* starting, running, stopping (loops asked to end), closing, closed, exited, crashed
  wedged,     \* App.wedged
  lock,       \* who holds App.resetMu
  covers,     \* Manager.covers: the ids
  discovered, \* discoveredTopics
  hooked,     \* the nodes whose updates reach UpdateNode
  doing,      \* per goroutine: what it does
  left,       \* per goroutine: what it has yet to do, as step lists in no order
  job,        \* per goroutine: the step list it is in
  online,     \* whether the broker is reachable
  outages,    \* how often it was not
  flight,     \* publishes on their way: [topic, payload, by]; by Nobody once given up
  shown,      \* per topic: the last payload that landed
  mixed,      \* topics where the last to land was one of several that were kept
  spoke,      \* nodes that were updated after Stop began to close the covers
  jobs        \* how much was begun

process == <<stage, wedged, lock, covers, discovered, hooked, spoke, jobs>>
work    == <<doing, left, job>>
broker  == <<online, outages, flight, shown, mixed>>
vars    == <<process, work, broker>>

Tasks == {"rest", "cycle", "register", "down", "up", "update", "close", "clean"}
Locked == {"cycle", "register"}

-----------------------------------------------------------------------------
(* Step lists.                                                             *)

Publish(t, payload) == [do |-> "publish", topic |-> t, payload |-> payload]
Record(t) == [do |-> "record", topic |-> t]
Hook(c) == [do |-> "hook", cover |-> c]
Put(c)  == [do |-> "put", cover |-> c]

PublishAvailability(c, payload) ==
  <<Publish(<<c, "available">>, payload), Publish(<<c, "keepopen/available">>, payload)>>

\* The config of the switch is not remembered.
PublishDiscoveryUnrecorded(c) ==
  <<Publish(<<c, "cover/config">>, "config"), Publish(<<c, "switch/config">>, "config"),
    Record(<<c, "cover/config">>)>>

PublishDiscovery(c) ==
  <<Publish(<<c, "cover/config">>, "config"), Publish(<<c, "switch/config">>, "config"),
    Record(<<c, "cover/config">>), Record(<<c, "switch/config">>)>>

(* UpdateNode, but for what module Cover has.                              *)
UpdateNode(c) == PublishAvailability(c, "online")

(* Cover.Start and its entry into the map.  Start publishes online, and    *)
(* UpdateNode does so again: once here.  The subscriptions are left to the *)
(* library, which keeps them across reconnects.                            *)
Start(c) ==
  PublishDiscovery(c) \o <<Hook(c)>> \o UpdateNode(c) \o <<Put(c)>>

Register == {Start(c) : c \in Covers}
MarkAll(payload) == {PublishAvailability(c, payload) : c \in covers}
Cleanup == {<<Publish(t, "")>> : t \in discovered}

-----------------------------------------------------------------------------

TypeOK ==
  /\ stage \in {"starting", "running", "stopping", "closing", "closed", "exited", "crashed"}
  /\ wedged \in BOOLEAN
  /\ \A p \in Publishers : doing[p] \in Tasks
  /\ stage # "crashed" => \A p \in Loops : lock = p <=> doing[p] \in Locked
  /\ covers \subseteq Covers /\ hooked \subseteq Covers /\ spoke \subseteq Covers
  /\ discovered \subseteq DiscoveryTopics
  /\ \A m \in flight : m.topic \in Topics /\ m.payload \in Payloads
  /\ \A m, n \in flight : m.by = n.by /\ m.by # Nobody => m = n
  /\ shown \in [Topics -> Payloads \cup {"none"}]
  /\ mixed \subseteq Topics /\ online \in BOOLEAN /\ outages \in 0 .. MaxOutages
  /\ jobs \in 0 .. MaxJobs

Init ==
  /\ stage = "starting" /\ wedged = FALSE /\ lock = Nobody
  /\ covers = {} /\ discovered = {} /\ hooked = {} /\ spoke = {} /\ jobs = 0
  /\ doing = [p \in Publishers |-> IF p = "main" THEN "register" ELSE "rest"]
  /\ left = [p \in Publishers |-> IF p = "main" THEN Register ELSE {}]
  /\ job = [p \in Publishers |-> <<>>]
  /\ online = TRUE /\ outages = 0 /\ flight = {} /\ mixed = {}
  /\ shown = [t \in Topics |-> IF t = PlugTopic THEN "ON" ELSE "none"]

-----------------------------------------------------------------------------
(* One publish.                                                            *)

Alive == stage \notin {"exited", "crashed"}

Waits(p) == \E m \in flight : m.by = p
Next1(p, do) == job[p] # <<>> /\ Head(job[p]).do = do
Advance(p) == job' = [job EXCEPT ![p] = Tail(@)]

(* MQTT.publish starts a goroutine that publishes and waits for it.        *)
Submit(p) ==
  /\ Alive /\ ~Waits(p) /\ Next1(p, "publish")
  /\ flight' = flight \cup {[topic |-> Head(job[p]).topic, payload |-> Head(job[p]).payload,
                             by |-> p]}
  /\ UNCHANGED <<process, work, online, outages, shown, mixed>>

(* The broker has the message, and its caller goes on.                     *)
Land(m) ==
  /\ Alive /\ online
  /\ flight' = flight \ {m}
  /\ shown' = [shown EXCEPT ![m.topic] = m.payload]
  /\ mixed' = mixed \ {m.topic}
  /\ Advance(m.by)
  /\ UNCHANGED <<process, doing, left, online, outages>>

Outage ==
  /\ online /\ outages < MaxOutages
  /\ online' = FALSE /\ outages' = outages + 1
  /\ UNCHANGED <<process, work, flight, shown, mixed>>

Kept(t) == {m.payload : m \in {n \in flight : n.topic = t}}

BrokerIsBack ==
  /\ Alive /\ ~online /\ online' = TRUE
  /\ flight' = {}
  /\ \E last \in SUBSET flight :
       /\ \A m \in flight : \E n \in last : n.topic = m.topic
       /\ \A m, n \in last : m.topic = n.topic => m = n
       /\ shown' = [t \in Topics |-> IF Kept(t) = {} THEN shown[t]
                                      ELSE (CHOOSE m \in last : m.topic = t).payload]
  /\ mixed' = {t \in Topics : IF Kept(t) = {} THEN t \in mixed ELSE Cardinality(Kept(t)) > 1}
  /\ job' = [p \in Publishers |-> IF Waits(p) THEN Tail(job[p]) ELSE job[p]]
  /\ UNCHANGED <<process, doing, left, outages>>

\* publishFn is called without a bound.
NeverGivesUp(p) == FALSE /\ UNCHANGED vars

(* The publish timeout: the message stays on its way.                      *)
GiveUp(p) ==
  /\ Alive /\ ~online
  /\ \E m \in flight :
       /\ m.by = p
       /\ flight' = (flight \ {m}) \cup {[m EXCEPT !.by = Nobody]}
  /\ Advance(p)
  /\ UNCHANGED <<process, doing, left, online, outages, shown, mixed>>

-----------------------------------------------------------------------------
(* The other steps, and the order of step lists.                           *)

RecordDiscoveryTopic(p) ==
  /\ Alive /\ Next1(p, "record") /\ Advance(p)
  /\ discovered' = discovered \cup {Head(job[p]).topic}
  /\ UNCHANGED <<stage, wedged, lock, covers, hooked, spoke, jobs, doing, left, broker>>

RegisterCallback(p) ==
  /\ Alive /\ Next1(p, "hook") /\ Advance(p)
  /\ hooked' = hooked \cup {Head(job[p]).cover}
  /\ UNCHANGED <<stage, wedged, lock, covers, discovered, spoke, jobs, doing, left, broker>>

Insert(p) ==
  /\ Alive /\ Next1(p, "put") /\ Advance(p)
  /\ covers' = covers \cup {Head(job[p]).cover}
  /\ UNCHANGED <<stage, wedged, lock, discovered, hooked, spoke, jobs, doing, left, broker>>

Iterate(p) ==
  /\ Alive /\ job[p] = <<>>
  /\ \E steps \in left[p] :
       /\ job' = [job EXCEPT ![p] = steps]
       /\ left' = [left EXCEPT ![p] = @ \ {steps}]
  /\ UNCHANGED <<process, doing, broker>>

Finished(p) == Alive /\ job[p] = <<>> /\ left[p] = {}

Steps(p) ==
  \/ Submit(p) \/ GiveUp(p)
  \/ RecordDiscoveryTopic(p) \/ RegisterCallback(p) \/ Insert(p) \/ Iterate(p)

-----------------------------------------------------------------------------
(* What the goroutines do.                                                 *)

Begin(p, task, lists) ==
  /\ doing[p] = "rest" /\ jobs < MaxJobs
  /\ doing' = [doing EXCEPT ![p] = task]
  /\ left' = [left EXCEPT ![p] = lists]
  /\ jobs' = jobs + 1
  /\ UNCHANGED job

(* After Stop has closed stopCh a loop goes on to the end of its tick.     *)
Looping == stage \in {"running", "stopping"}

Rest(p) == doing' = [doing EXCEPT ![p] = "rest"] /\ UNCHANGED <<left, job, jobs>>

\* The operations of two loops at a time.
ReloadUnlocked(p) ==
  /\ Looping
  /\ lock' = p
  /\ Begin(p, "register", Register)
  /\ hooked' = {}
  /\ UNCHANGED <<stage, wedged, covers, discovered, spoke, broker>>

(* doReconnect and doReboot: with resetMu held the nodes are replaced by   *)
(* new ones and registered.                                                *)
Reload(p) ==
  /\ Looping
  /\ lock = Nobody /\ lock' = p
  /\ Begin(p, "register", Register)
  /\ hooked' = {}
  /\ UNCHANGED <<stage, wedged, covers, discovered, spoke, broker>>

\* The order of the plug commands.
PowerCycleSwapped(p) ==
  /\ Looping
  /\ lock = Nobody /\ lock' = p
  /\ Begin(p, "cycle", {<<Publish(PlugTopic, "ON"), Publish(PlugTopic, "OFF")>>})
  /\ UNCHANGED <<stage, wedged, covers, discovered, hooked, spoke, broker>>

(* doPowerCycle: OFF, ON, and then the same.                               *)
PowerCycle(p) ==
  /\ Looping
  /\ lock = Nobody /\ lock' = p
  /\ Begin(p, "cycle", {<<Publish(PlugTopic, "OFF"), Publish(PlugTopic, "ON")>>})
  /\ UNCHANGED <<stage, wedged, covers, discovered, hooked, spoke, broker>>

(* The new nodes, or none if the gateway does not come back.               *)
PowerIsBack(p) ==
  /\ Finished(p) /\ doing[p] = "cycle"
  /\ \/ /\ doing' = [doing EXCEPT ![p] = "register"]
        /\ left' = [left EXCEPT ![p] = Register]
        /\ hooked' = {} /\ UNCHANGED <<job, jobs, lock>>
     \/ /\ Rest(p) /\ lock' = Nobody /\ hooked' = {}
  /\ UNCHANGED <<stage, wedged, covers, discovered, spoke, broker>>

\* The lock is not released.
ReturnLocked(p) ==
  /\ Finished(p) /\ doing[p] = "register"
  /\ Rest(p)
  /\ UNCHANGED <<stage, wedged, lock, covers, discovered, hooked, spoke, broker>>

Return(p) ==
  /\ Finished(p) /\ doing[p] = "register"
  /\ Rest(p) /\ lock' = Nobody
  /\ UNCHANGED <<stage, wedged, covers, discovered, hooked, spoke, broker>>

(* checkHealth, wedged: MarkAllUnavailable, outside resetMu.               *)
MarkAllUnavailable ==
  /\ Looping /\ ~wedged /\ wedged' = TRUE
  /\ Begin("health", "down", MarkAll("offline"))
  /\ UNCHANGED <<stage, lock, covers, discovered, hooked, spoke, broker>>

\* The flag goes down and nothing is published.
MarkNothingAvailable ==
  /\ Looping /\ wedged /\ wedged' = FALSE
  /\ Begin("health", "up", {})
  /\ UNCHANGED <<stage, lock, covers, discovered, hooked, spoke, broker>>

MarkAllAvailable ==
  /\ Looping /\ wedged /\ wedged' = FALSE
  /\ Begin("health", "up", MarkAll("online"))
  /\ UNCHANGED <<stage, lock, covers, discovered, hooked, spoke, broker>>

Marked ==
  /\ Finished("health") /\ doing["health"] \in {"down", "up"}
  /\ Rest("health")
  /\ UNCHANGED <<stage, wedged, lock, covers, discovered, hooked, spoke, broker>>

(* AfterUpdate of a node, from the read loop or after a command; as long   *)
(* as there is a connection.                                               *)
Update(u) ==
  /\ Alive /\ stage # "closed"
  /\ \E c \in hooked :
       /\ Begin(u, "update", {UpdateNode(c)})
       /\ spoke' = IF stage = "closing" THEN spoke \cup {c} ELSE spoke
  /\ UNCHANGED <<stage, wedged, lock, covers, discovered, hooked, broker>>

Updated(u) ==
  /\ Finished(u) /\ doing[u] = "update"
  /\ Rest(u)
  /\ UNCHANGED <<stage, wedged, lock, covers, discovered, hooked, spoke, broker>>

-----------------------------------------------------------------------------
(* main.                                                                   *)

(* App.Start has registered the covers and starts the loops.               *)
Started ==
  /\ stage = "starting" /\ Finished("main")
  /\ stage' = "running"
  /\ Rest("main")
  /\ UNCHANGED <<wedged, lock, covers, discovered, hooked, spoke, broker>>

(* The reboot of App.Start registers the new nodes once more; there is no  *)
(* reboot if it took a power cycle to start.                               *)
StartupReboot ==
  /\ stage = "starting" /\ Finished("main") /\ jobs < MaxJobs
  /\ left' = [left EXCEPT !["main"] = Register] /\ jobs' = jobs + 1
  /\ hooked' = {}
  /\ UNCHANGED <<stage, wedged, lock, covers, discovered, spoke, doing, job, broker>>

(* App.Stop closes stopCh.                                                 *)
Stop ==
  /\ stage = "running" /\ stage' = "stopping"
  /\ UNCHANGED <<wedged, lock, covers, discovered, hooked, spoke, jobs, work, broker>>

Updating == {c \in Covers : \E u \in Updaters : doing[u] = "update" /\
                \/ UpdateNode(c) \in left[u]
                \/ job[u] # <<>> /\ Head(job[u]).topic[1] = c}

\* CloseAll clears the configs only.
JoinAndClean ==
  /\ stage = "stopping" /\ stage' = "closing"
  /\ \A p \in Loops : doing[p] = "rest"
  /\ doing' = [doing EXCEPT !["main"] = "close"]
  /\ spoke' = Updating
  /\ UNCHANGED <<wedged, lock, covers, discovered, hooked, jobs, left, job, broker>>

(* loopsWG.Wait, and Manager.CloseAll: every cover offline, ...            *)
Join ==
  /\ stage = "stopping" /\ stage' = "closing"
  /\ \A p \in Loops : doing[p] = "rest"
  /\ doing' = [doing EXCEPT !["main"] = "close"]
  /\ left' = [left EXCEPT !["main"] = MarkAll("offline")]
  /\ spoke' = Updating
  /\ UNCHANGED <<wedged, lock, covers, discovered, hooked, jobs, job, broker>>

(* ... and CleanupDiscovery: every topic recorded is cleared.              *)
CleanupDiscovery ==
  /\ Finished("main") /\ doing["main"] = "close"
  /\ doing' = [doing EXCEPT !["main"] = "clean"]
  /\ left' = [left EXCEPT !["main"] = Cleanup]
  /\ discovered' = {}
  /\ UNCHANGED <<stage, wedged, lock, covers, hooked, spoke, jobs, job, broker>>

(* The connection to the gateway is closed; no more updates begin.         *)
Disconnect ==
  /\ Finished("main") /\ doing["main"] = "clean"
  /\ Rest("main") /\ stage' = "closed"
  /\ UNCHANGED <<wedged, lock, covers, discovered, hooked, spoke, broker>>

(* The process ends, and with it what is still on its way.                 *)
Exit ==
  /\ stage = "closed" /\ stage' = "exited"
  /\ flight' = {} /\ mixed' = mixed \cup {m.topic : m \in flight}
  /\ doing' = [p \in Publishers |-> "rest"]
  /\ left' = [p \in Publishers |-> {}] /\ job' = [p \in Publishers |-> <<>>]
  /\ UNCHANGED <<wedged, lock, covers, discovered, hooked, spoke, jobs, online, outages, shown>>

Writing(p) == Next1(p, "put")
Ranging(p) == doing[p] \in {"down", "up", "close"}

(* The runtime ends a process that it finds writing a map while another    *)
(* goroutine writes it or ranges over it; it need not find it.             *)
MapFault ==
  /\ Alive
  /\ \E p, q \in Publishers : p # q /\ Writing(q) /\ (Ranging(p) \/ Writing(p))
  /\ stage' = "crashed"
  /\ flight' = {}
  /\ doing' = [p \in Publishers |-> "rest"]
  /\ left' = [p \in Publishers |-> {}] /\ job' = [p \in Publishers |-> <<>>]
  /\ UNCHANGED <<wedged, lock, covers, discovered, hooked, spoke, jobs, online, outages,
                 shown, mixed>>

-----------------------------------------------------------------------------

Answered(p) == \E m \in flight : m.by = p /\ Land(m)

Main == Started \/ Join \/ CleanupDiscovery \/ Disconnect \/ Exit

Next ==
  \/ Main \/ StartupReboot \/ Stop
  \/ \E p \in Publishers : Steps(p)
  \/ \E m \in flight : Land(m)
  \/ \E p \in Loops : Reload(p) \/ PowerCycle(p) \/ PowerIsBack(p) \/ Return(p)
  \/ MarkAllUnavailable \/ MarkAllAvailable \/ Marked
  \/ \E u \in Updaters : Update(u) \/ Updated(u)
  \/ Outage \/ BrokerIsBack
  \/ MapFault

(* Goroutines run, timers fire, and a broker that is there answers who     *)
(* waits.  It need not come back.                                          *)
Fairness ==
  /\ \A p \in Publishers : WF_vars(Answered(p))
  /\ \A p \in Publishers : WF_vars(Steps(p))
  /\ \A p \in Loops : WF_vars(PowerIsBack(p) \/ Return(p))
  /\ \A u \in Updaters : WF_vars(Updated(u))
  /\ WF_vars(Marked) /\ WF_vars(Main)

Spec == Init /\ [][Next]_vars /\ Fairness

-----------------------------------------------------------------------------
(* Safety.                                                                 *)

OnItsWay(t, payload) == \E m \in flight : m.topic = t /\ m.payload = payload

(* While the bridge runs, a cover that is shown offline is one that the    *)
(* health check will put online again, or an online message is on its way  *)
(* (app.go:558): whatever publishes were given up, registrations and       *)
(* updates came between.  Excepted is a topic on which a message was given *)
(* up and another one sent before the broker was back: the two may land in *)
(* either order.                                                           *)
OfflineIsMeant ==
  stage = "running" =>
    \A t \in AvailabilityTopics \ mixed :
      shown[t] = "offline" =>
        wedged \/ doing["health"] = "up" \/ OnItsWay(t, "online")

(* After the last command of a power cycle the plug is on, or will be when *)
(* the command lands; with the same exception.                             *)
PlugEndsOn ==
  /\ Alive
  /\ \A p \in Publishers : doing[p] # "cycle"
  /\ PlugTopic \notin mixed
  => shown[PlugTopic] = "ON" \/ OnItsWay(PlugTopic, "ON")

(* A graceful shutdown leaves no config behind (manager.go, CloseAll):     *)
(* every one that was published was recorded before Stop clears them.      *)
DiscoveryIsCleared ==
  stage = "exited" => \A t \in DiscoveryTopics \ mixed : shown[t] \in {"", "none"}

(* A graceful shutdown leaves the covers offline, but for nodes that were  *)
(* updated after CloseAll had begun: the connection is closed after it.    *)
AvailabilityIsWithdrawn ==
  stage = "exited" =>
    \A t \in AvailabilityTopics \ mixed : t[1] \in covers \ spoke => shown[t] = "offline"

(* The map of covers has no lock.  The one way in which it is written      *)
(* while another goroutine is at it is a registration of the maintenance   *)
(* during MarkAllUnavailable or MarkAllAvailable of the health check;      *)
(* CloseAll has the map for itself, and registrations do not overlap.      *)
MapIsExclusive ==
  \A p, q \in Publishers :
    p # q /\ Writing(q) /\ (Ranging(p) \/ Writing(p))
      => q = "periodic" /\ p = "health" /\ doing[p] \in {"down", "up"}

-----------------------------------------------------------------------------
(* Liveness.                                                               *)

(* No goroutine is held up by a broker that does not answer, however long: *)
(* the recovery must not depend on availability being shown                *)
(* (mqtt.go:12-28).                                                        *)
PublishersMoveOn ==
  \A p \in Publishers : doing[p] # "rest" ~> doing[p] = "rest"
=============================================================================
