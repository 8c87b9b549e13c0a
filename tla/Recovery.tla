------------------------------ MODULE Recovery ------------------------------
(***************************************************************************)
(* The recovery runtime of the bridge (app/app.go, app/main.go): one       *)
(* process with three goroutines that drive the KLF200 connection          *)
(*                                                                         *)
(*   "main"      Start, then the wait for a signal, then Stop              *)
(*   "health"    the wedge-detection loop (checkHealth)                    *)
(*   "periodic"  the maintenance loop (runPeriodicRestart)                 *)
(*                                                                         *)
(* They share the recovery operations doReconnect, doReboot and            *)
(* doPowerCycle, which resetMu serialises, the heartbeat, the connection   *)
(* and the availability that is retained on the MQTT broker.  Around the   *)
(* process stand the gateway, the plug that powers it, the supervisor that *)
(* starts the process again, and time.                                     *)
(*                                                                         *)
(* Every goroutine has a program counter; an operation is a sequence of    *)
(* actions between which the others run.  Time is a Tick that ages the     *)
(* last contact and the last power cycle; no step is faster or slower than *)
(* a tick unless a guard says so.                                          *)
(*                                                                         *)
(* The broker is reachable in this module: a publish lands before it       *)
(* returns.  No wait of an operation is cut short by its context: the      *)
(* loops pass context.Background(), and main cancels its context only      *)
(* after Start has returned (main.go:97).  cm.Register never fails: its    *)
(* only error is json.Marshal of a struct of strings.                      *)
(***************************************************************************)
EXTENDS Naturals

CONSTANTS
  Configs,     (* the configurations a process may be started with             *)
  WedgeAfter,  (* ticks of silence after which the gateway is wedged           *)
  MinGap,      (* powerCycleMinGap, in ticks                                   *)
  PauseTicks,  (* the most ticks stopHeartbeat takes (one pulse timeout)       *)
  Attempts,    (* Len(rebootBackoffSchedule)                                   *)
  Faults       (* what may go wrong around the process                         *)

LoopActors == {"health", "periodic"}
Actors     == {"main"} \cup LoopActors

(* What of config.RestartConfig the runtime branches on: a plug topic is   *)
(* set, periodic-power-cycle, restart-on-error, and the loops whose        *)
(* interval is positive (or, for "periodic", that have a time of day).     *)
Config == [plug : BOOLEAN, hard : BOOLEAN, onError : BOOLEAN, loops : SUBSET LoopActors]

FaultKinds == {"freeze", "drop", "refuse", "slowBoot", "crash", "sigterm"}

ASSUME ConfigAssumption ==
  /\ Configs \subseteq Config
  /\ Configs # {}
  /\ Faults \subseteq FaultKinds

ASSUME TimingAssumption ==
  /\ WedgeAfter \in Nat
  /\ MinGap \in Nat
  /\ PauseTicks \in Nat
  /\ PauseTicks <= MinGap
  /\ Attempts \in Nat \ {0}

VARIABLES
  config,      \* what LoadConfig returned to the running process
  pc,          \* where each goroutine is
  op,          \* the recovery operation each goroutine last asked for
  resetMu,     \* the goroutine that holds the lock, or "free"
  tries,       \* reconnect attempts made by the operation that holds the lock
  heartbeat,   \* a heartbeat goroutine is running
  wedged,      \* App.wedged
  wired,       \* the nodes of the client carry the covers' update callbacks
  covers,      \* covers are registered with Home Assistant by this process
  stopped,     \* stopCh is closed
  conn,        \* the connection, as the client and the gateway see it
  contactAge,  \* ticks since lastContact
  cycleAge,    \* ticks since lastPowerCycle
  avail,       \* the availability retained on the broker
  gateway,     \* what the KLF200 is doing
  cutAge,      \* ticks since the plug was last switched off, by any process
  cutBy,       \* whether "this" process or an "earlier" one did that
  stranded     \* a process died and left the plug off

appVars     == <<heartbeat, wedged, wired, covers, stopped>>
plugVars    == <<cutAge, cutBy, stranded>>
controlVars == <<pc, op, resetMu, tries>>
vars == <<config, controlVars, appVars, conn, contactAge, cycleAge, avail, gateway, plugVars>>

Ops        == {"none", "bringup", "reconnect", "reboot", "powercycle"}

\* Inside an operation, in the order in which the three operations pass through.
OpLabels == {"debounce", "pause", "request", "cut", "disconnect", "restore",
             "dial", "auth", "load", "register", "beat", "cleanup"}
\* What an operation returned; the caller has not looked at it yet.
Results  == {"ok", "err", "debounced"}
StopLabels == {"close", "stopHeartbeat", "join", "closeAll", "release", "exited"}
Labels   == OpLabels \cup Results \cup StopLabels
            \cup {"lock", "serving", "down", "gone", "idle", "markUp", "markDown"}

FlagsOK ==
  /\ heartbeat \in BOOLEAN /\ wedged \in BOOLEAN /\ wired \in BOOLEAN
  /\ covers \in BOOLEAN /\ stopped \in BOOLEAN /\ stranded \in BOOLEAN

TypeOK ==
  /\ FlagsOK
  /\ config \in Configs
  /\ pc \in [Actors -> Labels]
  /\ op \in [Actors -> Ops]
  /\ resetMu \in Actors \cup {"free"}
  /\ tries \in 0 .. Attempts
  \* none: no socket; open: TLS up; auth: password accepted; dead: the gateway
  \* has forgotten the session and the read loop has not noticed.
  /\ conn \in {"none", "open", "auth", "dead"}
  /\ contactAge \in 0 .. WedgeAfter + 1
  /\ cycleAge \in 0 .. MinGap
  /\ avail \in {"online", "offline"}
  /\ gateway \in {"up", "frozen", "booting", "dark"}
  /\ cutAge \in 0 .. MinGap
  /\ cutBy \in {"this", "earlier"}

(* The process has not been started; the gateway may be up or frozen, and  *)
(* the plug is on.                                                         *)
Init ==
  /\ config \in Configs
  /\ pc = [a \in Actors |-> IF a = "main" THEN "down" ELSE "gone"]
  /\ op = [a \in Actors |-> "none"]
  /\ resetMu = "free"
  /\ tries = 0
  /\ heartbeat = FALSE /\ wedged = FALSE /\ wired = FALSE
  /\ covers = FALSE /\ stopped = FALSE
  /\ conn = "none"
  /\ contactAge = 0
  /\ cycleAge = MinGap
  /\ avail = "offline"
  /\ gateway \in {"up", "frozen"}
  /\ cutAge = MinGap
  /\ cutBy = "earlier"
  /\ stranded = FALSE

(* RestartConfig.PowerCycleEnabled and PeriodicPowerCycleEnabled.          *)
PowerCycleEnabled == config.plug
PeriodicPowerCycleEnabled == config.hard /\ PowerCycleEnabled

-----------------------------------------------------------------------------
(* Control: moving one goroutine, asking for an operation, returning.      *)

Goto(a, l) == pc' = [pc EXCEPT ![a] = l]

(* The goroutine asks for operation o and queues for resetMu.              *)
Ask(a, o) ==
  /\ Goto(a, "lock")
  /\ op' = [op EXCEPT ![a] = o]
  /\ UNCHANGED <<resetMu, tries>>

(* The operation of a ends with result r and its deferred Unlock runs.     *)
Return(a, r) ==
  /\ Goto(a, r)
  /\ resetMu' = IF resetMu = a THEN "free" ELSE resetMu
  /\ UNCHANGED <<op, tries>>

(* An attempt failed: doReboot and doPowerCycle clean up and try again,    *)
(* doReconnect and the first bring-up of Start return the error.           *)
Fail(a) ==
  IF op[a] \in {"reboot", "powercycle"}
  THEN Goto(a, "cleanup") /\ UNCHANGED <<op, resetMu, tries>>
  ELSE Return(a, "err")

(* The caller has handled a result and its loop waits for the next tick.   *)
Rest(a) ==
  /\ Goto(a, "idle")
  /\ op' = [op EXCEPT ![a] = "none"]
  /\ UNCHANGED <<resetMu, tries>>

Step(a, from, to) ==
  /\ pc[a] = from
  /\ Goto(a, to)
  /\ UNCHANGED <<op, resetMu, tries>>

(* What the gateway and the socket are left with when the gateway restarts *)
(* or loses power: the peer is gone, our end still looks connected.        *)
Orphaned == IF conn = "none" THEN "none" ELSE "dead"

-----------------------------------------------------------------------------
(* Mistakes the code could have made.  No behaviour of the specification   *)
(* takes these steps; each is a variant of an action below, and a property *)
(* of this module rules it out.                                            *)

\* The lock is not taken.
LockIgnored(a) ==
  /\ pc[a] = "lock"
  /\ resetMu' = a
  /\ tries' = 0
  /\ Goto(a, IF op[a] = "powercycle" THEN "debounce" ELSE "pause")
  /\ UNCHANGED <<config, op, appVars, conn, contactAge, cycleAge, avail, gateway, plugVars>>

\* lastPowerCycle is read and never stored.
DebounceUnstamped(a) ==
  /\ pc[a] = "debounce"
  /\ IF cycleAge < MinGap THEN Return(a, "debounced") ELSE Step(a, "debounce", "pause")
  /\ UNCHANGED <<config, appVars, conn, contactAge, cycleAge, avail, gateway, plugVars>>

\* doReboot leaves the heartbeat running.
PauseForgottenByReboot(a) ==
  /\ Step(a, "pause", CASE op[a] = "reconnect"  -> "disconnect"
                        [] op[a] = "reboot"     -> "request"
                        [] op[a] = "powercycle" -> "cut")
  /\ heartbeat' = (heartbeat /\ op[a] = "reboot")
  /\ UNCHANGED <<config, wedged, wired, covers, stopped, conn, contactAge, cycleAge, avail,
                 gateway, plugVars>>

\* The reconnect of a power cycle starts without the ON.
DisconnectThenDial(a) ==
  /\ Step(a, "disconnect", "dial")
  /\ conn' = "none"
  /\ UNCHANGED <<config, appVars, contactAge, cycleAge, avail, gateway, plugVars>>

\* No Disconnect after a failed attempt.
CleanupLeavesOpen(a) ==
  /\ pc[a] = "cleanup"
  /\ tries' = tries + 1
  /\ IF tries + 1 < Attempts
     THEN Goto(a, "dial") /\ UNCHANGED resetMu
     ELSE Goto(a, "err") /\ resetMu' = "free"
  /\ UNCHANGED <<config, op, appVars, conn, contactAge, cycleAge, avail, gateway, plugVars>>

\* One attempt more than the schedule has waits.
CleanupOffByOne(a) ==
  /\ pc[a] = "cleanup"
  /\ conn' = "none"
  /\ tries' = tries + 1
  /\ IF tries <= Attempts
     THEN Goto(a, "dial") /\ UNCHANGED resetMu
     ELSE Goto(a, "err") /\ resetMu' = "free"
  /\ UNCHANGED <<config, op, appVars, contactAge, cycleAge, avail, gateway, plugVars>>

\* Start does not escalate: the process fails, is restarted, and fails again.
StartupNeverEscalates ==
  /\ pc["main"] = "err" /\ op["main"] = "bringup"
  /\ Step("main", "err", "close")
  /\ UNCHANGED <<config, appVars, conn, contactAge, cycleAge, avail, gateway, plugVars>>

\* Stop keeps resetMu while it waits for the loops.
StopKeepsLock ==
  /\ pc["main"] = "stopHeartbeat"
  /\ resetMu = "free" /\ resetMu' = "main"
  /\ Goto("main", "join")
  /\ heartbeat' = FALSE
  /\ UNCHANGED <<config, op, tries, wedged, wired, covers, stopped, conn, contactAge, cycleAge,
                 avail, gateway, plugVars>>

\* Stop does not wait for the loops.
JoinSkipped ==
  /\ Step("main", "join", "closeAll")
  /\ UNCHANGED <<config, appVars, conn, contactAge, cycleAge, avail, gateway, plugVars>>

\* The wedge ends without MarkAllAvailable.
HealthyTickSilent ==
  /\ pc["health"] = "idle"
  /\ contactAge <= WedgeAfter
  /\ wedged' = FALSE
  /\ UNCHANGED <<config, controlVars, heartbeat, wired, covers, stopped, conn, contactAge,
                 cycleAge, avail, gateway, plugVars>>

\* Only a failed reboot escalates; a gateway that takes no session never gets one.
EscalateAfterRebootOnly ==
  /\ pc["health"] = "err" /\ op["health"] \in {"reconnect", "reboot"}
  /\ IF PowerCycleEnabled /\ op["health"] = "reboot"
     THEN Ask("health", "powercycle") ELSE Rest("health")
  /\ UNCHANGED <<config, appVars, conn, contactAge, cycleAge, avail, gateway, plugVars>>

-----------------------------------------------------------------------------
(* The recovery operations.                                                *)

Lock(a) ==
  /\ pc[a] = "lock"
  /\ resetMu = "free"
  /\ resetMu' = a
  /\ tries' = 0
  /\ Goto(a, IF op[a] = "powercycle" THEN "debounce" ELSE "pause")
  /\ UNCHANGED <<config, op, appVars, conn, contactAge, cycleAge, avail, gateway, plugVars>>

(* doPowerCycle refuses a cycle inside the gap, and stamps the cycle       *)
(* before it starts it.                                                    *)
Debounce(a) ==
  /\ pc[a] = "debounce"
  /\ IF cycleAge < MinGap
     THEN Return(a, "debounced") /\ UNCHANGED cycleAge
     ELSE Step(a, "debounce", "pause") /\ cycleAge' = 0
  /\ UNCHANGED <<config, appVars, conn, contactAge, avail, gateway, plugVars>>

(* stopHeartbeatFn: returns once the pulse in flight has ended.            *)
Pause(a) ==
  /\ Step(a, "pause", CASE op[a] = "reconnect"  -> "disconnect"
                        [] op[a] = "reboot"     -> "request"
                        [] op[a] = "powercycle" -> "cut")
  /\ heartbeat' = FALSE
  /\ UNCHANGED <<config, wedged, wired, covers, stopped, conn, contactAge, cycleAge, avail,
                 gateway, plugVars>>

(* GW_REBOOT_REQ.  A frozen gateway does not answer it, and an error is    *)
(* only logged; a gateway that takes it drops every session.               *)
Request(a) ==
  /\ Step(a, "request", "disconnect")
  /\ \/ /\ conn = "auth" /\ gateway = "up"
        /\ gateway' = "booting"
        /\ conn' = Orphaned
        /\ contactAge' = 0
     \/ UNCHANGED <<gateway, conn, contactAge>>
  /\ UNCHANGED <<config, appVars, cycleAge, avail, plugVars>>

(* The OFF payload reaches the plug.                                       *)
Cut(a) ==
  /\ Step(a, "cut", "disconnect")
  /\ gateway' = "dark"
  /\ conn' = Orphaned
  /\ cutAge' = 0
  /\ cutBy' = "this"
  /\ UNCHANGED <<config, appVars, contactAge, cycleAge, avail, stranded>>

Disconnect(a) ==
  /\ Step(a, "disconnect", IF op[a] = "powercycle" THEN "restore" ELSE "dial")
  /\ conn' = "none"
  /\ UNCHANGED <<config, appVars, contactAge, cycleAge, avail, gateway, plugVars>>

(* After the dwell, the ON payload reaches the plug.                       *)
Restore(a) ==
  /\ Step(a, "restore", "dial")
  /\ gateway' = IF gateway = "dark" THEN "booting" ELSE gateway
  /\ stranded' = FALSE
  /\ UNCHANGED <<config, appVars, conn, contactAge, cycleAge, avail, cutAge, cutBy>>

(* connectAndLoad.  What each of its three exchanges needs of the session: *)
(* Connect refuses while a connection is open, and only a gateway that is  *)
(* up completes the handshake or answers.                                  *)
Exchange == [dial |-> "none", auth |-> "open", load |-> "auth"]

Reachable(a) == conn = Exchange[pc[a]] /\ gateway = "up"

Dial(a) ==
  /\ Step(a, "dial", "auth")
  /\ Reachable(a)
  /\ conn' = "open"
  /\ UNCHANGED <<config, appVars, contactAge, cycleAge, avail, gateway, plugVars>>

(* GW_PASSWORD_ENTER.  Its confirmation is an inbound frame like any       *)
(* other and stamps the contact.                                           *)
Authenticate(a) ==
  /\ Step(a, "auth", "load")
  /\ Reachable(a)
  /\ conn' = "auth"
  /\ contactAge' = 0
  /\ UNCHANGED <<config, appVars, cycleAge, avail, gateway, plugVars>>

(* SetUTC and HouseStatusMonitorEnable (their errors are only logged),     *)
(* LoadNodes, recordContact.  LoadNodes replaces the node objects, and     *)
(* with them the callbacks the covers had registered.                      *)
Load(a) ==
  /\ Step(a, "load", "register")
  /\ Reachable(a)
  /\ wired' = FALSE
  /\ contactAge' = 0
  /\ UNCHANGED <<config, heartbeat, wedged, covers, stopped, conn, cycleAge, avail, gateway, plugVars>>

(* An exchange fails because its peer is not there.  Nothing is closed.    *)
(* The backoff schedule outlasts the boot of a gateway unless the boot is  *)
(* slow.                                                                   *)
LastAttempt(a) == op[a] \in {"reboot", "powercycle"} /\ tries + 1 = Attempts

Unreachable(a) ==
  /\ pc[a] \in DOMAIN Exchange
  /\ ~Reachable(a)
  /\ pc[a] = "dial" /\ gateway = "booting" /\ LastAttempt(a) => "slowBoot" \in Faults
  /\ Fail(a)
  /\ UNCHANGED <<config, appVars, conn, contactAge, cycleAge, avail, gateway, plugVars>>

(* A gateway that is there refuses or times out: it is out of slots, the   *)
(* password is wrong, or the node load fails half way.  A rejected         *)
(* password is a frame, and stamps the contact as any other.               *)
Refused(a) ==
  /\ "refuse" \in Faults
  /\ pc[a] \in DOMAIN Exchange
  /\ Reachable(a)
  /\ Fail(a)
  /\ contactAge' \in IF pc[a] = "dial" THEN {contactAge} ELSE {contactAge, 0}
  /\ UNCHANGED <<config, appVars, conn, cycleAge, avail, gateway, plugVars>>

(* Manager.Register: discovery, callbacks, availability and state of every *)
(* cover.  It publishes whatever became of the connection meanwhile.       *)
Register(a) ==
  /\ Step(a, "register", "beat")
  /\ wired' = TRUE
  /\ covers' = TRUE
  /\ avail' = "online"
  /\ UNCHANGED <<config, heartbeat, wedged, stopped, conn, contactAge, cycleAge, gateway, plugVars>>

(* startHeartbeatFn, and the operation returns nil.                        *)
Beat(a) ==
  /\ pc[a] = "beat"
  /\ heartbeat' = TRUE
  /\ Return(a, "ok")
  /\ UNCHANGED <<config, wedged, wired, covers, stopped, conn, contactAge, cycleAge, avail,
                 gateway, plugVars>>

(* Disconnect after a failed attempt; the backoff schedule is finite.      *)
Cleanup(a) ==
  /\ pc[a] = "cleanup"
  /\ conn' = "none"
  /\ tries' = tries + 1
  /\ IF tries + 1 < Attempts
     THEN Goto(a, "dial") /\ UNCHANGED resetMu
     ELSE Goto(a, "err") /\ resetMu' = "free"
  /\ UNCHANGED <<config, op, appVars, contactAge, cycleAge, avail, gateway, plugVars>>

OpStep(a) ==
  \/ Debounce(a) \/ Pause(a) \/ Request(a) \/ Cut(a) \/ Disconnect(a) \/ Restore(a)
  \/ Dial(a) \/ Authenticate(a) \/ Load(a) \/ Unreachable(a) \/ Refused(a)
  \/ Register(a) \/ Beat(a) \/ Cleanup(a)

-----------------------------------------------------------------------------
(* main: Start, the wait for a signal, and Stop.                           *)

(* A process starts: everything it keeps is in memory and fresh.           *)
Launch ==
  /\ pc["main"] \in {"down", "exited"}
  /\ Goto("main", "dial")
  /\ op' = [op EXCEPT !["main"] = "bringup"]
  /\ wedged' = FALSE /\ stopped' = FALSE /\ covers' = FALSE /\ wired' = FALSE
  /\ heartbeat' = FALSE
  /\ contactAge' = 0
  /\ cycleAge' = MinGap
  /\ cutBy' = "earlier"
  /\ config' \in Configs
  /\ UNCHANGED <<resetMu, tries, conn, avail, gateway, cutAge, stranded>>

(* The bring-up worked: reboot the device to free zombie session slots.    *)
StartupReboot ==
  /\ pc["main"] = "ok" /\ op["main"] = "bringup"
  /\ Ask("main", "reboot")
  /\ UNCHANGED <<config, appVars, conn, contactAge, cycleAge, avail, gateway, plugVars>>

(* It failed: with a plug, power-cycle once; without, Start fails.         *)
StartupEscalate ==
  /\ pc["main"] = "err" /\ op["main"] = "bringup"
  /\ IF PowerCycleEnabled
     THEN Ask("main", "powercycle")
     ELSE Step("main", "err", "close")
  /\ UNCHANGED <<config, appVars, conn, contactAge, cycleAge, avail, gateway, plugVars>>

StartupFailed ==
  /\ pc["main"] \in {"err", "debounced"} /\ op["main"] # "bringup"
  /\ Step("main", pc["main"], "close")
  /\ UNCHANGED <<config, appVars, conn, contactAge, cycleAge, avail, gateway, plugVars>>

StartLoops ==
  /\ pc["main"] = "ok" /\ op["main"] # "bringup"
  /\ pc' = [a \in Actors |-> IF a = "main" THEN "serving"
                             ELSE IF a \in config.loops THEN "idle" ELSE pc[a]]
  /\ op' = [op EXCEPT !["main"] = "none"]
  /\ UNCHANGED <<config, resetMu, tries, appVars, conn, contactAge, cycleAge, avail, gateway, plugVars>>

(* SIGINT or SIGTERM once signal.Notify has been called.                   *)
Signal ==
  /\ Step("main", "serving", "close")
  /\ UNCHANGED <<config, appVars, conn, contactAge, cycleAge, avail, gateway, plugVars>>

CloseStopCh ==
  /\ Step("main", "close", "stopHeartbeat")
  /\ stopped' = TRUE
  /\ UNCHANGED <<config, heartbeat, wedged, wired, covers, conn, contactAge, cycleAge, avail,
                 gateway, plugVars>>

(* resetMu.Lock, stopHeartbeatFn, resetMu.Unlock.                          *)
StopHeartbeat ==
  /\ Step("main", "stopHeartbeat", "join")
  /\ resetMu = "free"
  /\ heartbeat' = FALSE
  /\ UNCHANGED <<config, wedged, wired, covers, stopped, conn, contactAge, cycleAge, avail,
                 gateway, plugVars>>

(* loopsWG.Wait.                                                           *)
Join ==
  /\ Step("main", "join", "closeAll")
  /\ \A a \in LoopActors : pc[a] = "gone"
  /\ UNCHANGED <<config, appVars, conn, contactAge, cycleAge, avail, gateway, plugVars>>

(* Covers offline and discovery topics cleared, for the registered covers. *)
CloseAll ==
  /\ Step("main", "closeAll", "release")
  /\ avail' = IF covers THEN "offline" ELSE avail
  /\ covers' = FALSE
  /\ UNCHANGED <<config, heartbeat, wedged, wired, stopped, conn, contactAge, cycleAge, gateway, plugVars>>

(* The clean disconnect that gives the session slot back; main returns.    *)
Release ==
  /\ Step("main", "release", "exited")
  /\ conn' = "none"
  /\ UNCHANGED <<config, appVars, contactAge, cycleAge, avail, gateway, plugVars>>

MainStep ==
  \/ StartupReboot \/ StartupEscalate \/ StartupFailed \/ StartLoops
  \/ CloseStopCh \/ StopHeartbeat \/ Join \/ CloseAll \/ Release

-----------------------------------------------------------------------------
(* The health-check loop.                                                  *)

(* The tick finds recent contact; a wedge ends here if there was one.      *)
HealthyTick ==
  /\ pc["health"] = "idle"
  /\ contactAge <= WedgeAfter
  /\ wedged' = FALSE
  /\ IF wedged THEN Step("health", "idle", "markUp") ELSE UNCHANGED controlVars
  /\ UNCHANGED <<config, heartbeat, wired, covers, stopped, conn, contactAge, cycleAge, avail,
                 gateway, plugVars>>

(* Only the tick that turns wedged to true takes the covers offline.       *)
WedgedTick ==
  /\ pc["health"] = "idle"
  /\ contactAge > WedgeAfter
  /\ wedged' = TRUE
  /\ CASE ~wedged                  -> Step("health", "idle", "markDown")
       [] wedged /\ config.onError -> Ask("health", "reconnect")
       [] OTHER                    -> UNCHANGED controlVars
  /\ UNCHANGED <<config, heartbeat, wired, covers, stopped, conn, contactAge, cycleAge, avail,
                 gateway, plugVars>>

MarkAllUnavailable ==
  /\ pc["health"] = "markDown"
  /\ avail' = "offline"
  /\ IF config.onError THEN Ask("health", "reconnect") ELSE Rest("health")
  /\ UNCHANGED <<config, appVars, conn, contactAge, cycleAge, gateway, plugVars>>

MarkAllAvailable ==
  /\ pc["health"] = "markUp"
  /\ avail' = "online"
  /\ Rest("health")
  /\ UNCHANGED <<config, appVars, conn, contactAge, cycleAge, gateway, plugVars>>

(* The reconnect worked; reboot to clear the slot it could not free.       *)
ReactiveReboot ==
  /\ pc["health"] = "ok" /\ op["health"] = "reconnect"
  /\ Ask("health", "reboot")
  /\ UNCHANGED <<config, appVars, conn, contactAge, cycleAge, avail, gateway, plugVars>>

(* escalateToPowerCycle after a soft step failed.                          *)
Escalate ==
  /\ pc["health"] = "err" /\ op["health"] \in {"reconnect", "reboot"}
  /\ IF PowerCycleEnabled THEN Ask("health", "powercycle") ELSE Rest("health")
  /\ UNCHANGED <<config, appVars, conn, contactAge, cycleAge, avail, gateway, plugVars>>

GiveUp ==
  /\ pc["health"] \in {"err", "debounced"} /\ op["health"] = "powercycle"
  /\ Rest("health")
  /\ UNCHANGED <<config, appVars, conn, contactAge, cycleAge, avail, gateway, plugVars>>

(* A reboot or a power cycle worked: CompareAndSwap(true, false).          *)
Recovered ==
  /\ pc["health"] = "ok" /\ op["health"] \in {"reboot", "powercycle"}
  /\ wedged' = FALSE
  /\ IF wedged THEN Step("health", "ok", "markUp") ELSE Rest("health")
  /\ UNCHANGED <<config, heartbeat, wired, covers, stopped, conn, contactAge, cycleAge, avail,
                 gateway, plugVars>>

HealthTick == HealthyTick \/ WedgedTick

HealthStep ==
  \/ HealthTick \/ MarkAllUnavailable \/ MarkAllAvailable
  \/ ReactiveReboot \/ Escalate \/ GiveUp \/ Recovered

-----------------------------------------------------------------------------
(* The maintenance loop.                                                   *)

PeriodicTick ==
  /\ pc["periodic"] = "idle"
  /\ Ask("periodic", IF PeriodicPowerCycleEnabled THEN "powercycle" ELSE "reboot")
  /\ UNCHANGED <<config, appVars, conn, contactAge, cycleAge, avail, gateway, plugVars>>

(* A failed power cycle falls back to the soft reboot.                     *)
PeriodicFallback ==
  /\ pc["periodic"] = "err" /\ op["periodic"] = "powercycle"
  /\ Ask("periodic", "reboot")
  /\ UNCHANGED <<config, appVars, conn, contactAge, cycleAge, avail, gateway, plugVars>>

PeriodicDone ==
  /\ \/ pc["periodic"] \in {"ok", "debounced"}
     \/ pc["periodic"] = "err" /\ op["periodic"] = "reboot"
  /\ Rest("periodic")
  /\ UNCHANGED <<config, appVars, conn, contactAge, cycleAge, avail, gateway, plugVars>>

(* A loop between two passes sees the closed stopCh.  When its ticker is   *)
(* due as well, select takes either.                                       *)
LoopExit(a) ==
  /\ stopped
  /\ Step(a, "idle", "gone")
  /\ UNCHANGED <<config, appVars, conn, contactAge, cycleAge, avail, gateway, plugVars>>

-----------------------------------------------------------------------------
(* Around the process.                                                     *)

Age(n, cap) == IF n < cap THEN n + 1 ELSE cap

(* Stopping the heartbeat takes at most one pulse timeout, so the time     *)
(* between the stamp of a cycle and its OFF is bounded.                    *)
Cutting(a) == op[a] = "powercycle" /\ pc[a] \in {"pause", "cut"}

Tick ==
  /\ \A a \in Actors : Cutting(a) => cycleAge < PauseTicks
  /\ contactAge' = Age(contactAge, WedgeAfter + 1)
  /\ cycleAge' = Age(cycleAge, MinGap)
  /\ cutAge' = Age(cutAge, MinGap)
  /\ UNCHANGED <<config, controlVars, appVars, conn, avail, gateway, cutBy, stranded>>

(* A frame arrives in an authenticated session: the answer to a pulse, or  *)
(* a notification.  A notification of a node whose cover is registered     *)
(* publishes the cover as online.                                          *)
Frame ==
  /\ conn = "auth" /\ gateway = "up"
  /\ contactAge' = 0
  /\ avail' \in {avail, IF wired THEN "online" ELSE avail}
  /\ UNCHANGED <<config, controlVars, appVars, conn, cycleAge, gateway, plugVars>>

(* The read loop notices a dead session, or the gateway closes one that no *)
(* heartbeat keeps alive and no operation uses.                            *)
Expire ==
  /\ \/ conn = "dead"
     \/ /\ conn # "none" /\ ~heartbeat
        /\ \A a \in Actors : pc[a] \notin OpLabels
  /\ conn' = "none"
  /\ UNCHANGED <<config, controlVars, appVars, contactAge, cycleAge, avail, gateway, plugVars>>

(* The network or the gateway drops a session that is in use.              *)
DropConnection ==
  /\ "drop" \in Faults
  /\ conn # "none"
  /\ conn' = "none"
  /\ UNCHANGED <<config, controlVars, appVars, contactAge, cycleAge, avail, gateway, plugVars>>

(* The network subsystem freezes; only power helps.                        *)
Freeze ==
  /\ "freeze" \in Faults
  /\ gateway = "up"
  /\ gateway' = "frozen"
  /\ UNCHANGED <<config, controlVars, appVars, conn, contactAge, cycleAge, avail, plugVars>>

BootDone ==
  /\ gateway = "booting"
  /\ gateway' = "up"
  /\ UNCHANGED <<config, controlVars, appVars, conn, contactAge, cycleAge, avail, plugVars>>

(* Somebody walks to a frozen gateway and power-cycles it.                 *)
ManualPowerCycle ==
  /\ gateway = "frozen"
  /\ gateway' = "booting"
  /\ conn' = Orphaned
  /\ UNCHANGED <<config, controlVars, appVars, contactAge, cycleAge, avail, plugVars>>

(* The process is gone; the kernel closes its socket, nothing else of what *)
(* Stop would have done happens.                                           *)
Die ==
  /\ pc' = [a \in Actors |-> IF a = "main" THEN "down" ELSE "gone"]
  /\ op' = [a \in Actors |-> "none"]
  /\ resetMu' = "free" /\ tries' = 0
  /\ heartbeat' = FALSE /\ wedged' = FALSE /\ wired' = FALSE
  /\ covers' = FALSE /\ stopped' = FALSE
  /\ conn' = "none"
  /\ stranded' = (stranded \/ gateway = "dark")
  /\ UNCHANGED <<config, contactAge, cycleAge, avail, gateway, cutAge, cutBy>>

Crash ==
  /\ "crash" \in Faults
  /\ pc["main"] \notin {"down", "exited"}
  /\ Die

(* Start is still running: no handler is installed, so SIGTERM has its     *)
(* default effect.                                                         *)
EarlySigterm ==
  /\ "sigterm" \in Faults
  /\ pc["main"] \in OpLabels \cup Results \cup {"lock"}
  /\ Die

Environment ==
  \/ Tick \/ Frame \/ Expire \/ DropConnection \/ Freeze \/ BootDone \/ ManualPowerCycle
  \/ Crash \/ EarlySigterm

-----------------------------------------------------------------------------

Next ==
  \/ Launch \/ Signal \/ MainStep
  \/ HealthStep
  \/ PeriodicTick \/ PeriodicFallback \/ PeriodicDone
  \/ \E a \in LoopActors : LoopExit(a)
  \/ \E a \in Actors : Lock(a) \/ OpStep(a)
  \/ Environment

SafetySpec == Init /\ [][Next]_vars

(* Goroutines run, sync.Mutex hands the lock on to a waiter, and select    *)
(* does not prefer a due ticker to a closed stopCh for ever.  Time passes, *)
(* boots end, dead and neglected sessions close, and the supervisor starts *)
(* the process again.                                                      *)
Fairness ==
  /\ WF_vars(Launch \/ MainStep \/ Lock("main"))
  /\ WF_vars(HealthStep)
  /\ WF_vars(PeriodicFallback \/ PeriodicDone)
  /\ SF_vars(\E a \in Actors : OpStep(a))
  /\ SF_vars(StopHeartbeat)
  /\ \A a \in LoopActors : SF_vars(Lock(a)) /\ SF_vars(LoopExit(a))
  /\ WF_vars(Tick)
  /\ WF_vars(BootDone)
  /\ WF_vars(Expire)

Spec == SafetySpec /\ Fairness

-----------------------------------------------------------------------------
(* Safety.                                                                 *)

\* The goroutines that are inside a recovery operation or the first bring-up.
Driving(a) == pc[a] \in OpLabels

(* Only one recovery action runs at a time, whoever asked for it: reboot,  *)
(* reconnect and power cycle never interleave on the connection (resetMu,  *)
(* openspec app-runtime "Reactive reboot serialized with periodic").       *)
OneRecoveryAtATime == \A a, b \in Actors : Driving(a) /\ Driving(b) => a = b

(* Every dial starts from a closed connection: Connect never answers       *)
(* "already connected", whatever attempt failed before and half way where. *)
DialFromCleanSlate == \A a \in Actors : pc[a] = "dial" => conn = "none"

(* No heartbeat pulses while an operation tears the connection down and    *)
(* brings it up again, and none runs on nodes without cover callbacks.     *)
HeartbeatPaused ==
  /\ \A a \in Actors : pc[a] \in OpLabels \ {"debounce", "pause"} => ~heartbeat
  /\ heartbeat => wired

(* The gateway is without power only in the middle of a power cycle, which *)
(* some goroutine is about to finish, unless a process died in one.  A     *)
(* process without a plug topic never is in one.                           *)
MidCycle(a) == op[a] = "powercycle" /\ pc[a] \in {"disconnect", "restore"}

DarkOnlyMidCycle ==
  /\ gateway = "dark" => stranded \/ \E a \in Actors : resetMu = a /\ MidCycle(a)
  /\ \A a \in Actors : MidCycle(a) => PowerCycleEnabled

(* Covers shown offline are covers the health check knows to bring back:   *)
(* it never forgets a wedge while the broker still says "offline".         *)
OfflineIsRemembered ==
  covers /\ avail = "offline" => wedged \/ pc["health"] = "markUp"

(* A process that went through Stop leaves no session slot occupied, no    *)
(* discovery published, no loop behind and no power cycle half done.       *)
ExitIsClean ==
  pc["main"] = "exited" =>
    /\ conn = "none"
    /\ ~covers
    /\ \A a \in LoopActors : pc[a] = "gone"
    /\ gateway = "dark" => stranded

(* The abstract age is that of a cut of the running process, as far as the *)
(* guaranteed gap goes.                                                    *)
GuaranteedGap == MinGap - PauseTicks

Plug == INSTANCE PlugDiscipline WITH
  Gap   <- GuaranteedGap,
  power <- IF gateway = "dark" THEN "off" ELSE "on",
  age   <- IF cutBy = "this" /\ cutAge < GuaranteedGap THEN cutAge ELSE GuaranteedGap,
  mine  <- cutBy = "this"

(* The runtime implements the plug's discipline: cuts of one process are   *)
(* at least MinGap apart but for the time the heartbeat takes to stop, and *)
(* each is followed by a restore before the next.                          *)
PlugIsRespected == Plug!Safety

Slot == INSTANCE SessionSlot WITH
  Sessions <- {"ours"},
  link     <- IF conn = "auth" THEN "open" ELSE conn,
  held     <- IF conn \in {"open", "auth"} THEN {"ours"} ELSE {}

(* The connection of this module keeps to what that of Conn promises: it   *)
(* is dialled from nothing only, whatever was torn down before, and a      *)
(* session the gateway has lost serves no later exchange of a bring-up.    *)
SlotIsKept == Slot!Safety

-----------------------------------------------------------------------------
(* Liveness.                                                               *)

(* Power that was cut comes back, even if the process that cut it died:    *)
(* the next process cannot connect and runs a cycle of its own.  Assumes   *)
(* that processes do not keep dying and that each has the plug configured. *)
NoMoreDeaths == <>[][~(Crash \/ EarlySigterm)]_vars
PowerComesBack == NoMoreDeaths => (gateway = "dark" ~> gateway # "dark")

(* Stop ends: the signal is never stuck behind a recovery that cannot      *)
(* succeed, however long the gateway stays away.                           *)
StopCompletes == pc["main"] = "close" ~> pc["main"] \in {"exited", "down"}

(* With the reactive recovery enabled and the faults over, the bridge      *)
(* works again and again: a registered session, a heartbeat on it, and     *)
(* covers online.                                                          *)
InService == conn = "auth" /\ gateway = "up" /\ wired /\ heartbeat /\ avail = "online"

FaultsEnd ==
  <>[][~(Crash \/ EarlySigterm \/ Freeze \/ DropConnection
         \/ \E a \in Actors : Refused(a))]_vars

ServiceResumes == FaultsEnd => []<>InService

-----------------------------------------------------------------------------
(* What the documents say and the code does not do.                        *)

(* openspec app-runtime: covers of an unreachable gateway are offline.  A  *)
(* gateway that stays frozen for good while the bridge serves is shown     *)
(* offline from some time on.                                              *)
DeadGatewayShownOffline ==
  <>[](gateway = "frozen" /\ pc["main"] = "serving") => <>[](avail = "offline")

(* README: cancelling the process mid-cycle restores power on the way out. *)
CancelRestoresPower == ~stranded
=============================================================================
