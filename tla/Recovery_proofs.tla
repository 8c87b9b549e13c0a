--------------------------- MODULE Recovery_proofs ---------------------------
(***************************************************************************)
(* Proofs about Recovery, for every value of its constants.                *)
(*                                                                         *)
(* None of the safety properties is inductive: each leans on who holds     *)
(* resetMu, on which goroutines exist in which phase of main, and on what  *)
(* an operation does before the label the property speaks of.  IInv is the *)
(* strengthening; each of its parts adds to a property the facts its       *)
(* induction step needs, and the parts are proved one after another, each  *)
(* from those before it.                                                   *)
(***************************************************************************)
EXTENDS Recovery, TLAPS

(* The lock: its holder is inside an operation, and only the first         *)
(* bring-up of Start drives the connection without it.                     *)
Locking ==
  /\ \A a \in Actors : resetMu = a => pc[a] \in OpLabels
  /\ \A a \in Actors : pc[a] \in OpLabels /\ op[a] # "bringup" => resetMu = a

(* The loops exist only while main serves or stops.                        *)
LoopPhases == {"serving", "close", "stopHeartbeat", "join"}

Phases == pc["main"] \notin LoopPhases => \A a \in LoopActors : pc[a] = "gone"

(* An operation with a backoff schedule has an attempt left.               *)
Budget ==
  \A a \in Actors : pc[a] \in OpLabels /\ op[a] \in {"reboot", "powercycle"} => tries < Attempts

(* Which operation a label belongs to, and who may ask for it.             *)
Asked ==
  \A a \in Actors :
    /\ pc[a] \in {"lock", "pause", "disconnect"} => op[a] \in {"reconnect", "reboot", "powercycle"}
    /\ pc[a] \in {"debounce", "cut", "restore"} => op[a] = "powercycle"
    /\ pc[a] = "request" => op[a] = "reboot"
    /\ pc[a] = "cleanup" => op[a] \in {"reboot", "powercycle"}
    /\ pc[a] \in OpLabels \cup {"lock"} /\ op[a] = "powercycle" => PowerCycleEnabled
    /\ op[a] = "bringup" => a = "main"

(* The connection is closed before a dial, and while no process runs.      *)
Session ==
  /\ \A a \in Actors : pc[a] \in {"restore", "dial"} => conn = "none"
  /\ pc["main"] \in {"down", "exited"} => conn = "none"

(* A heartbeat starts on nodes that have just been wired.                  *)
Beating ==
  /\ HeartbeatPaused
  /\ \A a \in Actors : pc[a] = "beat" => wired

(* Power that the running process cut is off only within its own cycle.    *)
Power ==
  /\ DarkOnlyMidCycle
  /\ gateway = "dark" /\ cutBy = "this" =>
       pc["main"] = "down" \/ \E a \in Actors : resetMu = a /\ MidCycle(a)

(* The covers go offline only for a wedge.                                 *)
Telling ==
  /\ OfflineIsRemembered
  /\ pc["health"] = "markDown" => wedged

(* What Stop has cleaned up stays clean.                                   *)
Leaving ==
  /\ ExitIsClean
  /\ pc["main"] = "release" => ~covers

(* The stamp of a cycle is at most PauseTicks older than its cut, and a    *)
(* cycle that has passed the debounce finds the last cut far enough back.  *)
Spacing ==
  /\ cutBy = "this" => cycleAge <= cutAge + PauseTicks
  /\ \A a \in Actors : Cutting(a) =>
       /\ cycleAge <= PauseTicks
       /\ cutBy = "this" => cutAge >= GuaranteedGap

Control == TypeOK /\ Locking /\ Phases /\ Asked /\ Budget

IInv == Control /\ Session /\ Beating /\ Power /\ Telling /\ Leaving /\ Spacing

(* The flags are assigned nothing but Booleans.                             *)
LEMMA FlagsStep ==
  ASSUME FlagsOK, [Next]_vars
  PROVE  FlagsOK'
<1> USE DEF FlagsOK, Goto, Step, appVars, plugVars, controlVars
<1>1. CASE Launch \/ Signal \/ MainStep
  BY <1>1, Zenon DEF Launch, Signal, MainStep, StartupReboot, Ask, StartupEscalate,
    PowerCycleEnabled, StartupFailed, StartLoops, CloseStopCh, StopHeartbeat, Join, CloseAll,
    Release
<1>2. CASE HealthStep
  BY <1>2, Zenon DEF HealthStep, HealthTick, HealthyTick, WedgedTick, Ask, MarkAllUnavailable,
    Rest, MarkAllAvailable, ReactiveReboot, Escalate, PowerCycleEnabled, GiveUp, Recovered
<1>3. CASE PeriodicTick \/ PeriodicFallback \/ PeriodicDone
  BY <1>3, Zenon DEF PeriodicTick, Ask, PowerCycleEnabled, PeriodicPowerCycleEnabled,
    PeriodicFallback, PeriodicDone, Rest
<1>4. ASSUME NEW a \in LoopActors, LoopExit(a) PROVE FlagsOK'
  BY <1>4, Zenon DEF LoopExit
<1>5. ASSUME NEW a \in Actors,
            \/ Lock(a) \/ Debounce(a) \/ Pause(a) \/ Request(a) \/ Cut(a) \/ Disconnect(a)
              \/ Restore(a) \/ Dial(a) \/ Authenticate(a) \/ Load(a) \/ Unreachable(a)
              \/ Refused(a) \/ Register(a) \/ Beat(a) \/ Cleanup(a)
     PROVE  FlagsOK'
  BY <1>5, Zenon DEF Lock, Debounce, Return, Pause, Request, Orphaned, Cut, Disconnect, Restore,
    Dial, Reachable, Exchange, Authenticate, Load, Unreachable, Fail, LastAttempt, Refused,
    Register, Beat, Cleanup
<1>6. CASE Tick \/ Frame \/ Expire \/ DropConnection \/ Freeze \/ BootDone \/ ManualPowerCycle
  BY <1>6, Zenon DEF Tick, Age, Cutting, Frame, Expire, DropConnection, Freeze, BootDone,
    ManualPowerCycle, Orphaned
<1>7. CASE Crash \/ EarlySigterm
  BY <1>7, Zenon DEF Crash, Die, EarlySigterm
<1>8. CASE UNCHANGED vars
  BY <1>8, Zenon DEF vars
<1> QED BY <1>1, <1>2, <1>3, <1>4, <1>5, <1>6, <1>7, <1>8 DEF Next, OpStep, Environment

(* A step keeps every variable in its set: labels and operations stay      *)
(* among those an operation can reach, ages and attempts within bounds.    *)
LEMMA TypeStep ==
  ASSUME Control, [Next]_vars
  PROVE  TypeOK'
<1> USE DEF Control, TypeOK, Asked, Budget, Actors, LoopActors, Ops, Labels, OpLabels, Results,
    StopLabels, Goto, Step, appVars, plugVars, controlVars
<1>1. FlagsOK'
  BY FlagsStep
<1>2. CASE Launch \/ Signal \/ MainStep
  BY <1>2, <1>1, TimingAssumption DEF Launch, Signal, MainStep, StartupReboot, Ask,
    StartupEscalate, PowerCycleEnabled, StartupFailed, StartLoops, CloseStopCh, StopHeartbeat,
    Join, CloseAll, Release
<1>3. CASE HealthStep
  BY <1>3, <1>1, TimingAssumption DEF HealthStep, HealthTick, HealthyTick, WedgedTick, Ask,
    MarkAllUnavailable, Rest, MarkAllAvailable, ReactiveReboot, Escalate, PowerCycleEnabled,
    GiveUp, Recovered
<1>4. CASE PeriodicTick \/ PeriodicFallback \/ PeriodicDone
  BY <1>4, <1>1, TimingAssumption DEF PeriodicTick, Ask, PowerCycleEnabled,
    PeriodicPowerCycleEnabled, PeriodicFallback, PeriodicDone, Rest
<1>5. ASSUME NEW a \in LoopActors, LoopExit(a) PROVE TypeOK'
  BY <1>5, <1>1, TimingAssumption DEF LoopExit
<1>6. ASSUME NEW a \in Actors, Lock(a) PROVE TypeOK'
  BY <1>6, <1>1, TimingAssumption DEF Lock
<1>7. ASSUME NEW a \in Actors, Debounce(a) PROVE TypeOK'
  BY <1>7, <1>1, TimingAssumption DEF Debounce, Return
<1>8. ASSUME NEW a \in Actors, Pause(a) PROVE TypeOK'
  BY <1>8, <1>1, TimingAssumption DEF Pause
<1>9. ASSUME NEW a \in Actors, Request(a) PROVE TypeOK'
  BY <1>9, <1>1, TimingAssumption DEF Request, Orphaned
<1>10. ASSUME NEW a \in Actors, Cut(a) PROVE TypeOK'
  BY <1>10, <1>1, TimingAssumption DEF Cut, Orphaned
<1>11. ASSUME NEW a \in Actors, Disconnect(a) PROVE TypeOK'
  BY <1>11, <1>1, TimingAssumption DEF Disconnect
<1>12. ASSUME NEW a \in Actors, Restore(a) PROVE TypeOK'
  BY <1>12, <1>1, TimingAssumption DEF Restore
<1>13. ASSUME NEW a \in Actors, Dial(a) PROVE TypeOK'
  BY <1>13, <1>1, TimingAssumption DEF Dial, Reachable, Exchange
<1>14. ASSUME NEW a \in Actors, Authenticate(a) PROVE TypeOK'
  BY <1>14, <1>1, TimingAssumption DEF Authenticate, Reachable, Exchange
<1>15. ASSUME NEW a \in Actors, Load(a) PROVE TypeOK'
  BY <1>15, <1>1, TimingAssumption DEF Load, Reachable, Exchange
<1>16. ASSUME NEW a \in Actors, Unreachable(a) PROVE TypeOK'
  BY <1>16, <1>1, TimingAssumption DEF Unreachable, Return, Fail, Reachable, Exchange, LastAttempt
<1>17. ASSUME NEW a \in Actors, Refused(a) PROVE TypeOK'
  BY <1>17, <1>1, TimingAssumption DEF Refused, Return, Fail, Reachable, Exchange
<1>18. ASSUME NEW a \in Actors, Register(a) PROVE TypeOK'
  BY <1>18, <1>1, TimingAssumption DEF Register
<1>19. ASSUME NEW a \in Actors, Beat(a) PROVE TypeOK'
  BY <1>19, <1>1, TimingAssumption DEF Beat, Return
<1>20. ASSUME NEW a \in Actors, Cleanup(a) PROVE TypeOK'
  BY <1>20, <1>1, TimingAssumption DEF Cleanup
<1>21. CASE Tick \/ Frame \/ Expire \/ DropConnection \/ Freeze \/ BootDone \/ ManualPowerCycle
  BY <1>21, <1>1, TimingAssumption DEF Tick, Age, Cutting, Frame, Expire, DropConnection, Freeze,
    BootDone, ManualPowerCycle, Orphaned
<1>22. CASE Crash \/ EarlySigterm
  BY <1>22, <1>1, TimingAssumption DEF Crash, Die, EarlySigterm
<1>23. CASE UNCHANGED vars
  BY <1>23, <1>1, TimingAssumption DEF vars
<1> QED BY <1>2, <1>3, <1>4, <1>5, <1>6, <1>7, <1>8, <1>9, <1>10, <1>11, <1>12, <1>13, <1>14,
    <1>15, <1>16, <1>17, <1>18, <1>19, <1>20, <1>21, <1>22, <1>23 DEF Next, OpStep, Environment

(* A step keeps the lock with the goroutine that is inside an operation:   *)
(* every exit of doReconnect, doReboot and doPowerCycle unlocks resetMu.   *)
LEMMA LockingStep ==
  ASSUME Control, [Next]_vars
  PROVE  Locking'
<1> USE DEF Locking, Phases, Asked, LoopPhases, Results, Control, TypeOK, Actors, LoopActors,
    OpLabels, Goto, Step, appVars, plugVars, controlVars
<1>1. CASE Launch \/ Signal \/ MainStep
  BY <1>1 DEF Launch, Signal, MainStep, StartupReboot, Ask, StartupEscalate, PowerCycleEnabled,
    StartupFailed, StartLoops, CloseStopCh, StopHeartbeat, Join, CloseAll, Release
<1>2. CASE HealthStep
  BY <1>2 DEF HealthStep, HealthTick, HealthyTick, WedgedTick, Ask, MarkAllUnavailable, Rest,
    MarkAllAvailable, ReactiveReboot, Escalate, PowerCycleEnabled, GiveUp, Recovered
<1>3. CASE PeriodicTick \/ PeriodicFallback \/ PeriodicDone
  BY <1>3 DEF PeriodicTick, Ask, PowerCycleEnabled, PeriodicPowerCycleEnabled, PeriodicFallback,
    PeriodicDone, Rest
<1>4. ASSUME NEW a \in LoopActors, LoopExit(a) PROVE Locking'
  BY <1>4 DEF LoopExit
<1>5. ASSUME NEW a \in Actors, Lock(a) PROVE Locking'
  BY <1>5 DEF Lock
<1>6. ASSUME NEW a \in Actors, Debounce(a) PROVE Locking'
  BY <1>6 DEF Debounce, Return
<1>7. ASSUME NEW a \in Actors, Pause(a) PROVE Locking'
  BY <1>7 DEF Pause
<1>8. ASSUME NEW a \in Actors, Request(a) PROVE Locking'
  BY <1>8 DEF Request, Orphaned
<1>9. ASSUME NEW a \in Actors, Cut(a) PROVE Locking'
  BY <1>9 DEF Cut, Orphaned
<1>10. ASSUME NEW a \in Actors, Disconnect(a) PROVE Locking'
  BY <1>10 DEF Disconnect
<1>11. ASSUME NEW a \in Actors, Restore(a) PROVE Locking'
  BY <1>11 DEF Restore
<1>12. ASSUME NEW a \in Actors, Dial(a) PROVE Locking'
  BY <1>12 DEF Dial, Reachable, Exchange
<1>13. ASSUME NEW a \in Actors, Authenticate(a) PROVE Locking'
  BY <1>13 DEF Authenticate, Reachable, Exchange
<1>14. ASSUME NEW a \in Actors, Load(a) PROVE Locking'
  BY <1>14 DEF Load, Reachable, Exchange
<1>15. ASSUME NEW a \in Actors, Unreachable(a) PROVE Locking'
  BY <1>15 DEF Unreachable, Return, Fail, Reachable, Exchange, LastAttempt
<1>16. ASSUME NEW a \in Actors, Refused(a) PROVE Locking'
  BY <1>16 DEF Refused, Return, Fail, Reachable, Exchange
<1>17. ASSUME NEW a \in Actors, Register(a) PROVE Locking'
  BY <1>17 DEF Register
<1>18. ASSUME NEW a \in Actors, Beat(a) PROVE Locking'
  BY <1>18 DEF Beat, Return
<1>19. ASSUME NEW a \in Actors, Cleanup(a) PROVE Locking'
  BY <1>19 DEF Cleanup
<1>20. CASE Tick \/ Frame \/ Expire \/ DropConnection \/ Freeze \/ BootDone \/ ManualPowerCycle
  BY <1>20 DEF Tick, Age, Cutting, Frame, Expire, DropConnection, Freeze, BootDone,
    ManualPowerCycle, Orphaned
<1>21. CASE Crash \/ EarlySigterm
  BY <1>21 DEF Crash, Die, EarlySigterm
<1>22. CASE UNCHANGED vars
  BY <1>22 DEF vars
<1> QED BY <1>1, <1>2, <1>3, <1>4, <1>5, <1>6, <1>7, <1>8, <1>9, <1>10, <1>11, <1>12, <1>13,
    <1>14, <1>15, <1>16, <1>17, <1>18, <1>19, <1>20, <1>21, <1>22 DEF Next, OpStep, Environment

(* Only StartLoops makes loops, and main gets past Join without any.       *)
LEMMA PhasesStep ==
  ASSUME Control, [Next]_vars
  PROVE  Phases'
<1> USE DEF Locking, Phases, Asked, LoopPhases, Results, Control, TypeOK, Actors, LoopActors,
    OpLabels, Goto, Step, appVars, plugVars, controlVars
<1>1. CASE Launch \/ Signal \/ MainStep
  BY <1>1 DEF Launch, Signal, MainStep, StartupReboot, Ask, StartupEscalate, PowerCycleEnabled,
    StartupFailed, StartLoops, CloseStopCh, StopHeartbeat, Join, CloseAll, Release
<1>2. CASE HealthStep
  BY <1>2 DEF HealthStep, HealthTick, HealthyTick, WedgedTick, Ask, MarkAllUnavailable, Rest,
    MarkAllAvailable, ReactiveReboot, Escalate, PowerCycleEnabled, GiveUp, Recovered
<1>3. CASE PeriodicTick \/ PeriodicFallback \/ PeriodicDone
  BY <1>3 DEF PeriodicTick, Ask, PowerCycleEnabled, PeriodicPowerCycleEnabled, PeriodicFallback,
    PeriodicDone, Rest
<1>4. ASSUME NEW a \in LoopActors, LoopExit(a) PROVE Phases'
  BY <1>4 DEF LoopExit
<1>5. ASSUME NEW a \in Actors,
            \/ Lock(a) \/ Debounce(a) \/ Pause(a) \/ Request(a) \/ Cut(a) \/ Disconnect(a)
              \/ Restore(a) \/ Dial(a) \/ Authenticate(a) \/ Load(a) \/ Unreachable(a)
              \/ Refused(a) \/ Register(a) \/ Beat(a) \/ Cleanup(a)
     PROVE  Phases'
  BY <1>5 DEF Lock, Debounce, Return, Pause, Request, Orphaned, Cut, Disconnect, Restore, Dial,
    Reachable, Exchange, Authenticate, Load, Unreachable, Fail, LastAttempt, Refused, Register,
    Beat, Cleanup
<1>6. CASE Tick \/ Frame \/ Expire \/ DropConnection \/ Freeze \/ BootDone \/ ManualPowerCycle
  BY <1>6 DEF Tick, Age, Cutting, Frame, Expire, DropConnection, Freeze, BootDone,
    ManualPowerCycle, Orphaned
<1>7. CASE Crash \/ EarlySigterm
  BY <1>7 DEF Crash, Die, EarlySigterm
<1>8. CASE UNCHANGED vars
  BY <1>8 DEF vars
<1> QED BY <1>1, <1>2, <1>3, <1>4, <1>5, <1>6, <1>7, <1>8 DEF Next, OpStep, Environment

(* Labels stay with the operations they belong to, and power cycles with   *)
(* configurations that have a plug (PowerCycleEnabled).                    *)
LEMMA AskedStep ==
  ASSUME Control, [Next]_vars
  PROVE  Asked'
<1> USE DEF Locking, Phases, Asked, LoopPhases, Results, PowerCycleEnabled, Control, TypeOK,
    Actors, LoopActors, OpLabels, Goto, Step, appVars, plugVars, controlVars
<1>1. CASE Launch \/ Signal \/ MainStep
  BY <1>1 DEF Launch, Signal, MainStep, StartupReboot, Ask, StartupEscalate, StartupFailed,
    StartLoops, CloseStopCh, StopHeartbeat, Join, CloseAll, Release
<1>2. CASE HealthStep
  BY <1>2 DEF HealthStep, HealthTick, HealthyTick, WedgedTick, Ask, MarkAllUnavailable, Rest,
    MarkAllAvailable, ReactiveReboot, Escalate, GiveUp, Recovered
<1>3. CASE PeriodicTick \/ PeriodicFallback \/ PeriodicDone
  BY <1>3 DEF PeriodicTick, Ask, PeriodicPowerCycleEnabled, PeriodicFallback, PeriodicDone, Rest
<1>4. ASSUME NEW a \in LoopActors, LoopExit(a) PROVE Asked'
  BY <1>4 DEF LoopExit
<1>5. ASSUME NEW a \in Actors, Lock(a) PROVE Asked'
  BY <1>5 DEF Lock
<1>6. ASSUME NEW a \in Actors, Debounce(a) PROVE Asked'
  BY <1>6 DEF Debounce, Return
<1>7. ASSUME NEW a \in Actors, Pause(a) PROVE Asked'
  BY <1>7 DEF Pause
<1>8. ASSUME NEW a \in Actors, Request(a) PROVE Asked'
  BY <1>8 DEF Request, Orphaned
<1>9. ASSUME NEW a \in Actors, Cut(a) PROVE Asked'
  BY <1>9 DEF Cut, Orphaned
<1>10. ASSUME NEW a \in Actors, Disconnect(a) PROVE Asked'
  BY <1>10 DEF Disconnect
<1>11. ASSUME NEW a \in Actors, Restore(a) PROVE Asked'
  BY <1>11 DEF Restore
<1>12. ASSUME NEW a \in Actors, Dial(a) PROVE Asked'
  BY <1>12 DEF Dial, Reachable, Exchange
<1>13. ASSUME NEW a \in Actors, Authenticate(a) PROVE Asked'
  BY <1>13 DEF Authenticate, Reachable, Exchange
<1>14. ASSUME NEW a \in Actors, Load(a) PROVE Asked'
  BY <1>14 DEF Load, Reachable, Exchange
<1>15. ASSUME NEW a \in Actors, Unreachable(a) PROVE Asked'
  BY <1>15 DEF Unreachable, Return, Fail, Reachable, Exchange, LastAttempt
<1>16. ASSUME NEW a \in Actors, Refused(a) PROVE Asked'
  BY <1>16 DEF Refused, Return, Fail, Reachable, Exchange
<1>17. ASSUME NEW a \in Actors, Register(a) PROVE Asked'
  BY <1>17 DEF Register
<1>18. ASSUME NEW a \in Actors, Beat(a) PROVE Asked'
  BY <1>18 DEF Beat, Return
<1>19. ASSUME NEW a \in Actors, Cleanup(a) PROVE Asked'
  BY <1>19 DEF Cleanup
<1>20. CASE Tick \/ Frame \/ Expire \/ DropConnection \/ Freeze \/ BootDone \/ ManualPowerCycle
  BY <1>20 DEF Tick, Age, Cutting, Frame, Expire, DropConnection, Freeze, BootDone,
    ManualPowerCycle, Orphaned
<1>21. CASE Crash \/ EarlySigterm
  BY <1>21 DEF Crash, Die, EarlySigterm
<1>22. CASE UNCHANGED vars
  BY <1>22 DEF vars
<1> HIDE DEF TypeOK, Asked, Locking, LoopPhases
<1> QED BY <1>1, <1>2, <1>3, <1>4, <1>5, <1>6, <1>7, <1>8, <1>9, <1>10, <1>11, <1>12, <1>13,
    <1>14, <1>15, <1>16, <1>17, <1>18, <1>19, <1>20, <1>21, <1>22 DEF Next, OpStep, Environment

(* Whoever is inside an operation holds resetMu, or is main in its first   *)
(* bring-up, when there is nobody else: no two goroutines are inside one.  *)
LEMMA Exclusion == Control => OneRecoveryAtATime
  BY DEF Control, TypeOK, Locking, Phases, Asked, LoopPhases, OneRecoveryAtATime, Driving, Actors,
    LoopActors, OpLabels


(* An operation goes on only while rebootBackoffSchedule has a wait left.  *)
LEMMA BudgetStep ==
  ASSUME Control, [Next]_vars
  PROVE  Budget'
<1> USE DEF Budget, Locking, Asked, OneRecoveryAtATime, Driving, Results, Control, TypeOK, Actors,
    LoopActors, OpLabels, Goto, Step, appVars, plugVars, controlVars
<1>1. CASE Launch \/ Signal \/ MainStep
  BY <1>1, Exclusion, TimingAssumption DEF Launch, Signal, MainStep, StartupReboot, Ask,
    StartupEscalate, PowerCycleEnabled, StartupFailed, StartLoops, CloseStopCh, StopHeartbeat,
    Join, CloseAll, Release
<1>2. CASE HealthStep
  BY <1>2, Exclusion, TimingAssumption DEF HealthStep, HealthTick, HealthyTick, WedgedTick, Ask,
    MarkAllUnavailable, Rest, MarkAllAvailable, ReactiveReboot, Escalate, PowerCycleEnabled,
    GiveUp, Recovered
<1>3. CASE PeriodicTick \/ PeriodicFallback \/ PeriodicDone
  BY <1>3, Exclusion, TimingAssumption DEF PeriodicTick, Ask, PowerCycleEnabled,
    PeriodicPowerCycleEnabled, PeriodicFallback, PeriodicDone, Rest
<1>4. ASSUME NEW a \in LoopActors, LoopExit(a) PROVE Budget'
  BY <1>4, Exclusion, TimingAssumption DEF LoopExit
<1>5. ASSUME NEW a \in Actors, Lock(a) PROVE Budget'
  BY <1>5, Exclusion, TimingAssumption DEF Lock
<1>6. ASSUME NEW a \in Actors, Cleanup(a) PROVE Budget'
  BY <1>6, Exclusion, TimingAssumption DEF Cleanup
<1>7. ASSUME NEW a \in Actors,
            \/ Debounce(a) \/ Pause(a) \/ Request(a) \/ Cut(a) \/ Disconnect(a) \/ Restore(a)
              \/ Dial(a) \/ Authenticate(a) \/ Load(a) \/ Unreachable(a) \/ Refused(a)
              \/ Register(a) \/ Beat(a)
     PROVE  Budget'
  BY <1>7, Exclusion, TimingAssumption DEF Debounce, Return, Pause, Request, Orphaned, Cut,
    Disconnect, Restore, Dial, Reachable, Exchange, Authenticate, Load, Unreachable, Fail,
    LastAttempt, Refused, Register, Beat
<1>8. CASE Tick \/ Frame \/ Expire \/ DropConnection \/ Freeze \/ BootDone \/ ManualPowerCycle
  BY <1>8, Exclusion, TimingAssumption DEF Tick, Age, Cutting, Frame, Expire, DropConnection,
    Freeze, BootDone, ManualPowerCycle, Orphaned
<1>9. CASE Crash \/ EarlySigterm
  BY <1>9, Exclusion, TimingAssumption DEF Crash, Die, EarlySigterm
<1>10. CASE UNCHANGED vars
  BY <1>10, Exclusion, TimingAssumption DEF vars
<1> QED BY <1>1, <1>2, <1>3, <1>4, <1>5, <1>6, <1>7, <1>8, <1>9, <1>10 DEF Next, OpStep, Environment

(* The Disconnect before each dial of connectAndLoad holds until it.       *)
LEMMA SessionStep ==
  ASSUME Control, Session, [Next]_vars
  PROVE  Session'
<1> USE DEF Session, Locking, Phases, Asked, LoopPhases, OneRecoveryAtATime, Driving, Results,
    Control, TypeOK, Actors, LoopActors, OpLabels, Goto, Step, appVars, plugVars, controlVars
<1>1. CASE Launch \/ Signal \/ MainStep
  BY <1>1, Exclusion DEF Launch, Signal, MainStep, StartupReboot, Ask, StartupEscalate,
    PowerCycleEnabled, StartupFailed, StartLoops, CloseStopCh, StopHeartbeat, Join, CloseAll,
    Release
<1>2. CASE HealthStep
  BY <1>2, Exclusion DEF HealthStep, HealthTick, HealthyTick, WedgedTick, Ask, MarkAllUnavailable,
    Rest, MarkAllAvailable, ReactiveReboot, Escalate, PowerCycleEnabled, GiveUp, Recovered
<1>3. CASE PeriodicTick \/ PeriodicFallback \/ PeriodicDone
  BY <1>3, Exclusion DEF PeriodicTick, Ask, PowerCycleEnabled, PeriodicPowerCycleEnabled,
    PeriodicFallback, PeriodicDone, Rest
<1>4. ASSUME NEW a \in LoopActors, LoopExit(a) PROVE Session'
  BY <1>4, Exclusion DEF LoopExit
<1>5. ASSUME NEW a \in Actors, Disconnect(a) PROVE Session'
  BY <1>5, Exclusion DEF Disconnect
<1>6. ASSUME NEW a \in Actors, Restore(a) PROVE Session'
  BY <1>6, Exclusion DEF Restore
<1>7. ASSUME NEW a \in Actors, Dial(a) PROVE Session'
  BY <1>7, Exclusion DEF Dial, Reachable, Exchange
<1>8. ASSUME NEW a \in Actors, Authenticate(a) PROVE Session'
  BY <1>8, Exclusion DEF Authenticate, Reachable, Exchange
<1>9. ASSUME NEW a \in Actors, Cleanup(a) PROVE Session'
  BY <1>9, Exclusion DEF Cleanup
<1>10. ASSUME NEW a \in Actors,
            \/ Lock(a) \/ Debounce(a) \/ Pause(a) \/ Request(a) \/ Cut(a) \/ Load(a) \/ Unreachable(a)
              \/ Refused(a) \/ Register(a) \/ Beat(a)
     PROVE  Session'
  BY <1>10, Exclusion DEF Lock, Debounce, Return, Pause, Request, Orphaned, Cut, Load, Reachable,
    Exchange, Unreachable, Fail, LastAttempt, Refused, Register, Beat
<1>11. CASE Tick \/ Frame \/ Expire \/ DropConnection \/ Freeze \/ BootDone \/ ManualPowerCycle
  BY <1>11, Exclusion DEF Tick, Age, Cutting, Frame, Expire, DropConnection, Freeze, BootDone,
    ManualPowerCycle, Orphaned
<1>12. CASE Crash \/ EarlySigterm
  BY <1>12, Exclusion DEF Crash, Die, EarlySigterm
<1>13. CASE UNCHANGED vars
  BY <1>13, Exclusion DEF vars
<1> QED BY <1>1, <1>2, <1>3, <1>4, <1>5, <1>6, <1>7, <1>8, <1>9, <1>10, <1>11, <1>12, <1>13 DEF Next, OpStep, Environment

(* stopHeartbeatFn at the start of an operation holds until its end.       *)
LEMMA BeatingStep ==
  ASSUME Control, Beating, [Next]_vars
  PROVE  Beating'
<1> USE DEF Beating, HeartbeatPaused, Locking, Phases, Asked, LoopPhases, OneRecoveryAtATime,
    Driving, Results, Control, TypeOK, Actors, LoopActors, OpLabels, Goto, Step, appVars,
    plugVars, controlVars
<1>1. CASE Launch \/ Signal \/ MainStep
  BY <1>1, Exclusion DEF Launch, Signal, MainStep, StartupReboot, Ask, StartupEscalate,
    PowerCycleEnabled, StartupFailed, StartLoops, CloseStopCh, StopHeartbeat, Join, CloseAll,
    Release
<1>2. CASE HealthStep
  BY <1>2, Exclusion DEF HealthStep, HealthTick, HealthyTick, WedgedTick, Ask, MarkAllUnavailable,
    Rest, MarkAllAvailable, ReactiveReboot, Escalate, PowerCycleEnabled, GiveUp, Recovered
<1>3. CASE PeriodicTick \/ PeriodicFallback \/ PeriodicDone
  BY <1>3, Exclusion DEF PeriodicTick, Ask, PowerCycleEnabled, PeriodicPowerCycleEnabled,
    PeriodicFallback, PeriodicDone, Rest
<1>4. ASSUME NEW a \in LoopActors, LoopExit(a) PROVE Beating'
  BY <1>4, Exclusion DEF LoopExit
<1>5. ASSUME NEW a \in Actors, Pause(a) PROVE Beating'
  BY <1>5, Exclusion DEF Pause
<1>6. ASSUME NEW a \in Actors, Load(a) PROVE Beating'
  BY <1>6, Exclusion DEF Load, Reachable, Exchange
<1>7. ASSUME NEW a \in Actors, Register(a) PROVE Beating'
  BY <1>7, Exclusion DEF Register
<1>8. ASSUME NEW a \in Actors, Beat(a) PROVE Beating'
  BY <1>8, Exclusion DEF Beat, Return
<1>9. ASSUME NEW a \in Actors,
            \/ Lock(a) \/ Debounce(a) \/ Request(a) \/ Cut(a) \/ Disconnect(a) \/ Restore(a) \/ Dial(a)
              \/ Authenticate(a) \/ Unreachable(a) \/ Refused(a) \/ Cleanup(a)
     PROVE  Beating'
  BY <1>9, Exclusion DEF Lock, Debounce, Return, Request, Orphaned, Cut, Disconnect, Restore,
    Dial, Reachable, Exchange, Authenticate, Unreachable, Fail, LastAttempt, Refused, Cleanup
<1>10. CASE Tick \/ Frame \/ Expire \/ DropConnection \/ Freeze \/ BootDone \/ ManualPowerCycle
  BY <1>10, Exclusion DEF Tick, Age, Cutting, Frame, Expire, DropConnection, Freeze, BootDone,
    ManualPowerCycle, Orphaned
<1>11. CASE Crash \/ EarlySigterm
  BY <1>11, Exclusion DEF Crash, Die, EarlySigterm
<1>12. CASE UNCHANGED vars
  BY <1>12, Exclusion DEF vars
<1> QED BY <1>1, <1>2, <1>3, <1>4, <1>5, <1>6, <1>7, <1>8, <1>9, <1>10, <1>11, <1>12 DEF Next, OpStep, Environment

(* doPowerCycle restores the power it cut before it goes on to anything.   *)
LEMMA PowerStep ==
  ASSUME Control, Power, [Next]_vars
  PROVE  Power'
<1> USE DEF Power, DarkOnlyMidCycle, MidCycle, PowerCycleEnabled, Locking, Phases, Asked,
    LoopPhases, OneRecoveryAtATime, Driving, Results, Control, TypeOK, Actors, LoopActors,
    OpLabels, Goto, Step, appVars, plugVars, controlVars
<1>1. CASE Launch \/ Signal \/ MainStep
  BY <1>1, Exclusion DEF Launch, Signal, MainStep, StartupReboot, Ask, StartupEscalate,
    StartupFailed, StartLoops, CloseStopCh, StopHeartbeat, Join, CloseAll, Release
<1>2. CASE HealthStep
  BY <1>2, Exclusion DEF HealthStep, HealthTick, HealthyTick, WedgedTick, Ask, MarkAllUnavailable,
    Rest, MarkAllAvailable, ReactiveReboot, Escalate, GiveUp, Recovered
<1>3. CASE PeriodicTick \/ PeriodicFallback \/ PeriodicDone
  BY <1>3, Exclusion DEF PeriodicTick, Ask, PeriodicPowerCycleEnabled, PeriodicFallback,
    PeriodicDone, Rest
<1>4. ASSUME NEW a \in LoopActors, LoopExit(a) PROVE Power'
  BY <1>4, Exclusion DEF LoopExit
<1>5. ASSUME NEW a \in Actors, Lock(a) PROVE Power'
  BY <1>5, Exclusion DEF Lock
<1>6. ASSUME NEW a \in Actors, Debounce(a) PROVE Power'
  BY <1>6, Exclusion DEF Debounce, Return
<1>7. ASSUME NEW a \in Actors, Cut(a) PROVE Power'
  BY <1>7, Exclusion DEF Cut, Orphaned
<1>8. ASSUME NEW a \in Actors, Disconnect(a) PROVE Power'
  BY <1>8, Exclusion DEF Disconnect
<1>9. ASSUME NEW a \in Actors, Restore(a) PROVE Power'
  BY <1>9, Exclusion DEF Restore
<1>10. ASSUME NEW a \in Actors,
            \/ Pause(a) \/ Request(a) \/ Dial(a) \/ Authenticate(a) \/ Load(a) \/ Unreachable(a)
              \/ Refused(a) \/ Register(a) \/ Beat(a) \/ Cleanup(a)
     PROVE  Power'
  BY <1>10, Exclusion DEF Pause, Request, Orphaned, Dial, Reachable, Exchange, Authenticate, Load,
    Unreachable, Return, Fail, LastAttempt, Refused, Register, Beat, Cleanup
<1>11. CASE Tick \/ Frame \/ Expire \/ DropConnection \/ Freeze \/ BootDone \/ ManualPowerCycle
  BY <1>11, Exclusion DEF Tick, Age, Cutting, Frame, Expire, DropConnection, Freeze, BootDone,
    ManualPowerCycle, Orphaned
<1>12. CASE Crash \/ EarlySigterm
  BY <1>12, Exclusion DEF Crash, Die, EarlySigterm
<1>13. CASE UNCHANGED vars
  BY <1>13, Exclusion DEF vars
<1> QED BY <1>1, <1>2, <1>3, <1>4, <1>5, <1>6, <1>7, <1>8, <1>9, <1>10, <1>11, <1>12, <1>13 DEF Next, OpStep, Environment

(* Where checkHealth clears the wedge it goes on to MarkAllAvailable.      *)
LEMMA TellingStep ==
  ASSUME Control, Telling, [Next]_vars
  PROVE  Telling'
<1> USE DEF Telling, OfflineIsRemembered, Locking, Phases, Asked, LoopPhases, OneRecoveryAtATime,
    Driving, Results, Control, TypeOK, Actors, LoopActors, OpLabels, Goto, Step, appVars,
    plugVars, controlVars
<1>1. CASE Launch \/ Signal \/ MainStep
  BY <1>1 DEF Launch, Signal, MainStep, StartupReboot, Ask, StartupEscalate, PowerCycleEnabled,
    StartupFailed, StartLoops, CloseStopCh, StopHeartbeat, Join, CloseAll, Release
<1>2. CASE HealthStep
  BY <1>2 DEF HealthStep, HealthTick, HealthyTick, WedgedTick, Ask, MarkAllUnavailable, Rest,
    MarkAllAvailable, ReactiveReboot, Escalate, PowerCycleEnabled, GiveUp, Recovered
<1>3. CASE PeriodicTick \/ PeriodicFallback \/ PeriodicDone
  BY <1>3 DEF PeriodicTick, Ask, PowerCycleEnabled, PeriodicPowerCycleEnabled, PeriodicFallback,
    PeriodicDone, Rest
<1>4. ASSUME NEW a \in LoopActors, LoopExit(a) PROVE Telling'
  BY <1>4 DEF LoopExit
<1>5. ASSUME NEW a \in Actors,
            \/ Lock(a) \/ Debounce(a) \/ Pause(a) \/ Request(a) \/ Cut(a) \/ Disconnect(a)
              \/ Restore(a) \/ Dial(a) \/ Authenticate(a) \/ Load(a) \/ Unreachable(a)
              \/ Refused(a) \/ Register(a) \/ Beat(a) \/ Cleanup(a)
     PROVE  Telling'
  BY <1>5 DEF Lock, Debounce, Return, Pause, Request, Orphaned, Cut, Disconnect, Restore, Dial,
    Reachable, Exchange, Authenticate, Load, Unreachable, Fail, LastAttempt, Refused, Register,
    Beat, Cleanup
<1>6. CASE Tick \/ Frame \/ Expire \/ DropConnection \/ Freeze \/ BootDone \/ ManualPowerCycle
  BY <1>6 DEF Tick, Age, Cutting, Frame, Expire, DropConnection, Freeze, BootDone,
    ManualPowerCycle, Orphaned
<1>7. CASE Crash \/ EarlySigterm
  BY <1>7 DEF Crash, Die, EarlySigterm
<1>8. CASE UNCHANGED vars
  BY <1>8 DEF vars
<1> QED BY <1>1, <1>2, <1>3, <1>4, <1>5, <1>6, <1>7, <1>8 DEF Next, OpStep, Environment

(* What Stop tore down is not set up again before the process ends.        *)
LEMMA LeavingStep ==
  ASSUME Control, Session, Power, Leaving, [Next]_vars
  PROVE  Leaving'
<1> USE DEF Leaving, ExitIsClean, Session, Power, DarkOnlyMidCycle, MidCycle, Locking, Phases,
    Asked, LoopPhases, OneRecoveryAtATime, Driving, Results, Control, TypeOK, Actors, LoopActors,
    OpLabels, Goto, Step, appVars, plugVars, controlVars
<1>1. CASE Launch \/ Signal \/ MainStep
  BY <1>1 DEF Launch, Signal, MainStep, StartupReboot, Ask, StartupEscalate, PowerCycleEnabled,
    StartupFailed, StartLoops, CloseStopCh, StopHeartbeat, Join, CloseAll, Release
<1>2. CASE HealthStep
  BY <1>2 DEF HealthStep, HealthTick, HealthyTick, WedgedTick, Ask, MarkAllUnavailable, Rest,
    MarkAllAvailable, ReactiveReboot, Escalate, PowerCycleEnabled, GiveUp, Recovered
<1>3. CASE PeriodicTick \/ PeriodicFallback \/ PeriodicDone
  BY <1>3 DEF PeriodicTick, Ask, PowerCycleEnabled, PeriodicPowerCycleEnabled, PeriodicFallback,
    PeriodicDone, Rest
<1>4. ASSUME NEW a \in LoopActors, LoopExit(a) PROVE Leaving'
  BY <1>4 DEF LoopExit
<1>5. ASSUME NEW a \in Actors, Register(a) PROVE Leaving'
  BY <1>5 DEF Register
<1>6. ASSUME NEW a \in Actors,
            \/ Lock(a) \/ Debounce(a) \/ Pause(a) \/ Request(a) \/ Cut(a) \/ Disconnect(a)
              \/ Restore(a) \/ Dial(a) \/ Authenticate(a) \/ Load(a) \/ Unreachable(a)
              \/ Refused(a) \/ Beat(a) \/ Cleanup(a)
     PROVE  Leaving'
  BY <1>6 DEF Lock, Debounce, Return, Pause, Request, Orphaned, Cut, Disconnect, Restore, Dial,
    Reachable, Exchange, Authenticate, Load, Unreachable, Fail, LastAttempt, Refused, Beat,
    Cleanup
<1>7. CASE Tick \/ Frame \/ Expire \/ DropConnection \/ Freeze \/ BootDone \/ ManualPowerCycle
  BY <1>7 DEF Tick, Age, Cutting, Frame, Expire, DropConnection, Freeze, BootDone,
    ManualPowerCycle, Orphaned
<1>8. CASE Crash \/ EarlySigterm
  BY <1>8 DEF Crash, Die, EarlySigterm
<1>9. CASE UNCHANGED vars
  BY <1>9 DEF vars
<1> QED BY <1>1, <1>2, <1>3, <1>4, <1>5, <1>6, <1>7, <1>8, <1>9 DEF Next, OpStep, Environment

(* The debounce of doPowerCycle, carried from its stamp to its OFF.        *)
LEMMA SpacingStep ==
  ASSUME Control, Spacing, [Next]_vars
  PROVE  Spacing'
<1> USE DEF Spacing, GuaranteedGap, Cutting, Locking, Phases, Asked, LoopPhases,
    OneRecoveryAtATime, Driving, Results, Control, TypeOK, Actors, LoopActors, OpLabels, Goto,
    Step, appVars, plugVars, controlVars
<1>1. CASE Launch \/ Signal \/ MainStep
  BY <1>1, Exclusion, TimingAssumption DEF Launch, Signal, MainStep, StartupReboot, Ask,
    StartupEscalate, PowerCycleEnabled, StartupFailed, StartLoops, CloseStopCh, StopHeartbeat,
    Join, CloseAll, Release
<1>2. CASE HealthStep
  BY <1>2, Exclusion, TimingAssumption DEF HealthStep, HealthTick, HealthyTick, WedgedTick, Ask,
    MarkAllUnavailable, Rest, MarkAllAvailable, ReactiveReboot, Escalate, PowerCycleEnabled,
    GiveUp, Recovered
<1>3. CASE PeriodicTick \/ PeriodicFallback \/ PeriodicDone
  BY <1>3, Exclusion, TimingAssumption DEF PeriodicTick, Ask, PowerCycleEnabled,
    PeriodicPowerCycleEnabled, PeriodicFallback, PeriodicDone, Rest
<1>4. ASSUME NEW a \in LoopActors, LoopExit(a) PROVE Spacing'
  BY <1>4, Exclusion, TimingAssumption DEF LoopExit
<1>5. ASSUME NEW a \in Actors, Lock(a) PROVE Spacing'
  BY <1>5, Exclusion, TimingAssumption DEF Lock
<1>6. ASSUME NEW a \in Actors, Debounce(a) PROVE Spacing'
  BY <1>6, Exclusion, TimingAssumption DEF Debounce, Return
<1>7. ASSUME NEW a \in Actors, Pause(a) PROVE Spacing'
  BY <1>7, Exclusion, TimingAssumption DEF Pause
<1>8. ASSUME NEW a \in Actors, Cut(a) PROVE Spacing'
  BY <1>8, Exclusion, TimingAssumption DEF Cut, Orphaned
<1>9. ASSUME NEW a \in Actors,
            \/ Request(a) \/ Disconnect(a) \/ Restore(a) \/ Dial(a) \/ Authenticate(a) \/ Load(a)
              \/ Unreachable(a) \/ Refused(a) \/ Register(a) \/ Beat(a) \/ Cleanup(a)
     PROVE  Spacing'
  BY <1>9, Exclusion, TimingAssumption DEF Request, Orphaned, Disconnect, Restore, Dial,
    Reachable, Exchange, Authenticate, Load, Unreachable, Return, Fail, LastAttempt, Refused,
    Register, Beat, Cleanup
<1>10. CASE Tick \/ Frame \/ Expire \/ DropConnection \/ Freeze \/ BootDone \/ ManualPowerCycle
  BY <1>10, Exclusion, TimingAssumption DEF Tick, Age, Frame, Expire, DropConnection, Freeze,
    BootDone, ManualPowerCycle, Orphaned
<1>11. CASE Crash \/ EarlySigterm
  BY <1>11, Exclusion, TimingAssumption DEF Crash, Die, EarlySigterm
<1>12. CASE UNCHANGED vars
  BY <1>12, Exclusion, TimingAssumption DEF vars
<1> QED BY <1>1, <1>2, <1>3, <1>4, <1>5, <1>6, <1>7, <1>8, <1>9, <1>10, <1>11, <1>12 DEF Next, OpStep, Environment

-----------------------------------------------------------------------------
(* The strengthened invariant holds in every reachable state, and with it  *)
(* each of the properties it strengthens.                                  *)
THEOREM Invariance == SafetySpec => []IInv
<1>1. Init => IInv
  <2> SUFFICES ASSUME Init PROVE IInv
    OBVIOUS
  <2> USE DEF Init, Actors, LoopActors, OpLabels, Results, StopLabels, Labels
  <2>1. FlagsOK
    BY Zenon DEF FlagsOK
  <2>2. Control
    BY <2>1, ConfigAssumption, TimingAssumption
    DEF Control, TypeOK, Locking, Phases, Asked, Budget, LoopPhases, Ops
  <2>3. Session /\ Beating /\ Telling /\ Leaving
    BY DEF Session, Beating, HeartbeatPaused, Telling, OfflineIsRemembered, Leaving, ExitIsClean
  <2>4. Power /\ Spacing
    BY DEF Power, DarkOnlyMidCycle, MidCycle, Spacing, Cutting
  <2> QED BY <2>2, <2>3, <2>4 DEF IInv
<1>2. ASSUME IInv, [Next]_vars PROVE IInv'
  <2>1. Control'
    BY <1>2, TypeStep, LockingStep, PhasesStep, AskedStep, BudgetStep DEF IInv, Control
  <2>2. Session' /\ Beating'
    BY <1>2, SessionStep, BeatingStep DEF IInv
  <2>3. Power' /\ Telling' /\ Leaving' /\ Spacing'
    BY <1>2, PowerStep, TellingStep, LeavingStep, SpacingStep DEF IInv
  <2> QED BY <2>1, <2>2, <2>3 DEF IInv
<1> QED BY <1>1, <1>2, PTL DEF SafetySpec

(* Every variable of the runtime stays in its set.                         *)
THEOREM TypeCorrect == SafetySpec => []TypeOK
<1>1. IInv => TypeOK
  BY DEF IInv, Control
<1> QED BY <1>1, Invariance, PTL

(* Reboot, reconnect, power cycle and the first bring-up of Start never    *)
(* interleave on the connection, whichever goroutines ask for them.        *)
THEOREM MutualExclusion == SafetySpec => []OneRecoveryAtATime
<1>1. IInv => OneRecoveryAtATime
  BY Exclusion DEF IInv
<1> QED BY <1>1, Invariance, PTL

(* connectAndLoad always dials from a closed connection.                   *)
THEOREM CleanSlate == SafetySpec => []DialFromCleanSlate
<1>1. IInv => DialFromCleanSlate
  BY DEF IInv, Session, DialFromCleanSlate
<1> QED BY <1>1, Invariance, PTL

(* No pulse races an operation, and none runs on unwired nodes.            *)
THEOREM QuietHeartbeat == SafetySpec => []HeartbeatPaused
<1>1. IInv => HeartbeatPaused
  BY DEF IInv, Beating
<1> QED BY <1>1, Invariance, PTL

(* Power is off only within a cycle of a goroutine that is to restore it,  *)
(* or because a process died there; without a plug topic, never.           *)
THEOREM DarkIsTemporary == SafetySpec => []DarkOnlyMidCycle
<1>1. IInv => DarkOnlyMidCycle
  BY DEF IInv, Power
<1> QED BY <1>1, Invariance, PTL

(* checkHealth never forgets a wedge while it has covers offline.          *)
THEOREM WedgeIsRemembered == SafetySpec => []OfflineIsRemembered
<1>1. IInv => OfflineIsRemembered
  BY DEF IInv, Telling
<1> QED BY <1>1, Invariance, PTL

(* A process that went through Stop leaves nothing behind.                 *)
THEOREM CleanExit == SafetySpec => []ExitIsClean
<1>1. IInv => ExitIsClean
  BY DEF IInv, Leaving
<1> QED BY <1>1, Invariance, PTL

-----------------------------------------------------------------------------
(***************************************************************************)
(* The plug.  A Cut maps to a Cut, a Restore to a Restore, a Launch to a   *)
(* NewProcess, a Tick to a Tick or, once the gap has passed, to a stutter, *)
(* and every other step leaves the plug alone.                             *)
(***************************************************************************)
(* A cut happens with the power on, or off from another process, and at    *)
(* least the guaranteed gap after the last cut of this one.                *)
LEMMA CutMaps ==
  ASSUME IInv, NEW a \in Actors, Cut(a)
  PROVE  Plug!Cut
<1>1. Cutting(a) /\ Driving(a)
  BY DEF Cut, Step, IInv, Control, Asked, Cutting, Driving, OpLabels
<1>2. cutBy = "this" => cutAge >= GuaranteedGap
  BY <1>1 DEF IInv, Spacing
<1>3. \A b \in Actors : ~MidCycle(b)
  BY <1>1, Exclusion DEF IInv, OneRecoveryAtATime, Cut, Step, MidCycle, Driving, OpLabels
<1>4. gateway # "dark" \/ cutBy # "this"
  BY <1>1, <1>3 DEF IInv, Power, Control, Phases, Asked, Cut, Step, Actors, LoopActors, LoopPhases
<1>5. cutAge \in Nat /\ GuaranteedGap \in Nat
  BY TimingAssumption DEF IInv, Control, TypeOK, GuaranteedGap
<1> QED BY <1>2, <1>4, <1>5, TimingAssumption DEF Cut, Plug!Cut, GuaranteedGap

(* The abstract age stops at the guaranteed gap, the concrete at MinGap.   *)
LEMMA TickMaps ==
  ASSUME IInv, Tick
  PROVE  [Plug!Tick]_(Plug!pvars)
<1>1. cutAge \in 0 .. MinGap /\ GuaranteedGap \in Nat /\ GuaranteedGap <= MinGap
  BY TimingAssumption DEF IInv, Control, TypeOK, GuaranteedGap
<1>2. CASE cutBy = "this" /\ cutAge < GuaranteedGap
  BY <1>1, <1>2, TimingAssumption DEF Tick, Age, Plug!Tick, GuaranteedGap
<1>3. CASE ~(cutBy = "this" /\ cutAge < GuaranteedGap)
  BY <1>1, <1>3, TimingAssumption DEF Tick, Age, Plug!pvars, GuaranteedGap
<1> QED BY <1>2, <1>3

(* No other step switches the plug or forgets when it was switched.        *)
LEMMA OthersLeavePlug ==
  ASSUME [Next]_vars, ~Launch, ~Tick, \A a \in Actors : ~Cut(a) /\ ~Restore(a)
  PROVE  UNCHANGED Plug!pvars
<1> USE DEF Plug!pvars, plugVars
<1>1. CASE Signal \/ MainStep
  BY <1>1 DEF Signal, MainStep, StartupReboot, StartupEscalate, StartupFailed, StartLoops,
    CloseStopCh, StopHeartbeat, Join, CloseAll, Release
<1>2. CASE HealthStep \/ PeriodicTick \/ PeriodicFallback \/ PeriodicDone
  BY <1>2 DEF HealthStep, HealthTick, HealthyTick, WedgedTick, MarkAllUnavailable,
    MarkAllAvailable, ReactiveReboot, Escalate, GiveUp, Recovered, PeriodicTick, PeriodicFallback,
    PeriodicDone
<1>3. ASSUME NEW a \in LoopActors, LoopExit(a) PROVE UNCHANGED Plug!pvars
  BY <1>3 DEF LoopExit
<1>4. ASSUME NEW a \in Actors, Lock(a) \/ OpStep(a), ~Cut(a), ~Restore(a)
      PROVE  UNCHANGED Plug!pvars
  BY <1>4 DEF Lock, OpStep, Debounce, Pause, Request, Disconnect, Dial, Authenticate, Load,
    Unreachable, Refused, Register, Beat, Cleanup
<1>5. CASE Frame \/ Expire \/ DropConnection \/ Freeze \/ BootDone \/ ManualPowerCycle
  BY <1>5 DEF Frame, Expire, DropConnection, Freeze, BootDone, ManualPowerCycle
<1>6. CASE Crash \/ EarlySigterm
  BY <1>6 DEF Crash, EarlySigterm, Die
<1>7. CASE UNCHANGED vars
  BY <1>7 DEF vars
<1> QED BY <1>1, <1>2, <1>3, <1>4, <1>5, <1>6, <1>7 DEF Next, Environment

(* The recovery runtime implements PlugDiscipline: one process cuts the    *)
(* mains at most once per powerCycleMinGap, less the time the heartbeat    *)
(* takes to stop, and restores before it cuts again.                       *)
THEOREM Refinement == SafetySpec => PlugIsRespected
<1>1. Init => Plug!Init
  BY TimingAssumption DEF Init, Plug!Init, GuaranteedGap
<1>2. ASSUME IInv, [Next]_vars PROVE [Plug!Next]_(Plug!pvars)
  <2>1. ASSUME NEW a \in Actors, Cut(a) PROVE Plug!Next
    BY <1>2, <2>1, CutMaps DEF Plug!Next
  <2>2. CASE Tick
    BY <1>2, <2>2, TickMaps DEF Plug!Next
  <2>3. CASE Launch
    BY <2>3, TimingAssumption DEF Launch, Plug!NewProcess, Plug!Next, GuaranteedGap
  <2>4. ASSUME NEW a \in Actors, Restore(a) PROVE [Plug!Next]_(Plug!pvars)
    BY <2>4 DEF Restore, Plug!Restore, Plug!Next, Plug!pvars
  <2> QED BY <1>2, <2>1, <2>2, <2>3, <2>4, OthersLeavePlug
<1> QED BY <1>1, <1>2, Invariance, PTL DEF SafetySpec, PlugIsRespected, Plug!Safety, Plug!pvars

-----------------------------------------------------------------------------
(* The connection keeps to SessionSlot.                                    *)

(* A connection that goes away, or whose peer does.                        *)
LEMMA EndingMaps ==
  ASSUME conn \in {"none", "open", "auth", "dead"}, conn' \in {"none", Orphaned}
  PROVE  [Slot!Next]_(Slot!svars)
<1>1. CASE conn = "none"
  BY <1>1 DEF Orphaned, Slot!svars
<1>2. CASE conn # "none" /\ conn' = "none"
  BY <1>2 DEF Slot!LetGo, Slot!Next
<1>3. CASE conn # "none" /\ conn' = "dead"
  BY <1>3 DEF Slot!End, Slot!Next, Slot!svars
<1> QED BY <1>1, <1>2, <1>3 DEF Orphaned

(* A bring-up goes on only over what the exchange before it left.          *)
LEMMA BringUpMaps ==
  ASSUME NEW a \in Actors, Dial(a) \/ Authenticate(a)
  PROVE  [Slot!Next]_(Slot!svars)
<1>1. CASE Dial(a)
  <2>1. conn = "none" /\ conn' = "open"
    BY <1>1 DEF Dial, Step, Reachable, Exchange
  <2> QED BY <2>1 DEF Slot!Open, Slot!Next
<1>2. CASE Authenticate(a)
  <2>1. conn = "open" /\ conn' = "auth"
    BY <1>2 DEF Authenticate, Step, Reachable, Exchange
  <2> QED BY <2>1 DEF Slot!svars
<1> QED BY <1>1, <1>2

(* Which steps touch the connection, and how.                              *)
LEMMA ConnectionSteps ==
  ASSUME [Next]_vars, \A a \in Actors : ~Dial(a) /\ ~Authenticate(a)
  PROVE  conn' = conn \/ conn' \in {"none", Orphaned}
<1> DEFINE Ends == conn' = conn \/ conn' \in {"none", Orphaned}
<1>1. CASE Signal \/ MainStep \/ Launch
  BY <1>1 DEF Launch, Signal, MainStep, StartupReboot, StartupEscalate, StartupFailed, StartLoops,
    CloseStopCh, StopHeartbeat, Join, CloseAll, Release
<1>2. CASE HealthStep \/ PeriodicTick \/ PeriodicFallback \/ PeriodicDone
  BY <1>2 DEF HealthStep, HealthTick, HealthyTick, WedgedTick, MarkAllUnavailable,
    MarkAllAvailable, ReactiveReboot, Escalate, GiveUp, Recovered, PeriodicTick, PeriodicFallback,
    PeriodicDone
<1>3. ASSUME NEW a \in LoopActors, LoopExit(a) PROVE Ends
  BY <1>3 DEF LoopExit
<1>4. ASSUME NEW a \in Actors, Lock(a) \/ OpStep(a), ~Dial(a), ~Authenticate(a) PROVE Ends
  BY <1>4 DEF Lock, OpStep, Debounce, Pause, Request, Cut, Restore, Disconnect, Load,
    Unreachable, Refused, Register, Beat, Cleanup
<1>5. CASE Tick \/ Frame \/ Expire \/ DropConnection \/ Freeze \/ BootDone \/ ManualPowerCycle
  BY <1>5 DEF Tick, Frame, Expire, DropConnection, Freeze, BootDone, ManualPowerCycle
<1>6. CASE Crash \/ EarlySigterm
  BY <1>6 DEF Crash, EarlySigterm, Die
<1>7. CASE UNCHANGED vars
  BY <1>7 DEF vars
<1> QED BY <1>1, <1>2, <1>3, <1>4, <1>5, <1>6, <1>7 DEF Next, Environment

(* The connection of the runtime keeps to SessionSlot, the specification   *)
(* that Conn implements: whatever fails half way, kills the process or     *)
(* cuts the power, a bring-up dials from nothing and never goes on over a  *)
(* session that the gateway has lost (app.go, connectAndLoad).             *)
THEOREM SlotRefinement == SafetySpec => SlotIsKept
<1>1. Init => Slot!Init
  BY DEF Init, Slot!Init
<1>2. ASSUME IInv, [Next]_vars PROVE [Slot!Next]_(Slot!svars)
  <2>1. conn \in {"none", "open", "auth", "dead"}
    BY <1>2 DEF IInv, Control, TypeOK
  <2>2. ASSUME NEW a \in Actors, Dial(a) \/ Authenticate(a) PROVE [Slot!Next]_(Slot!svars)
    BY <2>2, BringUpMaps
  <2>3. CASE conn' = conn
    BY <2>3 DEF Slot!svars
  <2>4. CASE conn' \in {"none", Orphaned}
    BY <2>1, <2>4, EndingMaps
  <2> QED BY <1>2, <2>2, <2>3, <2>4, ConnectionSteps
<1> QED BY <1>1, <1>2, Invariance, PTL DEF SafetySpec, SlotIsKept, Slot!Safety, Slot!svars
=============================================================================
