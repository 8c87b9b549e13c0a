--------------------------- MODULE PlugDiscipline ---------------------------
(***************************************************************************)
(* What the bridge promises the smart plug and the gateway behind it       *)
(* (app/app.go, powerCycleMinGap and doPowerCycle): one process cuts the   *)
(* mains at most once per Gap, and restores what it cut before it cuts     *)
(* again.  A new process knows nothing of the cuts before it: it may find  *)
(* the plug off, and need not wait.                                        *)
(***************************************************************************)
EXTENDS Naturals

CONSTANT Gap   (* ticks that pass between two cuts of one process *)

VARIABLES
  power,   \* the plug, "on" or "off"
  age,     \* ticks since the last cut of the running process, at most Gap
  mine     \* the last cut was made by the running process

pvars == <<power, age, mine>>

Init ==
  /\ power = "on"
  /\ age = Gap
  /\ mine = FALSE

Cut ==
  /\ power = "on" \/ ~mine
  /\ age = Gap
  /\ power' = "off"
  /\ age' = 0
  /\ mine' = TRUE

Restore ==
  /\ power' = "on"
  /\ UNCHANGED <<age, mine>>

Tick ==
  /\ age < Gap
  /\ age' = age + 1
  /\ UNCHANGED <<power, mine>>

NewProcess ==
  /\ age' = Gap
  /\ mine' = FALSE
  /\ UNCHANGED power

Next == Cut \/ Restore \/ Tick \/ NewProcess

Safety == Init /\ [][Next]_pvars
=============================================================================
