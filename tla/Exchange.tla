------------------------------ MODULE Exchange ------------------------------
(***************************************************************************)
(* The exchanges with the gateway (app/klf200/command.go, limitation.go,   *)
(* scenes.go, auth_system.go, house_monitor.go, node_loading.go): what a   *)
(* call asks, which frames its handler listens to, which frame ends it,    *)
(* and when it then reports success.  Module Api runs them.                *)
(*                                                                         *)
(* A frame names the operation it belongs to (of), and is its confirmation *)
(* (cfm), a notification (ntf) or the end of a longer exchange (finished). *)
(* Of the payload only what a handler looks at is kept: the session id, a  *)
(* status, a number (of nodes or scenes announced or still to come) and    *)
(* the items it lists.                                                     *)
(*                                                                         *)
(* A call is its request together with the variables its handler closes    *)
(* over: success, the number expected (-1 before the confirmation) and     *)
(* what was collected.                                                     *)
(***************************************************************************)
EXTENDS Integers, Sequences

CONSTANTS
  System,   (* the nodes of the gateway, in the order it lists them        *)
  SceneList (* its scenes, likewise                                        *)

Statuses == {"accepted", "rejected"}

(* Calls that end with the first confirmation of their type.  The graded   *)
(* ones look at its status afterwards.                                     *)
PasswordEnter == {"PasswordEnter"}
Queries == {"GetVersion", "GetProtocolVersion", "GetNetworkSetup", "GetLocalTime"}
SetUTC == {"SetUTC"}
GetState == {"GetState"}
LeaveLearnState == {"LeaveLearnState"}
Resets == {"Reboot", "FactoryDefault"}
SetNodeName == {"SetNodeName"}
HouseStatusMonitor == {"HouseStatusMonitorEnable", "HouseStatusMonitorDisable"}

Graded   == PasswordEnter \cup LeaveLearnState \cup SetNodeName
Ungraded == Queries \cup SetUTC \cup GetState \cup Resets \cup HouseStatusMonitor

(* Calls that put a session id in the request and compare it.              *)
Moves == {"CommandSend", "ActivateScene"}
Reads == {"StatusRequest", "GetLimitation"}
Correlated == Moves \cup Reads

Lists == {"GetAllNodes", "GetSceneList"}

Ops == Graded \cup Ungraded \cup Correlated \cup Lists \cup {"SetLimitation", "LoadNode"}

NewCall(op, sid, node, wait) ==
  [op |-> op, sid |-> sid, node |-> node, wait |-> wait,
   success |-> FALSE, expected |-> -1, collected |-> <<>>]

-----------------------------------------------------------------------------
(* Frames.                                                                 *)

Cfm(op, sid, status, number) ==
  [of |-> op, part |-> "cfm", sid |-> sid, status |-> status, number |-> number, items |-> <<>>]
Ntf(op, sid, number, items) ==
  [of |-> op, part |-> "ntf", sid |-> sid, status |-> "accepted", number |-> number, items |-> items]
Finished(op, sid) ==
  [of |-> op, part |-> "finished", sid |-> sid, status |-> "accepted", number |-> 0, items |-> <<>>]

IsCfm(c, f) == f.of = c.op /\ f.part = "cfm"
IsNtf(c, f) == f.of = c.op /\ f.part = "ntf"
Own(c, f)   == f.sid = c.sid

(* Everything but a query can be refused.                                  *)
Verdicts(op) == IF op \in Ungraded \cup {"GetSceneList"} THEN {"accepted"} ELSE Statuses

(* What the gateway answers to a request, in this order: the answers of    *)
(* other exchanges come in between, and any of them may come late or never.*)
Replies(c, verdict) ==
  IF verdict = "rejected" THEN <<Cfm(c.op, c.sid, "rejected", 0)>>
  ELSE CASE c.op \in Moves ->
              <<Cfm(c.op, c.sid, "accepted", 0), Finished("Session", c.sid)>>
         [] c.op \in Reads ->
              <<Cfm(c.op, c.sid, "accepted", 0), Ntf(c.op, c.sid, 0, <<c.node>>)>>
         [] c.op = "GetAllNodes" ->
              <<Cfm(c.op, 0, "accepted", Len(System))>>
                \o [i \in DOMAIN System |-> Ntf(c.op, 0, 0, <<System[i]>>)]
                \o <<Finished(c.op, 0)>>
         [] c.op = "GetSceneList" ->
              <<Cfm(c.op, 0, "accepted", Len(SceneList))>>
                \o [i \in DOMAIN SceneList |-> Ntf(c.op, 0, Len(SceneList) - i, <<SceneList[i]>>)]
         [] c.op = "LoadNode" ->
              <<Cfm(c.op, 0, "accepted", 0), Ntf(c.op, 0, 0, <<c.node>>)>>
         [] OTHER -> <<Cfm(c.op, c.sid, "accepted", 0)>>

-----------------------------------------------------------------------------
(* Which frame ends a call.                                                *)

\* Any session may end the call.
ConcludesAny(c, f) ==
  \/ IsCfm(c, f) /\ ~c.wait
  \/ f.of = "Session" /\ f.part = "finished"

(* The confirmation, or the end of the movement if the call waits for it.  *)
Concludes(c, f) ==
  /\ Own(c, f)
  /\ \/ IsCfm(c, f) /\ ~c.wait
     \/ f.of = "Session" /\ f.part = "finished"

CommandSendEnds(c, f)   == c.op = "CommandSend" /\ Concludes(c, f)
SceneRunEnds(c, f)      == c.op = "ActivateScene" /\ Concludes(c, f)
StatusRequestEnds(c, f) == c.op = "StatusRequest" /\ IsNtf(c, f) /\ Own(c, f)
GetLimitationEnds(c, f) == c.op = "GetLimitation" /\ IsNtf(c, f) /\ Own(c, f)
SetLimitationEnds(c, f) == c.op = "SetLimitation" /\ IsCfm(c, f)
ConfirmationEnds(c, f)  == c.op \in Graded \cup Ungraded /\ IsCfm(c, f)
LoadAllNodesEnds(c, f)  == c.op = "GetAllNodes" /\ f.of = c.op /\ f.part = "finished"
LoadNodeEnds(c, f)      == c.op = "LoadNode" /\ IsNtf(c, f) /\ f.items = <<c.node>>

SceneListEnds(c, f) ==
  /\ c.op = "GetSceneList"
  /\ f.number = 0
  /\ IsCfm(c, f) \/ IsNtf(c, f)

Ends(c, f) ==
  \/ CommandSendEnds(c, f) \/ SceneRunEnds(c, f)
  \/ StatusRequestEnds(c, f) \/ GetLimitationEnds(c, f) \/ SetLimitationEnds(c, f)
  \/ ConfirmationEnds(c, f)
  \/ LoadAllNodesEnds(c, f) \/ LoadNodeEnds(c, f) \/ SceneListEnds(c, f)

-----------------------------------------------------------------------------
(* What the handler remembers of a frame, whether it ends the call or not. *)

(* A command or a scene is accepted once and for all.                      *)
NotesSession(c, f) ==
  IF c.op \in Moves /\ IsCfm(c, f) /\ Own(c, f) /\ f.status = "accepted"
  THEN [c EXCEPT !.success = TRUE] ELSE c

NotesLimitation(c, f) ==
  IF c.op = "SetLimitation" /\ IsCfm(c, f) /\ f.status # "rejected"
  THEN [c EXCEPT !.success = TRUE] ELSE c

(* The last confirmation is the one that is looked at after the call.      *)
NotesConfirmation(c, f) ==
  IF c.op \in Graded \cup Ungraded /\ IsCfm(c, f)
  THEN [c EXCEPT !.success = (c.op \in Graded => f.status = "accepted")] ELSE c

NotesResult(c, f) ==
  IF (c.op \in Reads /\ IsNtf(c, f) /\ Own(c, f)) \/ LoadNodeEnds(c, f)
  THEN [c EXCEPT !.success = TRUE, !.collected = f.items] ELSE c

NotesList(c, f) ==
  IF c.op \in Lists /\ IsCfm(c, f) THEN [c EXCEPT !.expected = f.number]
  ELSE IF c.op \in Lists /\ IsNtf(c, f) THEN [c EXCEPT !.collected = @ \o f.items]
  ELSE c

Notes(c, f) ==
  NotesList(NotesResult(NotesConfirmation(NotesLimitation(NotesSession(c, f), f), f), f), f)

-----------------------------------------------------------------------------
(* The result of a call that ended with a frame: a list of nodes is        *)
(* returned whatever its length, a list of scenes of the wrong length is   *)
(* an error.                                                               *)
Counted(c) == c.expected >= 0 => Len(c.collected) = c.expected

Succeeds(c) ==
  CASE c.op = "GetAllNodes"  -> TRUE
    [] c.op = "GetSceneList" -> Counted(c)
    [] OTHER                 -> c.success
=============================================================================
