------------------------------- MODULE MCApi -------------------------------
(***************************************************************************)
(* Instances of Api for TLC.                                               *)
(***************************************************************************)
EXTENDS Api

TwoNodes  == <<1, 2>>
TwoScenes == <<3, 4>>

\* The application: its own operations beside the commands of MQTT handlers.
App == [ops |-> {"CommandSend", "SetLimitation"}, busy |-> TRUE]
\* A user of the library, on a connection of its own.
User(ops) == [ops |-> ops, busy |-> FALSE]

AppAndUsers ==
  {App, User({"ActivateScene", "GetSceneList"}), User({"LoadNode", "GetLimitation"}),
   User({"SetNodeName", "GetVersion", "FactoryDefault"}), User({"LeaveLearnState", "SetLimitation"})}
=============================================================================
