------------------------------- MODULE MCWire -------------------------------
(***************************************************************************)
(* An instance of Wire for TLC.  Reads are cut at every byte of pairs of   *)
(* messages; every percentage and every step of a position goes once.      *)
(***************************************************************************)
EXTENDS Wire

Report(node, current) ==
  [is |-> "NodeStatePositionChanged", node |-> node, state |-> 5, current |-> current,
   target |-> TARGET, fps |-> <<UNKNOWN, 0, 51201, IGNORE>>, remaining |-> 219, timestamp |-> 14080]

\* Bytes of 192 and 219, and one of 220 after a 219, among the values.
Replies ==
  {Report(1, 49152), Report(1, 56284), Report(2, 0), Report(9, 25600),
   [is |-> "CommandSendConfirmation", session |-> 49371, status |-> 1],
   [is |-> "SetLimitationConfirmation", session |-> 56284, status |-> 0],
   [is |-> "CommandRunStatus", session |-> 192, status |-> 1, parameter |-> 0, value |-> 56284],
   [is |-> "SessionFinished", session |-> 56513],
   [is |-> "LimitationStatus", session |-> 3, node |-> 192, min |-> 0, max |-> IGNORE, time |-> 253],
   [is |-> "StatusRequestNotification", session |-> 4, node |-> 1,
    data |-> << <<0, 49152>>, <<3, 65535>> >>]}

Listed ==
  [is |-> "NodeInformation", node |-> 2, name |-> <<68, 195, 192>>, type |-> 192, state |-> 5,
   current |-> 512, target |-> 512, fps |-> <<UNKNOWN, UNKNOWN, UNKNOWN, UNKNOWN>>,
   remaining |-> 0, timestamp |-> 14080, aliases |-> <<55491, 49152, 55500, 219>>]

Fine(f) == [frame |-> f, fault |-> "none"]
Spread ==
  {Fine(f) : f \in Replies}
    \cup {[frame |-> Report(1, 5120), fault |-> x] : x \in Faults \ {"none"}}

Heard ==
  {<<m, n>> : m, n \in Spread} \cup {<<Fine(Listed)>>}
    \cup {<<Fine(Report(1, 256 * i + 255 * (i % 2)))>> : i \in 0 .. 202}

Requests ==
  {[ask |-> "position", session |-> 219, node |-> 192, percent |-> p, blind |-> b] :
     p \in 0 .. 100, b \in BOOLEAN}
  \cup {[ask |-> "stop", session |-> s, node |-> 1] : s \in {1, 49371, 56284, 65535}}
  \cup {[ask |-> "limit", session |-> s, node |-> 220, min |-> 0, max |-> 96, seconds |-> t] :
          s \in {5, 56513}, t \in 1 .. 61 \cup {5760, 5790, 6600, 7589, 7590, 7591, 86400}}
  \cup {[ask |-> "limits", session |-> 221, node |-> 1, type |-> t] : t \in {0, 1}}
  \cup {[ask |-> "status", session |-> 50395, node |-> n] : n \in {0, 192}}

Scenarios ==
  {[in |-> h, out |-> <<>>] : h \in Heard} \cup {[in |-> <<>>, out |-> <<q>>] : q \in Requests}
    \cup {[in |-> <<>>, out |-> <<q, r>>] :
            q, r \in {x \in Requests : x.ask \in {"stop", "limits", "status"}}}
=============================================================================
