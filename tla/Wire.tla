-------------------------------- MODULE Wire --------------------------------
(***************************************************************************)
(* The bytes of one connection (klf200/connection.go: Write and the body   *)
(* of readLoop) with the frames of module Frames in them.                  *)
(*                                                                         *)
(* A connection is a stream: what the gateway sends arrives complete and   *)
(* in order, cut into reads anywhere.  Module Conn has the threads around  *)
(* this: who dispatches to whom, and how a connection ends.  The two       *)
(* directions share nothing; a scenario has traffic in either.             *)
(*                                                                         *)
(* The gateway packs and unpacks by RFC 1055, the client by slip.go.       *)
(***************************************************************************)
EXTENDS Frames

CONSTANTS
  Traffic, (* scenarios: what the gateway says and what clients ask of it  *)
  MaxRead, (* the bytes a read returns at most: 4096 in the code           *)
  Covers   (* ids of the nodes that have a cover                           *)

Faults == {"none", "crc", "short", "unknown", "blank"}

(* What the gateway says: the frames of a cover.                           *)
Answer ==
  {f \in [is : {"NodeInformation"}, node : Byte, name : Seq(Byte \ {0}), type : Number,
          state : Byte, current : Number, target : Number, fps : [1 .. 4 -> Number],
          remaining : Number, timestamp : Nat, aliases : Seq(Number)] :
     /\ Len(f.name) <= 64
     /\ Len(f.aliases) \in {0, 2, 4, 6, 8, 10}
     /\ f.timestamp \div Wrap \in Number}
  \cup {f \in [is : {"NodeStatePositionChanged"}, node : Byte, state : Byte, current : Number,
               target : Number, fps : [1 .. 4 -> Number], remaining : Number, timestamp : Nat] :
          f.timestamp \div Wrap \in Number}
  \cup [is : {"CommandSendConfirmation", "SetLimitationConfirmation"}, session : Number,
        status : Byte]
  \cup [is : {"CommandRunStatus"}, session : Number, status : Byte, parameter : Byte,
        value : Number]
  \cup [is : {"SessionFinished"}, session : Number]
  \cup {f \in [is : {"StatusRequestNotification"}, session : Number, node : Byte,
               data : Seq(Byte \X Number)] : Len(f.data) <= 17}
  \cup [is : {"LimitationStatus"}, session : Number, node : Byte, min : Number, max : Number,
        time : Byte]

(* A status says how many parameters it has: it is read whole without its  *)
(* last byte, and is not one that is too short.                            *)
Message ==
  {m \in [frame : Answer, fault : Faults] :
     m.fault = "short" => m.frame.is # "StatusRequestNotification"}

(* What clients ask.                                                       *)
Ask ==
  [ask : {"position"}, session : Number, node : Byte, percent : 0 .. 100, blind : BOOLEAN]
  \cup [ask : {"stop", "status"}, session : Number, node : Byte]
  \cup [ask : {"limit"}, session : Number, node : Byte, min : 0 .. 100, max : 0 .. 100,
        seconds : Nat \ {0}]
  \cup [ask : {"limits"}, session : Number, node : Byte, type : Byte]

ASSUME TrafficAssumption ==
  /\ MaxRead \in Nat \ {0}
  /\ \A t \in Traffic : t.in \in Seq(Message) /\ t.out \in Seq(Ask)

VARIABLES
  said,     \* what the gateway says, all of it, and its bytes
  inbound,  \* what of its bytes was not read yet
  loop,     \* the read loop: reading or draining
  stream,   \* its buffer
  received, \* the frames it dispatched
  shown,    \* per cover: its position in percent
  todo,     \* what clients have yet to ask
  asked,    \* what they asked
  outbound  \* the bytes of that

reader  == <<said, inbound, loop, stream, received, shown>>
writers == <<todo, asked, outbound>>
vars    == <<reader, writers>>

-----------------------------------------------------------------------------
(* The gateway.                                                            *)

(* A message with a fault: a wrong checksum, a payload that is too short   *)
(* for its type, a type that has no frame here (GW_GROUP_DELETED_NTF), an  *)
(* empty packet.                                                           *)
Bytes(m) ==
  LET payload == MarshalPayload(m.frame)
      raw == BuildFrame(Code(m.frame.is), payload)
  IN  CASE m.fault = "none"    -> RfcPack(raw)
        [] m.fault = "crc"     -> RfcPack(Front(raw) \o <<(Last(raw) + 1) % 256>>)
        [] m.fault = "short"   -> RfcPack(BuildFrame(Code(m.frame.is), Front(payload)))
        [] m.fault = "unknown" -> RfcPack(BuildFrame(557, <<7>>))
        [] m.fault = "blank"   -> <<END, END>>

Understood(raw) ==
  LET command == Extract(raw).command
      payload == Extract(raw).payload
  IN  CASE command = Code("CommandSendRequest")   -> UnmarshalCommandSend(payload)
        [] command = Code("StatusRequestRequest") -> UnmarshalStatusRequest(payload)
        [] command = Code("SetLimitationRequest") -> UnmarshalSetLimitation(payload)
        [] command = Code("GetLimitationRequest") -> UnmarshalGetLimitation(payload)

Spoken(messages) ==
  [i \in DOMAIN messages |->
     [frame |-> messages[i].frame, fault |-> messages[i].fault, bytes |-> Bytes(messages[i])]]

AllBytes(messages) == FlattenSeq([i \in DOMAIN messages |-> messages[i].bytes])

-----------------------------------------------------------------------------
(* The client.                                                             *)

Init ==
  \E t \in Traffic :
    /\ said = Spoken(t.in) /\ inbound = AllBytes(said) /\ todo = t.out
    /\ loop = "reading" /\ stream = <<>> /\ received = <<>>
    /\ shown = [c \in Covers |-> "none"]
    /\ asked = <<>> /\ outbound = <<>>

Read ==
  /\ loop = "reading"
  /\ \E n \in 1 .. IF Len(inbound) < MaxRead THEN Len(inbound) ELSE MaxRead :
       /\ stream' = stream \o SubSeq(inbound, 1, n)
       /\ inbound' = SubSeq(inbound, n + 1, Len(inbound))
  /\ loop' = "draining"
  /\ UNCHANGED <<said, received, shown, writers>>

\* NodeUpdater: a position that is one goes to its cover.
Updated(frame) ==
  IF /\ frame.is \in {"NodeInformation", "NodeStatePositionChanged"}
     /\ frame.node \in Covers /\ frame.current <= MAX
  THEN [shown EXCEPT ![frame.node] = ToPercent(frame.current)] ELSE shown

Handle(raw) ==
  LET frames == FrameFromRaw(raw) IN
  /\ received' = received \o frames
  /\ shown' = IF frames = <<>> THEN shown ELSE Updated(frames[1])

PacketPerRead ==
  /\ loop = "draining" /\ IsSlip(stream)
  /\ LET next == GetNextSlip(stream) IN stream' = next.remaining /\ Handle(next.packet)
  /\ loop' = "reading"
  /\ UNCHANGED <<said, inbound, writers>>

\* Of a packet that is empty the loop thinks that there is none.
Packet ==
  /\ loop = "draining" /\ IsSlip(stream)
  /\ LET next == GetNextSlip(stream) IN
     /\ stream' = next.remaining
     /\ IF next.packet = <<>>
        THEN loop' = "reading" /\ UNCHANGED <<received, shown>>
        ELSE loop' = "draining" /\ Handle(next.packet)
  /\ UNCHANGED <<said, inbound, writers>>

Rest ==
  /\ loop = "draining" /\ ~IsSlip(stream)
  /\ loop' = "reading"
  /\ UNCHANGED <<said, inbound, stream, received, shown, writers>>

(* The frame a client builds of what it is asked.  Positions go as they    *)
(* are, and a blind has its slats moved by what the position is.           *)
Request(a) ==
  CASE a.ask = "position" ->
         [is |-> "CommandSendRequest", session |-> a.session, nodes |-> <<a.node>>,
          parameter |-> FromPercent(a.percent),
          fps |-> [i \in IF a.blind THEN {3} ELSE {} |-> IF a.percent = 0 THEN 0 ELSE IGNORE]]
    [] a.ask = "stop" ->
         [is |-> "CommandSendRequest", session |-> a.session, nodes |-> <<a.node>>,
          parameter |-> CURRENT, fps |-> <<>>]
    [] a.ask = "status" ->
         [is |-> "StatusRequestRequest", session |-> a.session, nodes |-> <<a.node>>]
    [] a.ask = "limit" ->
         [is |-> "SetLimitationRequest", session |-> a.session, nodes |-> <<a.node>>,
          min |-> FromPercent(a.min), max |-> FromPercent(a.max),
          time |-> LimitationTime(a.seconds)]
    [] a.ask = "limits" ->
         [is |-> "GetLimitationRequest", session |-> a.session, nodes |-> <<a.node>>,
          type |-> a.type]

Write ==
  /\ todo # <<>>
  /\ todo' = Tail(todo) /\ asked' = Append(asked, Head(todo))
  /\ outbound' = outbound \o SlipPack(MarshalFrame(Request(Head(todo))))
  /\ UNCHANGED reader

Next == Read \/ Packet \/ Rest \/ Write

Spec == Init /\ [][Next]_vars

-----------------------------------------------------------------------------

(* What a frame says, by the meaning of its values: beyond fully closed    *)
(* there are four that say something.                                      *)
Plain(value) ==
  IF value \in 0 .. MAX \cup {UNKNOWN, CURRENT, TARGET, IGNORE} THEN value ELSE UNKNOWN

Means(field, value) ==
  IF field \in {"current", "target"} THEN Plain(value)
  ELSE IF field = "fps" THEN [i \in 1 .. 4 |-> Plain(value[i])]
  ELSE IF field = "data" THEN [i \in DOMAIN value |-> <<value[i][1], Plain(value[i][2])>>]
  ELSE value

Meaning(frame) == [field \in DOMAIN frame |-> Means(field, frame[field])]

Meanings(messages) ==
  FlattenSeq([i \in DOMAIN messages |->
    IF messages[i].fault = "none" THEN <<Meaning(messages[i].frame)>> ELSE <<>>])

\* The messages whose last byte was read.
Arrived ==
  LET read == Len(AllBytes(said)) - Len(inbound)
      Whole(n) == Len(AllBytes(SubSeq(said, 1, n))) <= read
  IN  SubSeq(said, 1, CHOOSE n \in 0 .. Len(said) :
                         Whole(n) /\ (n = Len(said) \/ ~Whole(n + 1)))

(* However its bytes are cut, what the gateway says is dispatched in its   *)
(* order, once, value by value as it was meant, and what is damaged or not *)
(* known does not damage what is next to it.  A cover shows the percentage *)
(* nearest to the last position that was one.  (readLoop, GetNextSlip,     *)
(* FrameFromRaw, the frames' UnmarshalPayload, positionToPercent)          *)
DeliveredAsMeant ==
  /\ IsPrefix(received, Meanings(said))
  /\ \A c \in Covers :
       LET reports == {i \in DOMAIN received :
                        /\ received[i].is \in {"NodeInformation", "NodeStatePositionChanged"}
                        /\ received[i].node = c /\ received[i].current \in 0 .. MAX}
       IN  IF reports = {} THEN shown[c] = "none"
           ELSE shown[c] * 512 - received[Max(reports)].current \in -256 .. 256

(* When the loop reads again, every frame whose last byte has come has     *)
(* been dispatched: none waits in the buffer for bytes of a later one, as  *)
(* long as no packet was empty.  (readLoop: "Drain all complete SLIP       *)
(* packets currently buffered.")                                           *)
NothingHeldBack ==
  loop = "reading" /\ (\A i \in DOMAIN Arrived : Arrived[i].fault # "blank")
    => Len(received) = Len(Meanings(Arrived))

(* What a frame makes the gateway do is what was asked: this node, in this *)
(* session, this percentage, the slats of a blind horizontal with 0% and   *)
(* left alone else, a limitation that lasts as long as it was asked for    *)
(* and less than half a minute more, if that can be said at all.           *)
Does(frame, a) ==
  /\ frame.session = a.session /\ frame.nodes = <<a.node>>
  /\ CASE a.ask = "position" ->
            /\ frame.is = "CommandSendRequest"
            /\ frame.parameter * 100 = a.percent * MAX
            /\ DOMAIN frame.fps = IF a.blind THEN {3} ELSE {}
            /\ a.blind => frame.fps[3] = IF a.percent = 0 THEN 0 ELSE IGNORE
       [] a.ask = "stop"   ->
            frame.is = "CommandSendRequest" /\ frame.parameter = CURRENT /\ DOMAIN frame.fps = {}
       [] a.ask = "status" -> frame.is = "StatusRequestRequest"
       [] a.ask = "limit"  ->
            /\ frame.is = "SetLimitationRequest"
            /\ frame.min * 100 = a.min * MAX /\ frame.max * 100 = a.max * MAX
            /\ IF a.seconds > 7590 THEN GetTimeSeconds(frame.time) = 7590
               ELSE GetTimeSeconds(frame.time) - a.seconds \in 0 .. 29
       [] a.ask = "limits" -> frame.is = "GetLimitationRequest" /\ frame.type = a.type

(* The gateway finds in the bytes of the writes one sound frame for each   *)
(* request, in their order, that does what was asked.  (Conn.Write,        *)
(* SlipEncode, BuildFrame, the frames' MarshalPayload, positionFromPercent,*)
(* NewLimitationTime)                                                      *)
OutgoingIntact ==
  LET packets == RfcUnpack(outbound) IN
  /\ Len(packets) = Len(asked)
  /\ \A i \in DOMAIN asked :
       /\ Sound(packets[i])
       /\ Does(Understood(packets[i]), asked[i])
=============================================================================
