------------------------------- MODULE Frames -------------------------------
(***************************************************************************)
(* What travels between the client and the gateway (klf200/protocol): the  *)
(* packets of RFC 1055 (slip.go), the frames in them (frame.go,            *)
(* creation.go), the layouts of their payloads (frame_*.go) and the values *)
(* in those (parameter.go).  Operators only; module Wire has the steps.    *)
(*                                                                         *)
(* A byte is a number below 256, bytes are a sequence of them.  A frame is *)
(* a record, its field "is" naming the type.  A marshalling operator turns *)
(* a frame into a payload and an unmarshalling one a payload into a frame, *)
(* for the frames of a cover: the list of nodes, reports, commands,        *)
(* limitations, and the status.                                            *)
(***************************************************************************)
EXTENDS Integers, Sequences, FiniteSets, SequencesExt

Byte   == 0 .. 255
Wrap   == 65536
Number == 0 .. Wrap - 1 \* in two bytes

END     == 192
ESC     == 219
ESC_END == 220
ESC_ESC == 221

-----------------------------------------------------------------------------
(* Packets.                                                                *)

\* bytes.ReplaceAll of a pair of different bytes by one.
Pair(raw, first, second, i) ==
  i \in 1 .. Len(raw) - 1 /\ raw[i] = first /\ raw[i + 1] = second

Unpaired(raw, first, second, by) ==
  FlattenSeq([i \in DOMAIN raw |->
    IF Pair(raw, first, second, i) THEN <<by>>
    ELSE IF Pair(raw, first, second, i - 1) THEN <<>> ELSE <<raw[i]>>])

\* bytes.ReplaceAll of a byte by a pair.
Paired(raw, byte, pair) ==
  FlattenSeq([i \in DOMAIN raw |-> IF raw[i] = byte THEN pair ELSE <<raw[i]>>])

IsSlip(raw) ==
  Len(raw) >= 2 /\ raw[1] = END /\ \E i \in 2 .. Len(raw) : raw[i] = END

SlipDecodeSwapped(raw) ==
  Unpaired(Unpaired(raw, ESC, ESC_ESC, ESC), ESC, ESC_END, END)

SlipDecode(raw) ==
  Unpaired(Unpaired(raw, ESC, ESC_END, END), ESC, ESC_ESC, ESC)

SlipEncodeSwapped(raw) ==
  Paired(Paired(raw, END, <<ESC, ESC_END>>), ESC, <<ESC, ESC_ESC>>)

SlipEncode(raw) ==
  Paired(Paired(raw, ESC, <<ESC, ESC_ESC>>), END, <<ESC, ESC_END>>)

SlipPack(raw) == <<END>> \o SlipEncode(raw) \o <<END>>

(* For a stream that IsSlip.  The code has nil for an empty packet.        *)
GetNextSlip(raw) ==
  LET end == CHOOSE i \in 2 .. Len(raw) :
               raw[i] = END /\ \A j \in 2 .. i - 1 : raw[j] # END
  IN  [packet |-> SlipDecode(SubSeq(raw, 2, end - 1)),
       remaining |-> SubSeq(raw, end + 1, Len(raw))]

(* The same by RFC 1055 as it stands there, a byte at a time and not by    *)
(* replacements: how the gateway packs and unpacks.                        *)
Stuffed(byte) ==
  CASE byte = END -> <<ESC, ESC_END>>
    [] byte = ESC -> <<ESC, ESC_ESC>>
    [] OTHER      -> <<byte>>

RfcPack(raw) == <<END>> \o FlattenSeq([i \in DOMAIN raw |-> Stuffed(raw[i])]) \o <<END>>

\* Packets of a complete stream; the empty ones do not count.
Starts(bytes, i) == bytes[i] = END /\ i < Len(bytes) /\ bytes[i + 1] # END

Ends(bytes, i) ==
  CHOOSE j \in i + 1 .. Len(bytes) :
    bytes[j] = END /\ \A k \in i + 1 .. j - 1 : bytes[k] # END

Unstuffed(previous, byte) ==
  IF byte = ESC THEN <<>>
  ELSE IF previous # ESC THEN <<byte>> ELSE IF byte = ESC_END THEN <<END>> ELSE <<ESC>>

RfcUnpack(bytes) ==
  LET Inside(i) == FlattenSeq([k \in 1 .. Ends(bytes, i) - i - 1 |->
                                 Unstuffed(bytes[i + k - 1], bytes[i + k])])
  IN  FlattenSeq([i \in DOMAIN bytes |-> IF Starts(bytes, i) THEN <<Inside(i)>> ELSE <<>>])

-----------------------------------------------------------------------------
(* Numbers, and positions in them.                                         *)

Two(n)  == <<(n \div 256) % 256, n % 256>>
Four(n) == Two((n \div Wrap) % Wrap) \o Two(n % Wrap)
\* Offsets count from 0, as in the source.
At(p, i)    == p[i + 1]
Word(p, i)  == At(p, i) * 256 + At(p, i + 1)
Long(p, i)  == Word(p, i) * Wrap + Word(p, i + 2)

UNKNOWN == 63487 \* 0xF7FF
CURRENT == 53760 \* 0xD200
TARGET  == 53504 \* 0xD100
IGNORE  == 54272 \* 0xD400
MAX     == 51200 \* 0xC800

NewParameter(raw) ==
  IF raw > MAX /\ raw \notin {UNKNOWN, CURRENT, TARGET, IGNORE} THEN UNKNOWN ELSE raw
Parameter(p, i) == NewParameter(Word(p, i))

FromPercent(percent) == percent * 2 * 256

\* int(raw[0]/2 + 0.5): up, where the division of integers goes down.
ToPercent(raw) == ((raw \div 256) + 1) \div 2

\* The last byte that is a time, and ceil(t / 30) - 1.
LimitationTime(seconds) ==
  IF seconds > 7590 THEN 252 ELSE (((seconds + 29) \div 30) - 1) % 256

GetTimeSeconds(time) == (time + 1) * 30

-----------------------------------------------------------------------------
(* Frames.                                                                 *)

\* XOR, bit by bit.
CalcCRC(raw) ==
  LET Bit(n) == n * (Cardinality({i \in DOMAIN raw : (raw[i] \div n) % 2 = 1}) % 2)
  IN  Bit(128) + Bit(64) + Bit(32) + Bit(16) + Bit(8) + Bit(4) + Bit(2) + Bit(1)

Codes ==
  [NodeInformation           |-> 516, \* 0x0204
   NodeStatePositionChanged  |-> 529, \* 0x0211
   CommandSendRequest        |-> 768, \* 0x0300
   CommandSendConfirmation   |-> 769,
   CommandRunStatus          |-> 770,
   SessionFinished           |-> 772,
   StatusRequestRequest      |-> 773,
   StatusRequestNotification |-> 775,
   SetLimitationRequest      |-> 784, \* 0x0310
   SetLimitationConfirmation |-> 785,
   GetLimitationRequest      |-> 786,
   LimitationStatus          |-> 788]

Code(is) == Codes[is]

BuildFrame(command, payload) ==
  LET body == <<0, (3 + Len(payload)) % 256>> \o Two(command) \o payload
  IN  Append(body, CalcCRC(body))

\* ExtractFromFrame: what it refuses.
Sound(data) ==
  /\ Len(data) > 4
  /\ Len(data) = Word(data, 0) - 1 + 3
  /\ CalcCRC(Front(data)) = Last(data)

Extract(data) ==
  [command |-> Word(data, 2), payload |-> SubSeq(data, 5, Len(data) - 1)]

Zeros(n) == [i \in 1 .. n |-> 0]
NodeList(nodes) == <<Len(nodes)>> \o nodes \o Zeros(20 - Len(nodes))

-----------------------------------------------------------------------------
(* The frames of the client, marshalled.  A closure of CommandSend gives   *)
(* functional parameters as a function from their numbers, 1 to 3.         *)

Weight == <<128, 64, 32>>

FPI(fps) ==
  LET Bit(i) == IF i \in DOMAIN fps THEN Weight[i] ELSE 0
  IN  <<Bit(1) + Bit(2) + Bit(3), 0>>

MarshalCommandSend(f) ==
  LET FP(i) == Two(IF i \in DOMAIN f.fps THEN f.fps[i] ELSE 0)
  IN  Two(f.session) \o <<1, 3, 0>> \o FPI(f.fps) \o Two(f.parameter)
        \o FP(1) \o FP(2) \o FP(3) \o Zeros(26) \o NodeList(f.nodes) \o Zeros(4)

MarshalStatusRequest(f) ==
  Two(f.session) \o NodeList(f.nodes) \o <<1, 254, 0>>

MarshalSetLimitation(f) ==
  Two(f.session) \o <<1, 3>> \o NodeList(f.nodes) \o <<0>>
    \o Two(f.min) \o Two(f.max) \o <<f.time>>

MarshalGetLimitation(f) ==
  Two(f.session) \o NodeList(f.nodes) \o <<0, f.type>>

(* What the gateway reads in them.                                         *)

Nodes(p, i) == SubSeq(p, i + 2, i + 1 + At(p, i))

UnmarshalCommandSend(p) ==
  [is |-> "CommandSendRequest", session |-> Word(p, 0), nodes |-> Nodes(p, 41),
   parameter |-> Word(p, 7),
   fps |-> [i \in {j \in 1 .. 3 : (At(p, 5) \div Weight[j]) % 2 = 1} |-> Word(p, 7 + 2 * i)]]

UnmarshalStatusRequest(p) ==
  [is |-> "StatusRequestRequest", session |-> Word(p, 0), nodes |-> Nodes(p, 2)]

UnmarshalSetLimitation(p) ==
  [is |-> "SetLimitationRequest", session |-> Word(p, 0), nodes |-> Nodes(p, 4),
   min |-> Word(p, 26), max |-> Word(p, 28), time |-> At(p, 30)]

UnmarshalGetLimitation(p) ==
  [is |-> "GetLimitationRequest", session |-> Word(p, 0), nodes |-> Nodes(p, 2),
   type |-> At(p, 24)]

-----------------------------------------------------------------------------
(* The frames of the gateway, marshalled.                                  *)

Twos(numbers) == FlattenSeq([i \in DOMAIN numbers |-> Two(numbers[i])])

\* Fixed here: order, velocity, types, serial number and what follows them.
MarshalNodeInfo(f) ==
  <<f.node>> \o Zeros(3) \o f.name \o Zeros(64 - Len(f.name)) \o <<0>> \o Two(f.type)
    \o Zeros(13) \o <<f.state>> \o Two(f.current) \o Two(f.target) \o Twos(f.fps)
    \o Two(f.remaining) \o Four(f.timestamp) \o <<Len(f.aliases) \div 2>> \o Twos(f.aliases)
    \o Zeros(20 - 2 * Len(f.aliases))

MarshalPositionChanged(f) ==
  <<f.node, f.state>> \o Two(f.current) \o Two(f.target) \o Twos(f.fps)
    \o Two(f.remaining) \o Four(f.timestamp)

MarshalRunStatus(f) ==
  Two(f.session) \o <<f.status, 0, f.parameter>> \o Two(f.value) \o Zeros(6)

MarshalConfirmation(f) == Two(f.session) \o <<f.status>>
MarshalSessionFinished(f) == Two(f.session)

\* The parameters in "data" as pairs of a number and a value.
Entry(d) == <<d[1]>> \o Two(d[2])

MarshalStatus(f) ==
  Two(f.session) \o <<0, f.node, 0, 0, 1, Len(f.data)>>
    \o FlattenSeq([i \in DOMAIN f.data |-> Entry(f.data[i])])
    \o Zeros(51 - 3 * Len(f.data))

MarshalLimitationStatus(f) ==
  Two(f.session) \o <<f.node, 0>> \o Two(f.min) \o Two(f.max) \o <<1, f.time>>

(* What the client reads in them.                                          *)

Parameters(p, i, n) == [k \in 1 .. n |-> Parameter(p, i + 2 * (k - 1))]

\* aliasArrayFromBytes: up to five, each of two words.
Aliases(p) == [k \in 1 .. 2 * At(p, 103) |-> Word(p, 102 + 2 * k)]

\* A text of bytes ends before the first zero.
Text(bytes) ==
  LET nuls == {i \in DOMAIN bytes : bytes[i] = 0}
  IN  IF nuls = {} THEN bytes ELSE SubSeq(bytes, 1, Min(nuls) - 1)

UnmarshalNodeInfo(p) ==
  [is |-> "NodeInformation", node |-> At(p, 0), name |-> Text(SubSeq(p, 5, 68)),
   type |-> Word(p, 69), state |-> At(p, 84),
   current |-> Parameter(p, 85), target |-> Parameter(p, 87), fps |-> Parameters(p, 89, 4),
   remaining |-> Word(p, 97), timestamp |-> Long(p, 99), aliases |-> Aliases(p)]

UnmarshalPositionChanged(p) ==
  [is |-> "NodeStatePositionChanged", node |-> At(p, 0), state |-> At(p, 1),
   current |-> Parameter(p, 2), target |-> Parameter(p, 4), fps |-> Parameters(p, 6, 4),
   remaining |-> Word(p, 14), timestamp |-> Long(p, 16)]

UnmarshalRunStatus(p) ==
  [is |-> "CommandRunStatus", session |-> Word(p, 0), status |-> At(p, 2),
   parameter |-> At(p, 4), value |-> Word(p, 5)]

\* Of CommandSend and of SetLimitation.
UnmarshalConfirmation(is, p) ==
  [is |-> is, session |-> Word(p, 0), status |-> At(p, 2)]

UnmarshalSessionFinished(p) == [is |-> "SessionFinished", session |-> Word(p, 0)]

\* ParameterData: here the pairs in their order, in the source a map.
UnmarshalStatus(p) ==
  [is |-> "StatusRequestNotification", session |-> Word(p, 0), node |-> At(p, 3),
   data |-> [k \in 1 .. At(p, 7) |-> <<At(p, 5 + 3 * k), Parameter(p, 6 + 3 * k)>>]]

UnmarshalLimitationStatus(p) ==
  [is |-> "LimitationStatus", session |-> Word(p, 0), node |-> At(p, 2),
   min |-> Word(p, 4), max |-> Word(p, 6), time |-> At(p, 9)]

-----------------------------------------------------------------------------
(* Every type together.                                                    *)

MarshalPayload(f) ==
  CASE f.is = "NodeInformation"           -> MarshalNodeInfo(f)
    [] f.is = "NodeStatePositionChanged"  -> MarshalPositionChanged(f)
    [] f.is = "CommandSendRequest"        -> MarshalCommandSend(f)
    [] f.is = "CommandRunStatus"          -> MarshalRunStatus(f)
    [] f.is = "SessionFinished"           -> MarshalSessionFinished(f)
    [] f.is = "StatusRequestRequest"      -> MarshalStatusRequest(f)
    [] f.is = "StatusRequestNotification" -> MarshalStatus(f)
    [] f.is = "SetLimitationRequest"      -> MarshalSetLimitation(f)
    [] f.is = "GetLimitationRequest"      -> MarshalGetLimitation(f)
    [] f.is = "LimitationStatus"          -> MarshalLimitationStatus(f)
    [] OTHER                              -> MarshalConfirmation(f)

MarshalFrame(f) == BuildFrame(Code(f.is), MarshalPayload(f))

(* The frame in a payload, as a sequence of one; of none, where the code   *)
(* has an error or, for an unknown command, no frame.                      *)
Unmarshal(command, p) ==
  LET Of(is, len) == command = Code(is) /\ Len(p) = len
  IN  CASE Of("NodeInformation", 124) /\ At(p, 103) <= 5 -> <<UnmarshalNodeInfo(p)>>
        [] Of("NodeStatePositionChanged", 20)  -> <<UnmarshalPositionChanged(p)>>
        [] Of("CommandSendConfirmation", 3)    ->
             <<UnmarshalConfirmation("CommandSendConfirmation", p)>>
        [] Of("SetLimitationConfirmation", 3)  ->
             <<UnmarshalConfirmation("SetLimitationConfirmation", p)>>
        [] Of("CommandRunStatus", 13)          -> <<UnmarshalRunStatus(p)>>
        [] Of("SessionFinished", 2)            -> <<UnmarshalSessionFinished(p)>>
        [] Of("LimitationStatus", 10)          -> <<UnmarshalLimitationStatus(p)>>
        [] /\ command = Code("StatusRequestNotification") /\ Len(p) >= 8
           /\ Len(p) >= 8 + 3 * At(p, 7)       -> <<UnmarshalStatus(p)>>
        [] OTHER                               -> <<>>

FrameFromRaw(raw) ==
  IF Sound(raw) THEN Unmarshal(Extract(raw).command, Extract(raw).payload) ELSE <<>>
=============================================================================
