----------------------------- MODULE Wire_proofs -----------------------------
(***************************************************************************)
(* The properties of Wire, for all traffic and all sizes of a read.        *)
(*                                                                         *)
(* The reader: what is said falls in two parts, the messages that were     *)
(* taken out of the stream and those whose bytes are in the buffer and on  *)
(* the way (Split, StreamInv).  The next packet is the first of the second *)
(* part (NextMessage), and it becomes the frame that was meant             *)
(* (MessagePacket).  The writers: one packet for each request              *)
(* (UnpackAppend), which is read as it was asked (RequestsServed).         *)
(***************************************************************************)
EXTENDS Wire, Frames_proofs

-----------------------------------------------------------------------------
(* What the client reads of an answer.                                     *)

(* A value that is no position and says nothing is read as unknown.        *)
LEMMA PlainIsParameter == \A v \in Number : NewParameter(v) = Plain(v)
<1> TAKE v \in Number
<1>1. v \in Int /\ 0 <= v /\ MAX \in Int /\ 0 <= MAX
  BY SMT, InNumber DEF MAX
<1>2. v \in 0 .. MAX <=> ~(v > MAX)
  BY <1>1
<1> QED BY <1>2 DEF NewParameter, Plain

(* The functional parameters of a report.                                  *)
LEMMA FourParameters ==
  ASSUME NEW p, NEW i, NEW F \in [1 .. 4 -> Number],
         \A k \in 1 .. 4 : Word(p, i + 2 * (k - 1)) = F[k]
  PROVE  Parameters(p, i, 4) = [k \in 1 .. 4 |-> Plain(F[k])]
<1>1. \A k \in 1 .. 4 : Parameter(p, i + 2 * (k - 1)) = Plain(F[k])
  BY PlainIsParameter DEF Parameter
<1> QED BY <1>1 DEF Parameters

(* The client reads a report as it was meant.                              *)
LEMMA PositionChangedBack ==
  ASSUME NEW f \in [is : {"NodeStatePositionChanged"}, node : Byte, state : Byte,
                    current : Number, target : Number, fps : [1 .. 4 -> Number],
                    remaining : Number, timestamp : Nat],
         f.timestamp \div Wrap \in Number
  PROVE  /\ Sized(MarshalPositionChanged(f), 20)
         /\ UnmarshalPositionChanged(MarshalPositionChanged(f)) = Meaning(f)
<1> DEFINE p == MarshalPositionChanged(f)
<1>1. /\ Sized(p, 20)
      /\ At(p, 0) = f.node /\ At(p, 1) = f.state
      /\ Word(p, 2) = f.current /\ Word(p, 4) = f.target
      /\ \A k \in 1 .. 4 : Word(p, 6 + 2 * (k - 1)) = f.fps[k]
      /\ Word(p, 14) = f.remaining /\ Long(p, 16) = f.timestamp
  BY PositionChangedLayout
<1> HIDE DEF p
<1>2. Parameters(p, 6, 4) = [k \in 1 .. 4 |-> Plain(f.fps[k])]
  BY <1>1, FourParameters
<1>3. Parameter(p, 2) = Plain(f.current) /\ Parameter(p, 4) = Plain(f.target)
  BY <1>1, PlainIsParameter DEF Parameter
<1>4. Meaning(f) =
        [is |-> "NodeStatePositionChanged", node |-> f.node, state |-> f.state,
         current |-> Plain(f.current), target |-> Plain(f.target),
         fps |-> [k \in 1 .. 4 |-> Plain(f.fps[k])],
         remaining |-> f.remaining, timestamp |-> f.timestamp]
  BY SMTT(30) DEF Meaning, Means
<1>5. UnmarshalPositionChanged(p) = Meaning(f)
  BY <1>1, <1>2, <1>3, <1>4 DEF UnmarshalPositionChanged
<1> QED BY <1>1, <1>5 DEF p

(* And a confirmation.                                                     *)
LEMMA ConfirmationBack ==
  ASSUME NEW is \in {"CommandSendConfirmation", "SetLimitationConfirmation"},
         NEW f \in [is : {is}, session : Number, status : Byte]
  PROVE  /\ Sized(MarshalConfirmation(f), 3)
         /\ UnmarshalConfirmation(is, MarshalConfirmation(f)) = Meaning(f)
<1> DEFINE p == MarshalConfirmation(f)
<1>1. Sized(p, 3) /\ Word(p, 0) = f.session /\ At(p, 2) = f.status
  BY ConfirmationLayout
<1> HIDE DEF p
<1>2. Meaning(f) = [is |-> is, session |-> f.session, status |-> f.status]
  BY SMTT(30) DEF Meaning, Means
<1>3. UnmarshalConfirmation(is, p) = Meaning(f)
  BY <1>1, <1>2 DEF UnmarshalConfirmation
<1> QED BY <1>1, <1>3 DEF p

(* And the end of a session.                                               *)
LEMMA SessionFinishedBack ==
  ASSUME NEW f \in [is : {"SessionFinished"}, session : Number]
  PROVE  /\ Sized(MarshalSessionFinished(f), 2)
         /\ UnmarshalSessionFinished(MarshalSessionFinished(f)) = Meaning(f)
<1> DEFINE p == MarshalSessionFinished(f)
<1>1. Sized(p, 2) /\ Word(p, 0) = f.session
  BY SessionFinishedLayout
<1> HIDE DEF p
<1>2. Meaning(f) = [is |-> "SessionFinished", session |-> f.session]
  BY SMTT(30) DEF Meaning, Means
<1>3. UnmarshalSessionFinished(p) = Meaning(f)
  BY <1>1, <1>2 DEF UnmarshalSessionFinished
<1> QED BY <1>1, <1>3 DEF p

(* And a run status.                                                       *)
LEMMA RunStatusBack ==
  ASSUME NEW f \in [is : {"CommandRunStatus"}, session : Number, status : Byte,
                    parameter : Byte, value : Number]
  PROVE  /\ Sized(MarshalRunStatus(f), 13)
         /\ UnmarshalRunStatus(MarshalRunStatus(f)) = Meaning(f)
<1> DEFINE p == MarshalRunStatus(f)
<1>1. /\ Sized(p, 13)
      /\ Word(p, 0) = f.session /\ At(p, 2) = f.status /\ At(p, 4) = f.parameter
      /\ Word(p, 5) = f.value
  BY RunStatusLayout
<1> HIDE DEF p
<1>2. Meaning(f) = [is |-> "CommandRunStatus", session |-> f.session, status |-> f.status,
                    parameter |-> f.parameter, value |-> f.value]
  BY SMTT(30) DEF Meaning, Means
<1>3. UnmarshalRunStatus(p) = Meaning(f)
  BY <1>1, <1>2 DEF UnmarshalRunStatus
<1> QED BY <1>1, <1>3 DEF p

(* And a limitation.                                                       *)
LEMMA LimitationStatusBack ==
  ASSUME NEW f \in [is : {"LimitationStatus"}, session : Number, node : Byte, min : Number,
                    max : Number, time : Byte]
  PROVE  /\ Sized(MarshalLimitationStatus(f), 10)
         /\ UnmarshalLimitationStatus(MarshalLimitationStatus(f)) = Meaning(f)
<1> DEFINE p == MarshalLimitationStatus(f)
<1>1. /\ Sized(p, 10)
      /\ Word(p, 0) = f.session /\ At(p, 2) = f.node
      /\ Word(p, 4) = f.min /\ Word(p, 6) = f.max /\ At(p, 9) = f.time
  BY LimitationStatusLayout
<1> HIDE DEF p
<1>2. Meaning(f) = [is |-> "LimitationStatus", session |-> f.session, node |-> f.node,
                    min |-> f.min, max |-> f.max, time |-> f.time]
  BY SMTT(30) DEF Meaning, Means
<1>3. UnmarshalLimitationStatus(p) = Meaning(f)
  BY <1>1, <1>2 DEF UnmarshalLimitationStatus
<1> QED BY <1>1, <1>3 DEF p

(* The meaning of a field by its name.                                     *)
LEMMA Meant ==
  /\ \A v : Means("current", v) = Plain(v) /\ Means("target", v) = Plain(v)
  /\ \A v : Means("fps", v) = [i \in 1 .. 4 |-> Plain(v[i])]
  /\ \A v : Means("data", v) = [i \in DOMAIN v |-> <<v[i][1], Plain(v[i][2])>>]
  /\ \A field \in {"is", "node", "name", "type", "state", "remaining", "timestamp", "aliases",
                   "session", "status", "parameter", "value", "min", "max", "time"} :
       \A v : Means(field, v) = v
BY DEF Means

(* And a status, with all of its parameters.                               *)
LEMMA StatusBack ==
  ASSUME NEW f \in [is : {"StatusRequestNotification"}, session : Number, node : Byte,
                    data : Seq(Byte \X Number)],
         Len(f.data) <= 17
  PROVE  /\ Sized(MarshalStatus(f), 59) /\ At(MarshalStatus(f), 7) = Len(f.data)
         /\ UnmarshalStatus(MarshalStatus(f)) = Meaning(f)
<1> DEFINE p == MarshalStatus(f)
           s == f.data
           n == Len(s)
<1>1. /\ Sized(p, 59)
      /\ Word(p, 0) = f.session /\ At(p, 3) = f.node /\ At(p, 7) = n
      /\ \A k \in 1 .. n :
           At(p, 8 + 3 * (k - 1)) = s[k][1] /\ Word(p, 8 + 3 * (k - 1) + 1) = s[k][2]
  BY StatusLayout
<1>2. n \in Nat /\ DOMAIN s = 1 .. n /\ \A k \in 1 .. n : s[k][2] \in Number
  OBVIOUS
<1>3. Meaning(f) = [is |-> "StatusRequestNotification", session |-> f.session, node |-> f.node,
                    data |-> [k \in DOMAIN s |-> <<s[k][1], Plain(s[k][2])>>]]
  <2> DEFINE v == [k \in DOMAIN s |-> <<s[k][1], Plain(s[k][2])>>]
  <2>1. Means("data", s) = v
    BY Zenon DEF Means
  <2> HIDE DEF v
  <2>2. /\ Means("is", f.is) = f.is /\ Means("session", f.session) = f.session
        /\ Means("node", f.node) = f.node
    BY Meant, Zenon
  <2>3. Meaning(f) = [is |-> "StatusRequestNotification", session |-> f.session,
                      node |-> f.node, data |-> v]
    BY <2>1, <2>2, SMTT(30) DEF Meaning
  <2> QED BY <2>3 DEF v
<1> HIDE DEF p, s, n
<1>4. ASSUME NEW k \in 1 .. n
      PROVE  At(p, 5 + 3 * k) = s[k][1] /\ Parameter(p, 6 + 3 * k) = Plain(s[k][2])
  <2>1. 8 + 3 * (k - 1) = 5 + 3 * k /\ 8 + 3 * (k - 1) + 1 = 6 + 3 * k
    BY <1>2
  <2>2. At(p, 5 + 3 * k) = s[k][1] /\ Word(p, 6 + 3 * k) = s[k][2]
    BY <1>1, <2>1
  <2>3. s[k][2] \in Number
    BY <1>2
  <2> QED BY <2>2, <2>3, PlainIsParameter DEF Parameter
<1>5. [k \in 1 .. At(p, 7) |-> <<At(p, 5 + 3 * k), Parameter(p, 6 + 3 * k)>>]
        = [k \in DOMAIN s |-> <<s[k][1], Plain(s[k][2])>>]
  BY <1>1, <1>2, <1>4
<1>6. UnmarshalStatus(p) = Meaning(f)
  BY <1>1, <1>3, <1>5 DEF UnmarshalStatus
<1> QED BY <1>1, <1>6 DEF p, n, s

(* What stands before the first zero.                                      *)
LEMMA FirstZero ==
  ASSUME NEW r \in Seq(Byte), NEW name \in Seq(Byte), NEW n \in Nat, n = Len(name),
         n < Len(r), \A i \in 1 .. n : r[i] = name[i] /\ r[i] # 0, r[n + 1] = 0
  PROVE  Text(r) = name
<1> DEFINE u == SubSeq(r, 1, n)
           nuls == {i \in DOMAIN r : r[i] = 0}
<1>1. n + 1 \in nuls /\ \A y \in nuls : y \in Nat /\ n + 1 <= y
  OBVIOUS
<1> HIDE DEF nuls
<1>2. Min(nuls) \in nuls /\ \A y \in nuls : Min(nuls) <= y
  BY <1>1, Zenon DEF Min
<1>3. Min(nuls) - 1 = n
  BY <1>1, <1>2
<1>4. 0 \in Nat /\ 0 + n <= Len(r) /\ 0 + 1 = 1 /\ 0 + n = n
  OBVIOUS
<1>5. u \in Seq(Byte) /\ Len(u) = n /\ \A i \in 1 .. n : u[i] = r[0 + i]
  <2>1. /\ SubSeq(r, 0 + 1, 0 + n) \in Seq(Byte) /\ Len(SubSeq(r, 0 + 1, 0 + n)) = n
        /\ \A i \in 1 .. n : SubSeq(r, 0 + 1, 0 + n)[i] = r[0 + i]
    BY <1>4, Cut
  <2> QED BY <1>4, <2>1
<1> HIDE DEF u
<1>6. \A i \in 1 .. n : u[i] = name[i]
  <2> TAKE i \in 1 .. n
  <2>1. 0 + i = i
    OBVIOUS
  <2> QED BY <1>5, <2>1
<1>7. u = name
  BY <1>5, <1>6, SeqEqual
<1> QED BY <1>1, <1>3, <1>7 DEF u, nuls, Text

(* A name that has no zero is what stands before the first one.            *)
NameStands(p, name) ==
  /\ p \in Seq(Byte) /\ Len(p) = 124 /\ name \in Seq(Byte \ {0}) /\ Len(name) <= 64
  /\ Stands(p, 4, name) /\ Stands(p, 4 + Len(name), Zeros(64 - Len(name)))

(* The name of a node is read without the zeros behind it.                 *)
LEMMA NameBack ==
  ASSUME NEW p, NEW name, NameStands(p, name)
  PROVE  Text(SubSeq(p, 5, 68)) = name
<1> DEFINE n == Len(name)
           r == SubSeq(p, 5, 68)
<1>0. n \in Nat /\ n <= 64
  BY DEF NameStands
<1>1. name \in Seq(Byte)
  BY DEF NameStands
<1>11. \A i \in 1 .. n : name[i] # 0
  BY DEF NameStands
<1>2. r \in Seq(Byte) /\ Len(r) = 64 /\ \A i \in 1 .. 64 : r[i] = p[4 + i]
  <2> DEFINE m == 4
             k == 64
  <2>1. m + 1 = 5 /\ m + k = 68 /\ k = 64 /\ m = 4
    OBVIOUS
  <2>6. m \in Nat /\ k \in Nat
    OBVIOUS
  <2>2. Len(p) = 124
    BY DEF NameStands
  <2>3. p \in Seq(Byte)
    BY DEF NameStands
  <2> HIDE DEF m, k
  <2>4. m + k <= Len(p)
    BY <2>1, <2>2
  <2>5. /\ SubSeq(p, m + 1, m + k) \in Seq(Byte) /\ Len(SubSeq(p, m + 1, m + k)) = k
        /\ \A i \in 1 .. k : SubSeq(p, m + 1, m + k)[i] = p[m + i]
    BY <2>3, <2>4, <2>6, Cut, Zenon
  <2> QED BY <2>1, <2>5
<1> HIDE DEF r
<1>3. DOMAIN r = 1 .. 64
  BY <1>2
<1>4. \A i \in 1 .. n : p[4 + i] = name[i]
  BY DEF NameStands, Stands
<1>5. \A i \in 1 .. 64 - n : p[4 + n + i] = 0
  <2> DEFINE z == Zeros(64 - n)
  <2>1. 64 - n \in Nat
    BY <1>0
  <2>2. Len(z) = 64 - n /\ \A i \in 1 .. 64 - n : z[i] = 0
    BY <2>1, ZerosParts DEF Zeros
  <2>3. \A i \in 1 .. Len(z) : p[4 + n + i] = z[i]
    BY Zenon DEF NameStands, Stands
  <2> QED BY <2>2, <2>3
<1> HIDE DEF n
<1>6. \A i \in 1 .. n : r[i] = name[i] /\ r[i] # 0
  <2> TAKE i \in 1 .. n
  <2>1. i \in 1 .. 64
    BY <1>0
  <2>2. \A j \in 1 .. 64 : r[j] = p[4 + j]
    BY <1>2
  <2>3. r[i] = p[4 + i]
    BY <2>1, <2>2
  <2>4. p[4 + i] = name[i] /\ name[i] # 0
    BY <1>4, <1>11
  <2> QED BY <2>3, <2>4
<1>7. CASE n = 64
  <2>1. {i \in DOMAIN r : r[i] = 0} = {}
    BY <1>3, <1>6, <1>7
  <2>2. Len(name) = Len(r) /\ \A i \in 1 .. Len(r) : r[i] = name[i]
    BY <1>2, <1>6, <1>7 DEF n
  <2>3. r = name
    BY <1>1, <1>2, <2>2, SeqEqual
  <2> QED BY <2>1, <2>3 DEF Text, r
<1>8. CASE n < 64
  <2>1. r[n + 1] = 0
    <3>1. 1 \in 1 .. 64 - n /\ 4 + n + 1 = 4 + (n + 1) /\ n + 1 \in 1 .. 64
      BY <1>0, <1>8
    <3>2. p[4 + n + 1] = 0
      BY <1>5, <3>1
    <3> QED BY <1>2, <3>1, <3>2
  <2>2. n < Len(r) /\ n = Len(name)
    BY <1>2, <1>8 DEF n
  <2>3. Text(r) = name
    BY <1>0, <1>1, <1>2, <1>6, <2>1, <2>2, FirstZero, Zenon
  <2> QED BY <2>3 DEF r
<1> QED BY <1>0, <1>7, <1>8

(* What is read in the payload of a list entry.                            *)
LEMMA NodeInfoRead ==
  ASSUME NEW f, IsNodeInfo(f), NEW p, p = MarshalNodeInfo(f)
  PROVE  /\ Sized(p, 124) /\ At(p, 103) <= 5
         /\ UnmarshalNodeInfo(p) =
              [is |-> "NodeInformation", node |-> f.node, name |-> f.name, type |-> f.type,
               state |-> f.state, current |-> Plain(f.current), target |-> Plain(f.target),
               fps |-> [k \in 1 .. 4 |-> Plain(f.fps[k])],
               remaining |-> f.remaining, timestamp |-> f.timestamp, aliases |-> f.aliases]
<1> DEFINE n == Len(f.aliases)
           s == f.aliases
           F == f.fps
<1>0. Sized(p, 124) /\ At(p, 103) = n \div 2
  BY NodeInfoLayout, Zenon
<1>1. /\ At(p, 0) = f.node /\ Word(p, 69) = f.type /\ At(p, 84) = f.state
      /\ Word(p, 85) = f.current /\ Word(p, 87) = f.target
      /\ Word(p, 97) = f.remaining /\ Long(p, 99) = f.timestamp
  <2>1. At(p, 0) = f.node /\ Word(p, 69) = f.type
    BY NodeInfoLayout, Zenon
  <2>2. At(p, 84) = f.state
    BY NodeInfoLayout, Zenon
  <2>3. Word(p, 85) = f.current /\ Word(p, 87) = f.target
    BY NodeInfoLayout, Zenon
  <2>4. Word(p, 97) = f.remaining /\ Long(p, 99) = f.timestamp
    BY NodeInfoLayout, Zenon
  <2> QED BY <2>1, <2>2, <2>3, <2>4
<1>2. Stands(p, 4, f.name) /\ Stands(p, 4 + Len(f.name), Zeros(64 - Len(f.name)))
  BY NodeInfoLayout, Zenon
<1>3. \A k \in 1 .. 4 : Word(p, 89 + 2 * (k - 1)) = F[k]
  BY NodeInfoLayout, Zenon
<1>4. \A k \in 1 .. n : Word(p, 104 + 2 * (k - 1)) = s[k]
  BY NodeInfoLayout, Zenon
<1>5. n \in {0, 2, 4, 6, 8, 10}
  BY Zenon DEF IsNodeInfo
<1>6. s \in Seq(Number)
  BY Zenon DEF IsNodeInfo
<1>7. f.current \in Number /\ f.target \in Number
  BY Zenon DEF IsNodeInfo
<1>8. F \in [1 .. 4 -> Number]
  BY Zenon DEF IsNodeInfo
<1>9. f.name \in Seq(Byte \ {0}) /\ Len(f.name) <= 64
  BY Zenon DEF IsNodeInfo
<1>10. s = [k \in 1 .. n |-> s[k]]
  BY <1>6
<1> HIDE DEF n, s, F
<1>11. 2 * (n \div 2) = n /\ n \div 2 <= 5
  BY <1>5, AliasCount
<1>12. Aliases(p) = s
  <2>1. 2 * At(p, 103) = n
    BY <1>0, <1>11
  <2>2. ASSUME NEW k \in 1 .. n PROVE Word(p, 102 + 2 * k) = s[k]
    <3>1. 104 + 2 * (k - 1) = 102 + 2 * k
      BY <1>5
    <3> QED BY <1>4, <3>1
  <2>3. [k \in 1 .. n |-> Word(p, 102 + 2 * k)] = [k \in 1 .. n |-> s[k]]
    BY <2>2
  <2> QED BY <1>10, <2>1, <2>3 DEF Aliases
<1>13. Text(SubSeq(p, 5, 68)) = f.name
  <2>1. p \in Seq(Byte) /\ Len(p) = 124
    BY <1>0 DEF Sized
  <2>2. NameStands(p, f.name)
    BY <1>2, <1>9, <2>1, Zenon DEF NameStands
  <2> QED BY <2>2, NameBack
<1>14. Parameters(p, 89, 4) = [k \in 1 .. 4 |-> Plain(F[k])]
  BY <1>3, <1>8, FourParameters
<1>15. Parameter(p, 85) = Plain(f.current) /\ Parameter(p, 87) = Plain(f.target)
  BY <1>1, <1>7, PlainIsParameter DEF Parameter
<1> QED BY <1>0, <1>1, <1>11, <1>12, <1>13, <1>14, <1>15 DEF F, s, n, UnmarshalNodeInfo

(* And the node information.                                               *)
LEMMA NodeInfoBack ==
  ASSUME NEW f \in [is : {"NodeInformation"}, node : Byte, name : Seq(Byte \ {0}), type : Number,
                    state : Byte, current : Number, target : Number, fps : [1 .. 4 -> Number],
                    remaining : Number, timestamp : Nat, aliases : Seq(Number)],
         Len(f.name) <= 64, Len(f.aliases) \in {0, 2, 4, 6, 8, 10},
         f.timestamp \div Wrap \in Number
  PROVE  /\ Sized(MarshalNodeInfo(f), 124) /\ At(MarshalNodeInfo(f), 103) <= 5
         /\ UnmarshalNodeInfo(MarshalNodeInfo(f)) = Meaning(f)
<1>1. IsNodeInfo(f)
  BY DEF IsNodeInfo
<1>2. Meaning(f) =
        [is |-> "NodeInformation", node |-> f.node, name |-> f.name, type |-> f.type,
         state |-> f.state, current |-> Plain(f.current), target |-> Plain(f.target),
         fps |-> [k \in 1 .. 4 |-> Plain(f.fps[k])],
         remaining |-> f.remaining, timestamp |-> f.timestamp, aliases |-> f.aliases]
  BY SMTT(30) DEF Meaning, Means
<1> QED BY <1>1, <1>2, NodeInfoRead

(* The payload of an answer: its type reads it back, and refuses it when   *)
(* its last byte is missing.                                               *)
Carried(f, p) ==
  /\ p \in Seq(Byte) /\ Len(p) \in 1 .. 252 /\ Code(f.is) \in Number
  /\ MarshalPayload(f) = p
  /\ Unmarshal(Code(f.is), p) = <<Meaning(f)>>
  /\ f.is # "StatusRequestNotification" =>
       \A q : Len(q) = Len(p) - 1 => Unmarshal(Code(f.is), q) = <<>>

(* What is to be shown of an answer.                                       *)
LEMMA Carries ==
  ASSUME NEW f, NEW p, NEW n \in 2 .. 252, Sized(p, n), Code(f.is) \in Number,
         MarshalPayload(f) = p, Unmarshal(Code(f.is), p) = <<Meaning(f)>>,
         f.is # "StatusRequestNotification"
         => \A q : Len(q) # n => Unmarshal(Code(f.is), q) = <<>>
  PROVE  \E x : Carried(f, x)
<1>1. p \in Seq(Byte) /\ Len(p) = n /\ Len(p) \in 1 .. 252 /\ n - 1 # n
  BY DEF Sized
<1> QED BY <1>1, Zenon DEF Carried

(* A payload for the node information.                                     *)
LEMMA NodeInfoCarried ==
  ASSUME NEW f \in [is : {"NodeInformation"}, node : Byte, name : Seq(Byte \ {0}), type : Number,
                    state : Byte, current : Number, target : Number, fps : [1 .. 4 -> Number],
                    remaining : Number, timestamp : Nat, aliases : Seq(Number)],
         Len(f.name) <= 64, Len(f.aliases) \in {0, 2, 4, 6, 8, 10},
         f.timestamp \div Wrap \in Number
  PROVE  \E x : Carried(f, x)
<1> DEFINE p == MarshalNodeInfo(f)
           n == 124
<1>1. Sized(p, 124) /\ At(p, 103) <= 5 /\ UnmarshalNodeInfo(p) = Meaning(f)
  BY NodeInfoBack
<1>2. f.is = "NodeInformation"
  OBVIOUS
<1>3. MarshalPayload(f) = p
  BY <1>2, Zenon DEF MarshalPayload
<1> HIDE DEF p
<1>5. Len(p) = 124
  BY <1>1 DEF Sized
<1>6. Unmarshal(Code("NodeInformation"), p) = <<UnmarshalNodeInfo(p)>>
  BY <1>1, <1>5, Unmarshals, Zenon
<1>7. \A q : Len(q) # 124 => Unmarshal(Code("NodeInformation"), q) = <<>>
  BY Refuses, Zenon
<1>8. Code(f.is) \in Number
  BY <1>2, CodesAreNumbers
<1>9. n \in 2 .. 252 /\ Sized(p, n)
  BY <1>1
<1>10. Unmarshal(Code(f.is), p) = <<Meaning(f)>>
  BY <1>1, <1>2, <1>6
<1>11. f.is # "StatusRequestNotification" => \A q : Len(q) # n => Unmarshal(Code(f.is), q) = <<>>
  BY <1>2, <1>7
<1> HIDE DEF n
<1> QED BY <1>3, <1>8, <1>9, <1>10, <1>11, Carries, Zenon

(* For a report.                                                           *)
LEMMA PositionChangedCarried ==
  ASSUME NEW f \in [is : {"NodeStatePositionChanged"}, node : Byte, state : Byte,
                    current : Number, target : Number, fps : [1 .. 4 -> Number],
                    remaining : Number, timestamp : Nat],
         f.timestamp \div Wrap \in Number
  PROVE  \E x : Carried(f, x)
<1> DEFINE p == MarshalPositionChanged(f)
           n == 20
<1>1. Sized(p, 20) /\ UnmarshalPositionChanged(p) = Meaning(f)
  BY PositionChangedBack
<1>2. f.is = "NodeStatePositionChanged"
  OBVIOUS
<1>3. MarshalPayload(f) = p
  BY <1>2, Zenon DEF MarshalPayload
<1> HIDE DEF p
<1>5. Len(p) = 20
  BY <1>1 DEF Sized
<1>6. Unmarshal(Code("NodeStatePositionChanged"), p) = <<UnmarshalPositionChanged(p)>>
  BY <1>1, <1>5, Unmarshals, Zenon
<1>7. \A q : Len(q) # 20 => Unmarshal(Code("NodeStatePositionChanged"), q) = <<>>
  BY Refuses, Zenon
<1>8. Code(f.is) \in Number
  BY <1>2, CodesAreNumbers
<1>9. n \in 2 .. 252 /\ Sized(p, n)
  BY <1>1
<1>10. Unmarshal(Code(f.is), p) = <<Meaning(f)>>
  BY <1>1, <1>2, <1>6
<1>11. f.is # "StatusRequestNotification" => \A q : Len(q) # n => Unmarshal(Code(f.is), q) = <<>>
  BY <1>2, <1>7
<1> HIDE DEF n
<1> QED BY <1>3, <1>8, <1>9, <1>10, <1>11, Carries, Zenon

(* For a confirmation.                                                     *)
LEMMA ConfirmationCarried ==
  ASSUME NEW is \in {"CommandSendConfirmation", "SetLimitationConfirmation"},
         NEW f \in [is : {is}, session : Number, status : Byte]
  PROVE  \E x : Carried(f, x)
<1> DEFINE p == MarshalConfirmation(f)
           n == 3
<1>1. Sized(p, 3) /\ UnmarshalConfirmation(is, p) = Meaning(f)
  BY ConfirmationBack
<1>2. f.is = is
  OBVIOUS
<1>3. MarshalPayload(f) = p
  <2>1. CASE f.is = "CommandSendConfirmation"
    BY <2>1, Zenon DEF MarshalPayload
  <2>2. CASE f.is = "SetLimitationConfirmation"
    BY <2>2, Zenon DEF MarshalPayload
  <2> QED BY <1>2, <2>1, <2>2
<1> HIDE DEF p
<1>5. Len(p) = 3
  BY <1>1 DEF Sized
<1>6. Unmarshal(Code(is), p) = <<UnmarshalConfirmation(is, p)>>
  <2>1. /\ Unmarshal(Code("CommandSendConfirmation"), p)
             = <<UnmarshalConfirmation("CommandSendConfirmation", p)>>
        /\ Unmarshal(Code("SetLimitationConfirmation"), p)
             = <<UnmarshalConfirmation("SetLimitationConfirmation", p)>>
    BY <1>5, Unmarshals, Zenon
  <2> QED BY <2>1
<1>7. ASSUME NEW q, Len(q) # 3 PROVE Unmarshal(Code(is), q) = <<>>
  <2>1. /\ Unmarshal(Code("CommandSendConfirmation"), q) = <<>>
        /\ Unmarshal(Code("SetLimitationConfirmation"), q) = <<>>
    BY <1>7, Refuses, Zenon
  <2> QED BY <2>1
<1>8. Code(f.is) \in Number
  BY <1>2, CodesAreNumbers
<1>9. n \in 2 .. 252 /\ Sized(p, n)
  BY <1>1
<1>10. Unmarshal(Code(f.is), p) = <<Meaning(f)>>
  BY <1>1, <1>2, <1>6
<1>11. f.is # "StatusRequestNotification" => \A q : Len(q) # n => Unmarshal(Code(f.is), q) = <<>>
  BY <1>2, <1>7
<1> HIDE DEF n
<1> QED BY <1>3, <1>8, <1>9, <1>10, <1>11, Carries, Zenon

(* For a run status.                                                       *)
LEMMA RunStatusCarried ==
  ASSUME NEW f \in [is : {"CommandRunStatus"}, session : Number, status : Byte,
                    parameter : Byte, value : Number]
  PROVE  \E x : Carried(f, x)
<1> DEFINE p == MarshalRunStatus(f)
           n == 13
<1>1. Sized(p, 13) /\ UnmarshalRunStatus(p) = Meaning(f)
  BY RunStatusBack
<1>2. f.is = "CommandRunStatus"
  OBVIOUS
<1>3. MarshalPayload(f) = p
  BY <1>2, Zenon DEF MarshalPayload
<1> HIDE DEF p
<1>5. Len(p) = 13
  BY <1>1 DEF Sized
<1>6. Unmarshal(Code("CommandRunStatus"), p) = <<UnmarshalRunStatus(p)>>
  BY <1>1, <1>5, Unmarshals, Zenon
<1>7. \A q : Len(q) # 13 => Unmarshal(Code("CommandRunStatus"), q) = <<>>
  BY Refuses, Zenon
<1>8. Code(f.is) \in Number
  BY <1>2, CodesAreNumbers
<1>9. n \in 2 .. 252 /\ Sized(p, n)
  BY <1>1
<1>10. Unmarshal(Code(f.is), p) = <<Meaning(f)>>
  BY <1>1, <1>2, <1>6
<1>11. f.is # "StatusRequestNotification" => \A q : Len(q) # n => Unmarshal(Code(f.is), q) = <<>>
  BY <1>2, <1>7
<1> HIDE DEF n
<1> QED BY <1>3, <1>8, <1>9, <1>10, <1>11, Carries, Zenon

(* For the end of a session.                                               *)
LEMMA SessionFinishedCarried ==
  ASSUME NEW f \in [is : {"SessionFinished"}, session : Number]
  PROVE  \E x : Carried(f, x)
<1> DEFINE p == MarshalSessionFinished(f)
           n == 2
<1>1. Sized(p, 2) /\ UnmarshalSessionFinished(p) = Meaning(f)
  BY SessionFinishedBack
<1>2. f.is = "SessionFinished"
  OBVIOUS
<1>3. MarshalPayload(f) = p
  BY <1>2, Zenon DEF MarshalPayload
<1> HIDE DEF p
<1>5. Len(p) = 2
  BY <1>1 DEF Sized
<1>6. Unmarshal(Code("SessionFinished"), p) = <<UnmarshalSessionFinished(p)>>
  BY <1>1, <1>5, Unmarshals, Zenon
<1>7. \A q : Len(q) # 2 => Unmarshal(Code("SessionFinished"), q) = <<>>
  BY Refuses, Zenon
<1>8. Code(f.is) \in Number
  BY <1>2, CodesAreNumbers
<1>9. n \in 2 .. 252 /\ Sized(p, n)
  BY <1>1
<1>10. Unmarshal(Code(f.is), p) = <<Meaning(f)>>
  BY <1>1, <1>2, <1>6
<1>11. f.is # "StatusRequestNotification" => \A q : Len(q) # n => Unmarshal(Code(f.is), q) = <<>>
  BY <1>2, <1>7
<1> HIDE DEF n
<1> QED BY <1>3, <1>8, <1>9, <1>10, <1>11, Carries, Zenon

(* For a status.                                                           *)
LEMMA StatusCarried ==
  ASSUME NEW f \in [is : {"StatusRequestNotification"}, session : Number, node : Byte,
                    data : Seq(Byte \X Number)],
         Len(f.data) <= 17
  PROVE  \E x : Carried(f, x)
<1> DEFINE p == MarshalStatus(f)
           n == 59
<1>1. Sized(p, 59) /\ At(p, 7) = Len(f.data) /\ UnmarshalStatus(p) = Meaning(f)
  BY StatusBack
<1>2. f.is = "StatusRequestNotification"
  OBVIOUS
<1>3. MarshalPayload(f) = p
  BY <1>2, Zenon DEF MarshalPayload
<1>4. Len(f.data) \in Nat /\ Len(f.data) <= 17
  OBVIOUS
<1> HIDE DEF p
<1>5. Len(p) = 59 /\ Len(p) >= 8 /\ Len(p) >= 8 + 3 * At(p, 7)
  BY <1>1, <1>4 DEF Sized
<1>6. Unmarshal(Code("StatusRequestNotification"), p) = <<UnmarshalStatus(p)>>
  BY <1>1, <1>5, Unmarshals, Zenon
<1>8. Code(f.is) \in Number
  BY <1>2, CodesAreNumbers
<1>9. n \in 2 .. 252 /\ Sized(p, n)
  BY <1>1
<1>10. Unmarshal(Code(f.is), p) = <<Meaning(f)>>
  BY <1>1, <1>2, <1>6
<1>11. f.is # "StatusRequestNotification" => \A q : Len(q) # n => Unmarshal(Code(f.is), q) = <<>>
  BY <1>2
<1> HIDE DEF n
<1> QED BY <1>3, <1>8, <1>9, <1>10, <1>11, Carries, Zenon

(* For a limitation.                                                       *)
LEMMA LimitationStatusCarried ==
  ASSUME NEW f \in [is : {"LimitationStatus"}, session : Number, node : Byte, min : Number,
                    max : Number, time : Byte]
  PROVE  \E x : Carried(f, x)
<1> DEFINE p == MarshalLimitationStatus(f)
           n == 10
<1>1. Sized(p, 10) /\ UnmarshalLimitationStatus(p) = Meaning(f)
  BY LimitationStatusBack
<1>2. f.is = "LimitationStatus"
  OBVIOUS
<1>3. MarshalPayload(f) = p
  BY <1>2, Zenon DEF MarshalPayload
<1> HIDE DEF p
<1>5. Len(p) = 10
  BY <1>1 DEF Sized
<1>6. Unmarshal(Code("LimitationStatus"), p) = <<UnmarshalLimitationStatus(p)>>
  BY <1>1, <1>5, Unmarshals, Zenon
<1>7. \A q : Len(q) # 10 => Unmarshal(Code("LimitationStatus"), q) = <<>>
  BY Refuses, Zenon
<1>8. Code(f.is) \in Number
  BY <1>2, CodesAreNumbers
<1>9. n \in 2 .. 252 /\ Sized(p, n)
  BY <1>1
<1>10. Unmarshal(Code(f.is), p) = <<Meaning(f)>>
  BY <1>1, <1>2, <1>6
<1>11. f.is # "StatusRequestNotification" => \A q : Len(q) # n => Unmarshal(Code(f.is), q) = <<>>
  BY <1>2, <1>7
<1> HIDE DEF n
<1> QED BY <1>3, <1>8, <1>9, <1>10, <1>11, Carries, Zenon

(* Whatever the gateway answers has a payload that the client reads as it  *)
(* was meant, and refuses without its last byte.  (UnmarshalPayload of the *)
(* frames)                                                                 *)
THEOREM AnswersCarried == \A f \in Answer : \E x : Carried(f, x)
<1> SUFFICES ASSUME NEW f \in Answer PROVE \E x : Carried(f, x)
  OBVIOUS
<1>1. CASE f \in {g \in [is : {"NodeInformation"}, node : Byte, name : Seq(Byte \ {0}), type : Number,
          state : Byte, current : Number, target : Number, fps : [1 .. 4 -> Number],
          remaining : Number, timestamp : Nat, aliases : Seq(Number)] :
     /\ Len(g.name) <= 64
     /\ Len(g.aliases) \in {0, 2, 4, 6, 8, 10}
     /\ g.timestamp \div Wrap \in Number}
  BY <1>1, NodeInfoCarried, Zenon
<1>2. CASE f \in {g \in [is : {"NodeStatePositionChanged"}, node : Byte, state : Byte, current : Number,
               target : Number, fps : [1 .. 4 -> Number], remaining : Number, timestamp : Nat] :
          g.timestamp \div Wrap \in Number}
  BY <1>2, PositionChangedCarried, Zenon
<1>3. CASE f \in [is : {"CommandSendConfirmation", "SetLimitationConfirmation"}, session : Number,
        status : Byte]
  <2>1. f.is \in {"CommandSendConfirmation", "SetLimitationConfirmation"}
        /\ f \in [is : {f.is}, session : Number, status : Byte]
    BY <1>3
  <2> QED BY <2>1, ConfirmationCarried, Zenon
<1>4. CASE f \in [is : {"CommandRunStatus"}, session : Number, status : Byte, parameter : Byte,
        value : Number]
  BY <1>4, RunStatusCarried, Zenon
<1>5. CASE f \in [is : {"SessionFinished"}, session : Number]
  BY <1>5, SessionFinishedCarried, Zenon
<1>6. CASE f \in {g \in [is : {"StatusRequestNotification"}, session : Number, node : Byte,
               data : Seq(Byte \X Number)] : Len(g.data) <= 17}
  BY <1>6, StatusCarried, Zenon
<1>7. CASE f \in [is : {"LimitationStatus"}, session : Number, node : Byte, min : Number, max : Number,
        time : Byte]
  BY <1>7, LimitationStatusCarried, Zenon
<1> QED BY <1>1, <1>2, <1>3, <1>4, <1>5, <1>6, <1>7, Zenon DEF Answer

-----------------------------------------------------------------------------
(* Messages.                                                               *)

(* What of a message is dispatched.                                        *)
Dispatched(m) == IF m.fault = "none" THEN <<Meaning(m.frame)>> ELSE <<>>

(* The packet of a message.                                                *)
PacketOf(m, bytes, raw) ==
  /\ raw \in Seq(Byte) /\ bytes = RfcPack(raw)
  /\ raw = <<>> <=> m.fault = "blank"
  /\ FrameFromRaw(raw) = Dispatched(m)

(* An empty packet has no frame.                                           *)
LEMMA NothingIsNoFrame == FrameFromRaw(<<>>) = <<>>
<1>1. ~Sound(<<>>)
  BY DEF Sound
<1> QED BY <1>1 DEF FrameFromRaw

(* A type that is not known has none either.                               *)
LEMMA UnknownFrame ==
  LET raw == BuildFrame(557, <<7>>)
  IN  raw \in Seq(Byte) /\ raw # <<>> /\ FrameFromRaw(raw) = <<>>
<1> DEFINE c == 557
           p == <<7>>
           raw == BuildFrame(c, p)
<1>1. Unmarshal(c, p) = <<>>
  BY Refuses, Zenon
<1>2. c \in Number
  BY CodesAreNumbers
<1>3. p \in Seq(Byte) /\ Len(p) <= 252
  BY InByte
<1> HIDE DEF c, p
<1>4. raw \in Seq(Byte) /\ raw # <<>> /\ Extract(raw).command = c /\ Extract(raw).payload = p
  BY <1>2, <1>3, BuiltSound, Zenon
<1> HIDE DEF raw
<1>5. FrameFromRaw(raw) = <<>>
  BY <1>1, <1>4 DEF FrameFromRaw
<1> QED BY <1>4, <1>5 DEF raw, c, p

(* Whatever is said is one packet; its frame, or none, is what is          *)
(* dispatched of it, with each of the faults.  (FrameFromRaw)              *)
THEOREM MessagePacket == \A m \in Message : \E raw : PacketOf(m, Bytes(m), raw)
<1> SUFFICES ASSUME NEW m \in Message PROVE \E raw : PacketOf(m, Bytes(m), raw)
  OBVIOUS
<1> DEFINE f == m.frame
           c == Code(f.is)
           p == MarshalPayload(f)
           raw == BuildFrame(c, p)
           bad == Front(raw) \o <<(Last(raw) + 1) % 256>>
           short == BuildFrame(c, Front(p))
<1>1. f \in Answer /\ m.fault \in Faults
      /\ (m.fault = "short" => f.is # "StatusRequestNotification")
  BY DEF Message
<1>2. Carried(f, p)
  <2>1. PICK x : Carried(f, x)
    BY <1>1, AnswersCarried
  <2> QED BY <2>1 DEF Carried
<1>3. p \in Seq(Byte) /\ c \in Number /\ Unmarshal(c, p) = <<Meaning(f)>>
  BY <1>2, Zenon DEF Carried
<1>12. Len(p) \in 1 .. 252
  BY <1>2, Zenon DEF Carried
<1>13. p # <<>> /\ Len(p) <= 252 /\ Len(p) - 1 <= 252
  <2> HIDE DEF p
  <2>3. \A k \in 1 .. 252 : k <= 252 /\ k - 1 <= 252 /\ k # 0
    OBVIOUS
  <2>1. Len(p) <= 252 /\ Len(p) - 1 <= 252 /\ Len(p) # 0
    BY <1>12, <2>3, Zenon
  <2>2. p # <<>>
    BY <2>1
  <2> QED BY <2>1, <2>2
<1>4. f.is # "StatusRequestNotification" => \A q : Len(q) = Len(p) - 1 => Unmarshal(c, q) = <<>>
  BY <1>2, Zenon DEF Carried
<1>5. /\ Bytes(m) = CASE m.fault = "none"    -> RfcPack(raw)
                      [] m.fault = "crc"     -> RfcPack(bad)
                      [] m.fault = "short"   -> RfcPack(short)
                      [] m.fault = "unknown" -> RfcPack(BuildFrame(557, <<7>>))
                      [] m.fault = "blank"   -> <<END, END>>
  BY Zenon DEF Bytes
<1> HIDE DEF f, c, p
<1>6. /\ raw \in Seq(Byte) /\ raw # <<>> /\ Sound(raw)
      /\ Extract(raw).command = c /\ Extract(raw).payload = p
      /\ bad \in Seq(Byte) /\ bad # <<>> /\ ~Sound(bad)
  <2>1. /\ raw \in Seq(Byte) /\ raw # <<>> /\ Sound(raw)
        /\ Extract(raw).command = c /\ Extract(raw).payload = p
    BY <1>3, <1>13, BuiltSound, Zenon
  <2>2. bad \in Seq(Byte) /\ bad # <<>> /\ ~Sound(bad)
    BY <1>3, <1>13, DamagedUnsound, Zenon
  <2> QED BY <2>1, <2>2
<1> HIDE DEF raw, bad
<1>7. CASE m.fault = "none"
  <2>1. Bytes(m) = RfcPack(raw)
    BY <1>5, <1>7, Zenon
  <2>2. FrameFromRaw(raw) = Dispatched(m)
    BY <1>3, <1>6, <1>7 DEF FrameFromRaw, Dispatched, f
  <2>3. m.fault # "blank"
    BY <1>7
  <2> QED BY <1>6, <2>1, <2>2, <2>3 DEF PacketOf
<1>8. CASE m.fault = "crc"
  <2>1. Bytes(m) = RfcPack(bad)
    BY <1>5, <1>8, Zenon
  <2>2. FrameFromRaw(bad) = Dispatched(m)
    BY <1>6, <1>8 DEF FrameFromRaw, Dispatched
  <2>3. m.fault # "blank"
    BY <1>8
  <2> QED BY <1>6, <2>1, <2>2, <2>3 DEF PacketOf
<1>9. CASE m.fault = "short"
  <2> DEFINE q == Front(p)
  <2>1. Bytes(m) = RfcPack(short)
    BY <1>5, <1>9, Zenon
  <2>2. q \in Seq(Byte) /\ Len(q) = Len(p) - 1
    BY <1>3, <1>13 DEF Front
  <2>3. Unmarshal(c, q) = <<>>
    BY <1>1, <1>4, <1>9, <2>2
  <2>4. Len(q) <= 252
    BY <1>13, <2>2
  <2> HIDE DEF q
  <2>5. /\ short \in Seq(Byte) /\ short # <<>>
        /\ Extract(short).command = c /\ Extract(short).payload = q
    BY <1>3, <2>2, <2>4, BuiltSound, Zenon DEF q
  <2> HIDE DEF short
  <2>6. FrameFromRaw(short) = Dispatched(m)
    BY <1>9, <2>3, <2>5 DEF FrameFromRaw, Dispatched
  <2>7. m.fault # "blank"
    BY <1>9
  <2> QED BY <2>1, <2>5, <2>6, <2>7 DEF PacketOf
<1>10. CASE m.fault = "unknown"
  <2> DEFINE r == BuildFrame(557, <<7>>)
  <2>1. Bytes(m) = RfcPack(r)
    BY <1>5, <1>10, Zenon
  <2>2. r \in Seq(Byte) /\ r # <<>> /\ FrameFromRaw(r) = <<>>
    BY UnknownFrame
  <2> HIDE DEF r
  <2>3. FrameFromRaw(r) = Dispatched(m)
    BY <1>10, <2>2 DEF Dispatched
  <2>4. m.fault # "blank"
    BY <1>10
  <2> QED BY <2>1, <2>2, <2>3, <2>4 DEF PacketOf
<1>11. CASE m.fault = "blank"
  <2>1. Bytes(m) = <<END, END>>
    BY <1>5, <1>11, Zenon
  <2>2. RfcPack(<<>>) = <<END, END>>
    <3>1. FlattenSeq([i \in DOMAIN <<>> |-> Stuffed(<<>>[i])]) = <<>>
      BY NothingStuffed DEF Stuffing
    <3>2. RfcPack(<<>>) = <<END>> \o <<>> \o <<END>>
      BY <3>1, Zenon DEF RfcPack
    <3>3. END \in Byte
      BY DEF END, Byte
    <3>4. \A x \in Byte : <<x>> \o <<>> = <<x>>
      OBVIOUS
    <3>5. \A x \in Byte : <<x>> \o <<x>> = <<x, x>>
      <4> TAKE x \in Byte
      <4> DEFINE u == <<x>> \o <<x>>
                 v == <<x, x>>
      <4>1. u \in Seq(Byte) /\ Len(u) = 2 /\ u[1] = x /\ u[2] = x
        OBVIOUS
      <4>2. v \in Seq(Byte) /\ Len(v) = 2 /\ v[1] = x /\ v[2] = x
        OBVIOUS
      <4> HIDE DEF u, v
      <4>3. \A i \in 1 .. 2 : u[i] = v[i]
        BY <4>1, <4>2
      <4>4. u = v
        BY <4>1, <4>2, <4>3, SeqEqual
      <4> QED BY <4>4 DEF u, v
    <3> QED BY <3>2, <3>3, <3>4, <3>5, Zenon
  <2>3. FrameFromRaw(<<>>) = Dispatched(m)
    BY <1>11, NothingIsNoFrame DEF Dispatched
  <2>4. <<>> \in Seq(Byte)
    OBVIOUS
  <2> QED BY <1>11, <2>1, <2>2, <2>3, <2>4 DEF PacketOf
<1> QED BY <1>1, <1>7, <1>8, <1>9, <1>10, <1>11, Zenon DEF Faults

(* What functions make of the elements, one after the other.               *)
LEMMA PiecesConcat ==
  ASSUME NEW S, NEW T, NEW g \in [S -> Seq(T)], NEW u \in Seq(S), NEW v \in Seq(S)
  PROVE  Pieces(g, u \o v) = Pieces(g, u) \o Pieces(g, v)
<1> DEFINE w == u \o v
           F == [i \in DOMAIN u |-> g[u[i]]]
           G == [i \in DOMAIN v |-> g[v[i]]]
           H == [i \in DOMAIN w |-> g[w[i]]]
           m == Len(u)
           n == Len(v)
<1>1. /\ m \in Nat /\ n \in Nat /\ w \in Seq(S) /\ Len(w) = m + n
      /\ DOMAIN u = 1 .. m /\ DOMAIN v = 1 .. n /\ DOMAIN w = 1 .. m + n
      /\ \A i \in 1 .. m : w[i] = u[i]
      /\ \A i \in 1 .. n : w[m + i] = v[i]
  OBVIOUS
<1>2. F \in Seq(Seq(T)) /\ Len(F) = m
  <2>1. F \in [1 .. m -> Seq(T)]
    BY <1>1
  <2> QED BY <1>1, <2>1, FunctionIsSeq
<1>3. G \in Seq(Seq(T)) /\ Len(G) = n
  <2>1. G \in [1 .. n -> Seq(T)]
    BY <1>1
  <2> QED BY <1>1, <2>1, FunctionIsSeq
<1>4. H \in Seq(Seq(T)) /\ Len(H) = m + n
  <2>1. \A i \in 1 .. m + n : w[i] \in S
    BY <1>1
  <2>2. H \in [1 .. m + n -> Seq(T)]
    BY <1>1, <2>1
  <2>3. m + n \in Nat
    BY <1>1
  <2> QED BY <2>2, <2>3, FunctionIsSeq
<1>5. \A i \in 1 .. m : F[i] = H[i]
  BY <1>1
<1>6. \A i \in 1 .. n : G[i] = H[m + i]
  BY <1>1
<1>7. Pieces(g, u) = FlattenSeq(F) /\ Pieces(g, v) = FlattenSeq(G) /\ Pieces(g, w) = FlattenSeq(H)
  BY DEF Pieces
<1> HIDE DEF F, G, H, m, n, w
<1>8. H = F \o G
  <2> DEFINE K == F \o G
  <2>1. /\ K \in Seq(Seq(T)) /\ Len(K) = m + n
        /\ \A i \in 1 .. m : K[i] = F[i]
        /\ \A i \in 1 .. n : K[m + i] = G[i]
    <3>1. F \in Seq(Seq(T)) /\ G \in Seq(Seq(T)) /\ Len(F) = m /\ Len(G) = n
      BY <1>2, <1>3
    <3> DEFINE U == Seq(T)
    <3>3. F \in Seq(U) /\ G \in Seq(U)
      BY <3>1
    <3> HIDE DEF U
    <3>4. /\ F \o G \in Seq(U) /\ Len(F \o G) = Len(F) + Len(G)
          /\ \A i \in 1 .. Len(F) : (F \o G)[i] = F[i]
          /\ \A i \in 1 .. Len(G) : (F \o G)[Len(F) + i] = G[i]
      BY <3>3, Joined
    <3>2. /\ F \o G \in Seq(Seq(T)) /\ Len(F \o G) = Len(F) + Len(G)
          /\ \A i \in 1 .. Len(F) : (F \o G)[i] = F[i]
          /\ \A i \in 1 .. Len(G) : (F \o G)[Len(F) + i] = G[i]
      BY <3>4 DEF U
    <3> QED BY <3>1, <3>2
  <2> HIDE DEF K
  <2>2. ASSUME NEW i \in 1 .. m + n PROVE K[i] = H[i]
    <3>1. CASE i \in 1 .. m
      BY <1>5, <2>1, <3>1
    <3>2. CASE i \notin 1 .. m
      <4>1. i - m \in 1 .. n /\ m + (i - m) = i
        BY <1>1, <3>2
      <4> QED BY <1>6, <2>1, <4>1
    <3> QED BY <3>1, <3>2
  <2>3. K = H
    BY <1>4, <2>1, <2>2, SeqEqual
  <2> QED BY <2>3 DEF K
<1>9. FlattenSeq(F \o G) = FlattenSeq(F) \o FlattenSeq(G)
  BY <1>2, <1>3, FlattenConcat
<1> QED BY <1>7, <1>8, <1>9 DEF w

(* What the pieces are of, all of it is of.                                *)
LEMMA PiecesType ==
  ASSUME NEW S, NEW T, NEW g \in [S -> Seq(T)], NEW u \in Seq(S)
  PROVE  Pieces(g, u) \in Seq(T)
<1> DEFINE F == [i \in DOMAIN u |-> g[u[i]]]
<1>1. F \in [1 .. Len(u) -> Seq(T)] /\ Len(u) \in Nat
  OBVIOUS
<1> HIDE DEF F
<1>2. F \in Seq(Seq(T))
  BY <1>1, FunctionIsSeq
<1>3. FlattenSeq(F) \in Seq(T)
  BY <1>2, FlattenType
<1> QED BY <1>3 DEF Pieces, F

(* The pieces of none, and of one.                                         *)
LEMMA PiecesOne ==
  ASSUME NEW S, NEW T, NEW g \in [S -> Seq(T)]
  PROVE  Pieces(g, <<>>) = <<>> /\ \A x \in S : Pieces(g, <<x>>) = g[x]
<1>1. Pieces(g, <<>>) = <<>>
  <2>1. [i \in DOMAIN <<>> |-> g[<<>>[i]]] = <<>>
    OBVIOUS
  <2> QED BY <2>1, FlattenEmpty DEF Pieces
<1>2. ASSUME NEW x \in S PROVE Pieces(g, <<x>>) = g[x]
  <2> DEFINE y == g[x]
  <2>1. [i \in DOMAIN <<x>> |-> g[<<x>>[i]]] = <<y>> /\ y \in Seq(T)
    OBVIOUS
  <2> HIDE DEF y
  <2>2. FlattenSeq(<<y>>) = y
    BY <2>1, FlattenOne
  <2> QED BY <2>1, <2>2 DEF Pieces, y
<1> QED BY <1>1, <1>2

-----------------------------------------------------------------------------
(* A message that is said, with its bytes.                                 *)
Saying == {[frame |-> m.frame, fault |-> m.fault, bytes |-> Bytes(m)] : m \in Message}

(* A message that is said has its packet.                                  *)
LEMMA SayingPacket ==
  \A m \in Saying : m.fault \in Faults /\ m.frame \in Answer /\ \E raw : PacketOf(m, m.bytes, raw)
<1> SUFFICES ASSUME NEW m \in Saying
             PROVE  m.fault \in Faults /\ m.frame \in Answer /\ \E raw : PacketOf(m, m.bytes, raw)
  OBVIOUS
<1>1. PICK x \in Message : m = [frame |-> x.frame, fault |-> x.fault, bytes |-> Bytes(x)]
  BY DEF Saying
<1>2. m.frame = x.frame /\ m.fault = x.fault /\ m.bytes = Bytes(x)
  BY <1>1
<1>3. PICK raw : PacketOf(x, Bytes(x), raw)
  BY MessagePacket
<1>4. Dispatched(m) = Dispatched(x)
  BY <1>2 DEF Dispatched
<1>5. PacketOf(m, m.bytes, raw)
  BY <1>2, <1>3, <1>4 DEF PacketOf
<1>6. x.frame \in Answer /\ x.fault \in Faults
  BY DEF Message
<1> QED BY <1>2, <1>5, <1>6

(* What the gateway says is such messages.                                 *)
LEMMA SpokenIsSaying == \A t \in Seq(Message) : Spoken(t) \in Seq(Saying)
<1> TAKE t \in Seq(Message)
<1>1. Len(t) \in Nat /\ DOMAIN t = 1 .. Len(t) /\ \A i \in 1 .. Len(t) : t[i] \in Message
  OBVIOUS
<1>2. \A i \in 1 .. Len(t) :
        [frame |-> t[i].frame, fault |-> t[i].fault, bytes |-> Bytes(t[i])] \in Saying
  BY <1>1, Zenon DEF Saying
<1>3. Spoken(t) \in [1 .. Len(t) -> Saying]
  BY <1>1, <1>2 DEF Spoken
<1> QED BY <1>1, <1>3, FunctionIsSeq

(* A packet is bytes, two at least.                                        *)
LEMMA PackType == \A raw \in Seq(Byte) : RfcPack(raw) \in Seq(Byte) /\ Len(RfcPack(raw)) >= 2
<1> TAKE raw \in Seq(Byte)
<1> DEFINE e == Stuffing(raw)
           p == RfcPack(raw)
<1>1. e \in Seq(Byte) /\ p \in Seq(Byte) /\ Len(p) = Len(e) + 2
  BY PackedBytes
<1> HIDE DEF e, p
<1> QED BY <1>1 DEF p

(* The frames that are dispatched.                                         *)
Heard == {Meaning(f) : f \in Answer}

(* The bytes of messages stand one after the other.                        *)
LEMMA AllBytesParts ==
  /\ \A u, v \in Seq(Saying) :
       AllBytes(u) \in Seq(Byte) /\ AllBytes(u \o v) = AllBytes(u) \o AllBytes(v)
  /\ AllBytes(<<>>) = <<>>
  /\ \A m \in Saying : AllBytes(<<m>>) = m.bytes
<1> DEFINE g == [m \in Saying |-> m.bytes]
<1>1. \A m \in Saying : m.bytes \in Seq(Byte)
  BY SayingPacket, PackType, Zenon DEF PacketOf
<1>2. g \in [Saying -> Seq(Byte)] /\ \A m \in Saying : g[m] = m.bytes
  BY <1>1
<1> HIDE DEF g
<1>3. ASSUME NEW u \in Seq(Saying) PROVE AllBytes(u) = Pieces(g, u)
  <2>1. \A i \in DOMAIN u : u[i] \in Saying
    OBVIOUS
  <2>2. [i \in DOMAIN u |-> u[i].bytes] = [i \in DOMAIN u |-> g[u[i]]]
    BY <1>2, <2>1
  <2> QED BY <2>2 DEF AllBytes, Pieces
<1>4. \A u, v \in Seq(Saying) : u \o v \in Seq(Saying)
  OBVIOUS
<1>5. <<>> \in Seq(Saying) /\ \A m \in Saying : <<m>> \in Seq(Saying)
  OBVIOUS
<1>6. ASSUME NEW u \in Seq(Saying), NEW v \in Seq(Saying)
      PROVE  AllBytes(u) \in Seq(Byte) /\ AllBytes(u \o v) = AllBytes(u) \o AllBytes(v)
  <2>1. Pieces(g, u) \in Seq(Byte) /\ Pieces(g, u \o v) = Pieces(g, u) \o Pieces(g, v)
    <3>1. g \in [Saying -> Seq(Byte)]
      BY <1>2
    <3>2. Pieces(g, u) \in Seq(Byte)
      BY <3>1, PiecesType
    <3>3. Pieces(g, u \o v) = Pieces(g, u) \o Pieces(g, v)
      BY <3>1, PiecesConcat
    <3> QED BY <3>2, <3>3
  <2>2. AllBytes(u \o v) = Pieces(g, u \o v) /\ AllBytes(u) = Pieces(g, u) /\ AllBytes(v) = Pieces(g, v)
    BY <1>3, <1>4, Zenon
  <2> QED BY <2>1, <2>2, Zenon
<1>7. AllBytes(<<>>) = <<>>
  BY <1>2, <1>3, <1>5, PiecesOne, Zenon
<1>8. ASSUME NEW m \in Saying PROVE AllBytes(<<m>>) = m.bytes
  <2>1. Pieces(g, <<m>>) = g[m]
    BY <1>2, PiecesOne, Zenon
  <2> QED BY <1>2, <1>3, <1>5, <2>1, Zenon
<1> QED BY <1>6, <1>7, <1>8, Zenon

(* And so do the frames that are dispatched of them.                       *)
LEMMA MeaningsParts ==
  /\ \A u, v \in Seq(Saying) :
       Meanings(u) \in Seq(Heard) /\ Meanings(u \o v) = Meanings(u) \o Meanings(v)
  /\ Meanings(<<>>) = <<>>
  /\ \A m \in Saying : Meanings(<<m>>) = Dispatched(m)
<1> DEFINE g == [m \in Saying |-> Dispatched(m)]
<1>1. \A m \in Saying : Dispatched(m) \in Seq(Heard)
  <2> TAKE m \in Saying
  <2>1. Meaning(m.frame) \in Heard
    BY SayingPacket, Zenon DEF Heard
  <2>2. <<Meaning(m.frame)>> \in Seq(Heard) /\ <<>> \in Seq(Heard)
    BY <2>1
  <2> QED BY <2>2 DEF Dispatched
<1>2. g \in [Saying -> Seq(Heard)] /\ \A m \in Saying : g[m] = Dispatched(m)
  BY <1>1
<1> HIDE DEF g
<1>3. ASSUME NEW u \in Seq(Saying) PROVE Meanings(u) = Pieces(g, u)
  <2>1. \A i \in DOMAIN u : u[i] \in Saying
    OBVIOUS
  <2>2. [i \in DOMAIN u |-> Dispatched(u[i])] = [i \in DOMAIN u |-> g[u[i]]]
    BY <1>2, <2>1
  <2>3. Meanings(u) = FlattenSeq([i \in DOMAIN u |-> Dispatched(u[i])])
    BY Zenon DEF Meanings, Dispatched
  <2> QED BY <2>2, <2>3 DEF Pieces
<1>4. \A u, v \in Seq(Saying) : u \o v \in Seq(Saying)
  OBVIOUS
<1>5. <<>> \in Seq(Saying) /\ \A m \in Saying : <<m>> \in Seq(Saying)
  OBVIOUS
<1>6. ASSUME NEW u \in Seq(Saying), NEW v \in Seq(Saying)
      PROVE  Meanings(u) \in Seq(Heard) /\ Meanings(u \o v) = Meanings(u) \o Meanings(v)
  <2>1. Pieces(g, u) \in Seq(Heard) /\ Pieces(g, u \o v) = Pieces(g, u) \o Pieces(g, v)
    <3>1. g \in [Saying -> Seq(Heard)]
      BY <1>2
    <3>2. Pieces(g, u) \in Seq(Heard)
      BY <3>1, PiecesType
    <3>3. Pieces(g, u \o v) = Pieces(g, u) \o Pieces(g, v)
      BY <3>1, PiecesConcat
    <3> QED BY <3>2, <3>3
  <2>2. Meanings(u \o v) = Pieces(g, u \o v) /\ Meanings(u) = Pieces(g, u) /\ Meanings(v) = Pieces(g, v)
    BY <1>3, <1>4, Zenon
  <2> QED BY <2>1, <2>2, Zenon
<1>7. Meanings(<<>>) = <<>>
  BY <1>2, <1>3, <1>5, PiecesOne, Zenon
<1>8. ASSUME NEW m \in Saying PROVE Meanings(<<m>>) = Dispatched(m)
  <2>1. Pieces(g, <<m>>) = g[m]
    BY <1>2, PiecesOne, Zenon
  <2> QED BY <1>2, <1>3, <1>5, <2>1, Zenon
<1> QED BY <1>6, <1>7, <1>8, Zenon

(* The same bytes, cut at two places.                                      *)
SameJoined(a, b, s, t) == a \o b = s \o t

(* A read moves the cut.                                                   *)
LEMMA MoreRead ==
  ASSUME NEW S, NEW s \in Seq(S), NEW t \in Seq(S), NEW n \in Nat, n <= Len(t)
  PROVE  /\ s \o SubSeq(t, 1, n) \in Seq(S)
         /\ SubSeq(t, n + 1, Len(t)) \in Seq(S)
         /\ SameJoined(s \o SubSeq(t, 1, n), SubSeq(t, n + 1, Len(t)), s, t)
<1> DEFINE a == SubSeq(t, 1, n)
           b == SubSeq(t, n + 1, Len(t))
<1>1. a \in Seq(S) /\ b \in Seq(S) /\ a \o b = t
  BY CutInTwo
<1> HIDE DEF a, b
<1>2. a \in Seq(S)
  BY <1>1
<1>3. b \in Seq(S)
  BY <1>1
<1>4. s \o a \in Seq(S)
  BY <1>2
<1>5. (s \o a) \o b = s \o (a \o b)
  BY <1>2, <1>3, ConcatAssociative
<1> QED BY <1>1, <1>4, <1>5 DEF a, b, SameJoined

-----------------------------------------------------------------------------
(* The reader.                                                             *)

(* The messages that were taken out of the stream and those that were not. *)
Split(heard, left) ==
  /\ heard \in Seq(Saying) /\ left \in Seq(Saying) /\ said = heard \o left
  /\ stream \o inbound = AllBytes(left)
  /\ received = Meanings(heard)
  /\ loop = "reading" => ~IsSlip(stream) \/ \E i \in DOMAIN heard : heard[i].fault = "blank"

(* The invariant of the reader: buffer and network hold what is left, to   *)
(* the byte, and what was taken out is dispatched.                         *)
StreamInv ==
  /\ stream \in Seq(Byte) /\ inbound \in Seq(Byte) /\ loop \in {"reading", "draining"}
  /\ \E heard, left : Split(heard, left)

(* At the start everything is left.                                        *)
LEMMA StreamInit == Init => StreamInv
<1> SUFFICES ASSUME Init PROVE StreamInv
  OBVIOUS
<1>1. PICK t \in Traffic : /\ said = Spoken(t.in) /\ inbound = AllBytes(said)
                           /\ loop = "reading" /\ stream = <<>> /\ received = <<>>
  BY DEF Init
<1>2. said \in Seq(Saying)
  BY <1>1, SpokenIsSaying, TrafficAssumption
<1>3. inbound \in Seq(Byte) /\ stream \in Seq(Byte) /\ stream \o inbound = inbound
  <2>1. inbound \in Seq(Byte)
    BY <1>1, <1>2, AllBytesParts
  <2> QED BY <1>1, <2>1
<1>4. ~IsSlip(stream)
  BY <1>1 DEF IsSlip
<1>5. <<>> \in Seq(Saying) /\ <<>> \o said = said
  BY <1>2
<1>6. Split(<<>>, said)
  BY <1>1, <1>2, <1>3, <1>4, <1>5, MeaningsParts DEF Split
<1> QED BY <1>1, <1>3, <1>6 DEF StreamInv

(* A step of the reader's other than taking a packet.                      *)
LEMMA StreamRead ==
  ASSUME StreamInv, Read PROVE StreamInv'
<1>1. PICK heard, left : Split(heard, left)
  BY DEF StreamInv
<1>2. PICK n \in 1 .. IF Len(inbound) < MaxRead THEN Len(inbound) ELSE MaxRead :
        /\ stream' = stream \o SubSeq(inbound, 1, n)
        /\ inbound' = SubSeq(inbound, n + 1, Len(inbound))
  BY Zenon DEF Read
<1>3. loop' = "draining" /\ said' = said /\ received' = received
  BY DEF Read
<1>4. stream \in Seq(Byte) /\ inbound \in Seq(Byte)
  BY DEF StreamInv
<1>5. n \in Nat /\ n <= Len(inbound)
  BY <1>2, <1>4, TrafficAssumption
<1>6. /\ stream' \in Seq(Byte) /\ inbound' \in Seq(Byte)
      /\ stream' \o inbound' = stream \o inbound
  <2>1. /\ stream \o SubSeq(inbound, 1, n) \in Seq(Byte)
        /\ SubSeq(inbound, n + 1, Len(inbound)) \in Seq(Byte)
        /\ SameJoined(stream \o SubSeq(inbound, 1, n), SubSeq(inbound, n + 1, Len(inbound)),
                      stream, inbound)
    <3>1. stream \in Seq(Byte)
      BY <1>4
    <3>2. inbound \in Seq(Byte)
      BY <1>4
    <3>3. n \in Nat
      BY <1>5
    <3>4. n <= Len(inbound)
      BY <1>5
    <3> QED BY <3>1, <3>2, <3>3, <3>4, MoreRead, Zenon
  <2> QED BY <1>2, <2>1 DEF SameJoined
<1>7. Split(heard, left)'
  BY <1>1, <1>3, <1>6 DEF Split
<1> QED BY <1>3, <1>6, <1>7 DEF StreamInv

(* The loop rests only when there is no packet.                            *)
LEMMA StreamRest ==
  ASSUME StreamInv, Rest PROVE StreamInv'
<1>1. PICK heard, left : Split(heard, left)
  BY DEF StreamInv
<1>2. Split(heard, left)'
  BY <1>1 DEF Split, Rest
<1> QED BY <1>2 DEF StreamInv, Rest

(* A write leaves the reader alone.                                        *)
LEMMA StreamWrite ==
  ASSUME StreamInv, UNCHANGED reader PROVE StreamInv'
<1>1. PICK heard, left : Split(heard, left)
  BY DEF StreamInv
<1>2. Split(heard, left)'
  BY <1>1 DEF Split, reader
<1> QED BY <1>2 DEF StreamInv, reader

(* The first of the messages that are left is the next packet, once it is  *)
(* there.                                                                  *)
LEMMA NextMessage ==
  ASSUME StreamInv, NEW heard, NEW left, Split(heard, left), IsSlip(stream)
  PROVE  \E m \in Saying : \E rest \in Seq(Saying) : \E raw :
           /\ left = <<m>> \o rest /\ PacketOf(m, m.bytes, raw)
           /\ GetNextSlip(stream).packet = raw
           /\ GetNextSlip(stream).remaining \in Seq(Byte)
           /\ GetNextSlip(stream).remaining \o inbound = AllBytes(rest)
<1>1. stream \in Seq(Byte) /\ inbound \in Seq(Byte)
  BY DEF StreamInv
<1>2. left \in Seq(Saying) /\ stream \o inbound = AllBytes(left)
  BY DEF Split
<1>3. left # <<>>
  <2>1. Len(stream) >= 2
    BY DEF IsSlip
  <2>2. stream \o inbound # <<>>
    BY <1>1, <2>1
  <2> QED BY <1>2, <2>2, AllBytesParts
<1> DEFINE m == Head(left)
           rest == Tail(left)
<1>4. m \in Saying /\ rest \in Seq(Saying) /\ left = <<m>> \o rest
  BY <1>2, <1>3
<1> HIDE DEF m, rest
<1>5. PICK raw : PacketOf(m, m.bytes, raw)
  BY <1>4, SayingPacket
<1>6. raw \in Seq(Byte) /\ m.bytes = RfcPack(raw)
  BY <1>5 DEF PacketOf
<1> DEFINE p == RfcPack(raw)
           more == AllBytes(rest)
<1>7. p \in Seq(Byte) /\ more \in Seq(Byte)
  BY <1>4, <1>6, PackType, AllBytesParts
<1>8. stream \o inbound = p \o more
  <2>1. <<m>> \in Seq(Saying)
    BY <1>4
  <2>2. AllBytes(<<m>> \o rest) = AllBytes(<<m>>) \o more
    BY <1>4, <2>1, AllBytesParts, Zenon
  <2>3. AllBytes(<<m>>) = p
    BY <1>4, <1>6, AllBytesParts, Zenon
  <2> QED BY <1>2, <1>4, <2>2, <2>3
<1>9. Len(stream) >= Len(p)
  <2>1. CASE Len(stream) < Len(p)
    BY <1>1, <1>6, <1>7, <1>8, <2>1, NoPacketYet
  <2>2. Len(stream) \in Nat /\ Len(p) \in Nat
    BY <1>1, <1>7
  <2> QED BY <2>1, <2>2
<1> HIDE DEF p, more
<1>10. PICK t \in Seq(Byte) : stream = p \o t /\ t \o inbound = more
  <2>1. p \in Seq(Byte)
    BY <1>7
  <2>2. more \in Seq(Byte)
    BY <1>7
  <2>3. stream \in Seq(Byte)
    BY <1>1
  <2>4. inbound \in Seq(Byte)
    BY <1>1
  <2>5. CutAfter(stream, inbound, p, more)
    BY <1>8, <1>9 DEF CutAfter
  <2>6. \E t \in Seq(Byte) : Between(t, stream, inbound, p, more)
    BY <2>1, <2>2, <2>3, <2>4, <2>5, Longer
  <2> QED BY <2>6 DEF Between
<1>11. GetNextSlip(stream).packet = raw /\ GetNextSlip(stream).remaining = t
  BY <1>6, <1>10, NextPacket DEF p
<1> QED BY <1>4, <1>5, <1>10, <1>11 DEF more

(* A packet is the next message: it is taken out, and dispatched.          *)
LEMMA StreamPacket ==
  ASSUME StreamInv, Packet PROVE StreamInv'
<1>1. PICK heard, left : Split(heard, left)
  BY DEF StreamInv
<1> DEFINE next == GetNextSlip(stream)
<1>2. /\ IsSlip(stream) /\ stream' = next.remaining
      /\ IF next.packet = <<>>
         THEN loop' = "reading" /\ UNCHANGED <<received, shown>>
         ELSE loop' = "draining" /\ Handle(next.packet)
      /\ said' = said /\ inbound' = inbound
  BY DEF Packet
<1>30. PICK m \in Saying, rest \in Seq(Saying) :
         \E raw : /\ left = <<m>> \o rest /\ PacketOf(m, m.bytes, raw)
                  /\ next.packet = raw
                  /\ next.remaining \in Seq(Byte)
                  /\ next.remaining \o inbound = AllBytes(rest)
  BY <1>1, <1>2, NextMessage
<1>3. PICK raw : /\ left = <<m>> \o rest /\ PacketOf(m, m.bytes, raw)
                 /\ next.packet = raw
                 /\ next.remaining \in Seq(Byte)
                 /\ next.remaining \o inbound = AllBytes(rest)
  BY <1>30, Zenon
<1> HIDE DEF next
<1> DEFINE more == heard \o <<m>>
<1>4. /\ heard \in Seq(Saying) /\ left \in Seq(Saying) /\ said = heard \o left
      /\ received = Meanings(heard)
  BY <1>1 DEF Split
<1>5. <<m>> \in Seq(Saying)
  BY <1>3
<1>6. more \in Seq(Saying) /\ said = more \o rest
  BY <1>3, <1>4, <1>5
<1>7. Meanings(more) = received \o Dispatched(m)
  <2>1. Meanings(heard \o <<m>>) = Meanings(heard) \o Meanings(<<m>>)
    BY <1>4, <1>5, MeaningsParts, Zenon
  <2>2. Meanings(<<m>>) = Dispatched(m)
    BY <1>3, MeaningsParts, Zenon
  <2> QED BY <1>4, <2>1, <2>2
<1>8. /\ raw = <<>> <=> m.fault = "blank"
      /\ FrameFromRaw(raw) = Dispatched(m)
  BY <1>3 DEF PacketOf
<1>9. received' = Meanings(more)
  <2>1. CASE raw = <<>>
    <3>1. Dispatched(m) = <<>>
      BY <1>8, <2>1 DEF Dispatched
    <3>2. received' = received
      BY <1>2, <1>3, <2>1
    <3>3. received \in Seq(Heard)
      BY <1>4, MeaningsParts
    <3>4. received \o <<>> = received
      BY <3>3
    <3> QED BY <1>7, <3>1, <3>2, <3>4
  <2>2. CASE raw # <<>>
    <3>1. received' = received \o FrameFromRaw(raw)
      BY <1>2, <1>3, <2>2 DEF Handle
    <3> QED BY <1>7, <1>8, <3>1
  <2> QED BY <2>1, <2>2
<1>10. loop' = "reading" => \E i \in DOMAIN more : more[i].fault = "blank"
  <2> HAVE loop' = "reading"
  <2>1. raw = <<>>
    BY <1>2, <1>3
  <2>2. m.fault = "blank"
    BY <1>8, <2>1
  <2>3. Len(heard) + 1 \in DOMAIN more /\ more[Len(heard) + 1] = m
    BY <1>4, <1>5
  <2> QED BY <2>2, <2>3
<1>11. loop' \in {"reading", "draining"}
  BY <1>2
<1> HIDE DEF more
<1>12. stream' \in Seq(Byte) /\ inbound' \in Seq(Byte) /\ stream' \o inbound' = AllBytes(rest)
  BY <1>2, <1>3 DEF StreamInv
<1>13. Split(more, rest)'
  BY <1>2, <1>3, <1>6, <1>9, <1>10, <1>12 DEF Split
<1> QED BY <1>11, <1>12, <1>13 DEF StreamInv

(* The invariant of the reader holds, whatever is said and however it is   *)
(* cut.  (readLoop)                                                        *)
THEOREM StreamHolds == Spec => []StreamInv
<1>1. ASSUME StreamInv, [Next]_vars PROVE StreamInv'
  <2>1. CASE Read
    BY <1>1, <2>1, StreamRead
  <2>2. CASE Packet
    BY <1>1, <2>2, StreamPacket
  <2>3. CASE Rest
    BY <1>1, <2>3, StreamRest
  <2>4. CASE Write
    BY <1>1, <2>4, StreamWrite DEF Write
  <2>5. CASE UNCHANGED vars
    BY <1>1, <2>5, StreamWrite DEF vars
  <2> QED BY <1>1, <2>1, <2>2, <2>3, <2>4, <2>5 DEF Next
<1> QED BY <1>1, StreamInit, PTL DEF Spec

-----------------------------------------------------------------------------
(* What is shown.                                                          *)

(* A report of a position that is one, to a cover.                         *)
IsReport(g, c) ==
  /\ g.is \in {"NodeInformation", "NodeStatePositionChanged"}
  /\ g.node = c /\ g.current \in 0 .. MAX

(* The value is that of the last report among the frames.                  *)
LastReport(v, fs, c) ==
  \/ v = "none" /\ \A i \in DOMAIN fs : ~IsReport(fs[i], c)
  \/ \E m \in DOMAIN fs :
       /\ IsReport(fs[m], c) /\ v = ToPercent(fs[m].current)
       /\ \A i \in DOMAIN fs : IsReport(fs[i], c) => i <= m

(* And what is shown is of the last report that was dispatched.            *)
ShownInv ==
  /\ StreamInv
  /\ DOMAIN shown = Covers
  /\ \A c \in Covers : LastReport(shown[c], received, c)

(* A report has a position.                                                *)
LEMMA AnswerCurrent ==
  \A f \in Answer : f.is \in {"NodeInformation", "NodeStatePositionChanged"} =>
    f.current \in Number /\ {"is", "current"} \subseteq DOMAIN f
<1> SUFFICES ASSUME NEW f \in Answer, f.is \in {"NodeInformation", "NodeStatePositionChanged"}
             PROVE  f.current \in Number /\ {"is", "current"} \subseteq DOMAIN f
  OBVIOUS
<1>1. CASE f \in {g \in [is : {"NodeInformation"}, node : Byte, name : Seq(Byte \ {0}), type : Number,
          state : Byte, current : Number, target : Number, fps : [1 .. 4 -> Number],
          remaining : Number, timestamp : Nat, aliases : Seq(Number)] :
     /\ Len(g.name) <= 64
     /\ Len(g.aliases) \in {0, 2, 4, 6, 8, 10}
     /\ g.timestamp \div Wrap \in Number}
  BY <1>1
<1>2. CASE f \in {g \in [is : {"NodeStatePositionChanged"}, node : Byte, state : Byte, current : Number,
               target : Number, fps : [1 .. 4 -> Number], remaining : Number, timestamp : Nat] :
          g.timestamp \div Wrap \in Number}
  BY <1>2
<1>3. CASE f \in [is : {"CommandSendConfirmation", "SetLimitationConfirmation"}, session : Number,
        status : Byte]
  BY <1>3
<1>4. CASE f \in [is : {"CommandRunStatus"}, session : Number, status : Byte, parameter : Byte,
        value : Number]
  BY <1>4
<1>5. CASE f \in [is : {"SessionFinished"}, session : Number]
  BY <1>5
<1>6. CASE f \in {g \in [is : {"StatusRequestNotification"}, session : Number, node : Byte,
               data : Seq(Byte \X Number)] : Len(g.data) <= 17}
  BY <1>6
<1>7. CASE f \in [is : {"LimitationStatus"}, session : Number, node : Byte, min : Number, max : Number,
        time : Byte]
  BY <1>7
<1> QED BY <1>1, <1>2, <1>3, <1>4, <1>5, <1>6, <1>7, Zenon DEF Answer

(* An answer has a type.                                                   *)
LEMMA AnswerHasKind == \A f \in Answer : "is" \in DOMAIN f
<1> SUFFICES ASSUME NEW f \in Answer PROVE "is" \in DOMAIN f
  OBVIOUS
<1>1. CASE f \in {g \in [is : {"NodeInformation"}, node : Byte, name : Seq(Byte \ {0}), type : Number,
          state : Byte, current : Number, target : Number, fps : [1 .. 4 -> Number],
          remaining : Number, timestamp : Nat, aliases : Seq(Number)] :
     /\ Len(g.name) <= 64
     /\ Len(g.aliases) \in {0, 2, 4, 6, 8, 10}
     /\ g.timestamp \div Wrap \in Number}
  BY <1>1
<1>2. CASE f \in {g \in [is : {"NodeStatePositionChanged"}, node : Byte, state : Byte, current : Number,
               target : Number, fps : [1 .. 4 -> Number], remaining : Number, timestamp : Nat] :
          g.timestamp \div Wrap \in Number}
  BY <1>2
<1>3. CASE f \in [is : {"CommandSendConfirmation", "SetLimitationConfirmation"}, session : Number,
        status : Byte]
  BY <1>3
<1>4. CASE f \in [is : {"CommandRunStatus"}, session : Number, status : Byte, parameter : Byte,
        value : Number]
  BY <1>4
<1>5. CASE f \in [is : {"SessionFinished"}, session : Number]
  BY <1>5
<1>6. CASE f \in {g \in [is : {"StatusRequestNotification"}, session : Number, node : Byte,
               data : Seq(Byte \X Number)] : Len(g.data) <= 17}
  BY <1>6
<1>7. CASE f \in [is : {"LimitationStatus"}, session : Number, node : Byte, min : Number, max : Number,
        time : Byte]
  BY <1>7
<1> QED BY <1>1, <1>2, <1>3, <1>4, <1>5, <1>6, <1>7, Zenon DEF Answer

(* A report that is dispatched has a position.                             *)
LEMMA HeardCurrent ==
  \A g \in Heard : g.is \in {"NodeInformation", "NodeStatePositionChanged"} => g.current \in Number
<1> SUFFICES ASSUME NEW f \in Answer,
                    Meaning(f).is \in {"NodeInformation", "NodeStatePositionChanged"}
             PROVE  Meaning(f).current \in Number
  BY Zenon DEF Heard
<1>1. Meaning(f).is = f.is
  <2>1. "is" \in DOMAIN f
    BY AnswerHasKind
  <2>2. Meaning(f)["is"] = Means("is", f["is"])
    BY <2>1 DEF Meaning
  <2>3. Means("is", f["is"]) = f["is"]
    BY Meant
  <2> QED BY <2>2, <2>3
<1>2. f.current \in Number /\ "current" \in DOMAIN f
  BY <1>1, AnswerCurrent
<1>3. Meaning(f)["current"] = Means("current", f["current"])
  BY <1>2 DEF Meaning
<1>4. Means("current", f["current"]) = Plain(f.current)
  BY Meant
<1>5. Plain(f.current) \in Number
  <2>1. UNKNOWN \in Number
    BY DEF Number, UNKNOWN, Wrap
  <2> QED BY <1>2, <2>1 DEF Plain
<1> QED BY <1>3, <1>4, <1>5

(* A frame more, whether it is a report or not.                            *)
LEMMA LastReportStep ==
  ASSUME NEW fs \in Seq(Heard), NEW g \in Heard, NEW c, NEW v, LastReport(v, fs, c)
  PROVE  LastReport(IF IsReport(g, c) THEN ToPercent(g.current) ELSE v, fs \o <<g>>, c)
<1> DEFINE hs == fs \o <<g>>
           n == Len(fs)
           w == IF IsReport(g, c) THEN ToPercent(g.current) ELSE v
<1>1. /\ n \in Nat /\ DOMAIN fs = 1 .. n /\ DOMAIN hs = 1 .. n + 1
      /\ hs[n + 1] = g
      /\ \A i \in 1 .. n : hs[i] = fs[i]
  OBVIOUS
<1> HIDE DEF hs, n
<1>2. \A i \in 1 .. n + 1 : i = n + 1 \/ i \in 1 .. n
  BY <1>1
<1>3. n + 1 \in 1 .. n + 1 /\ \A i \in 1 .. n + 1 : i <= n + 1
  BY <1>1
<1>4. \A i \in 1 .. n : i \in 1 .. n + 1
  BY <1>1
<1>5. CASE IsReport(g, c)
  <2>1. w = ToPercent(hs[n + 1].current) /\ IsReport(hs[n + 1], c)
    BY <1>1, <1>5
  <2> HIDE DEF w
  <2>2. \E m \in DOMAIN hs :
          /\ IsReport(hs[m], c) /\ w = ToPercent(hs[m].current)
          /\ \A i \in DOMAIN hs : IsReport(hs[i], c) => i <= m
    BY <1>1, <1>3, <2>1, Zenon
  <2>3. LastReport(w, hs, c)
    BY <2>2 DEF LastReport
  <2> QED BY <2>3 DEF w, hs
<1>6. CASE ~IsReport(g, c)
  <2>1. w = v
    BY <1>6
  <2> HIDE DEF w
  <2>2. CASE v = "none" /\ \A i \in DOMAIN fs : ~IsReport(fs[i], c)
    <3>1. \A i \in DOMAIN hs : ~IsReport(hs[i], c)
      BY <1>1, <1>2, <1>6, <2>2
    <3>2. LastReport(w, hs, c)
      BY <2>1, <2>2, <3>1 DEF LastReport
    <3> QED BY <3>2 DEF w, hs
  <2>3. CASE \E m \in DOMAIN fs :
               /\ IsReport(fs[m], c) /\ v = ToPercent(fs[m].current)
               /\ \A i \in DOMAIN fs : IsReport(fs[i], c) => i <= m
    <3>1. PICK m \in DOMAIN fs :
               /\ IsReport(fs[m], c) /\ v = ToPercent(fs[m].current)
               /\ \A i \in DOMAIN fs : IsReport(fs[i], c) => i <= m
      BY <2>3
    <3>2. m \in DOMAIN hs /\ hs[m] = fs[m]
      BY <1>1, <1>4
    <3>3. \A i \in DOMAIN hs : IsReport(hs[i], c) => i <= m
      BY <1>1, <1>2, <1>6, <3>1
    <3>4. IsReport(hs[m], c) /\ w = ToPercent(hs[m].current)
      BY <2>1, <3>1, <3>2
    <3>5. LastReport(w, hs, c)
      BY <3>2, <3>3, <3>4 DEF LastReport
    <3> QED BY <3>5 DEF w, hs
  <2> QED BY <2>2, <2>3 DEF LastReport
<1> QED BY <1>5, <1>6

(* What the updater makes of a frame.                                      *)
LEMMA UpdatedShows ==
  ASSUME NEW g \in Heard, DOMAIN shown = Covers
  PROVE  /\ DOMAIN Updated(g) = Covers
         /\ \A c \in Covers :
              Updated(g)[c] = IF IsReport(g, c) THEN ToPercent(g.current) ELSE shown[c]
<1>1. MAX \in Nat
  BY DEF MAX
<1>2. ASSUME g.is \in {"NodeInformation", "NodeStatePositionChanged"}
      PROVE  g.current <= MAX <=> g.current \in 0 .. MAX
  <2>1. g.current \in Number
    BY <1>2, HeardCurrent
  <2>2. g.current \in Int /\ 0 <= g.current
    BY <2>1, InNumber
  <2> QED BY <1>1, <2>2
<1>3. DOMAIN Updated(g) = Covers
  BY DEF Updated
<1>4. ASSUME NEW c \in Covers
      PROVE  Updated(g)[c] = IF IsReport(g, c) THEN ToPercent(g.current) ELSE shown[c]
  <2>1. CASE IsReport(g, c)
    <3>1. g.is \in {"NodeInformation", "NodeStatePositionChanged"} /\ g.node = c
          /\ g.current <= MAX
      BY <1>2, <2>1 DEF IsReport
    <3>2. Updated(g) = [shown EXCEPT ![c] = ToPercent(g.current)]
      BY <3>1 DEF Updated
    <3> QED BY <2>1, <3>2
  <2>2. CASE ~IsReport(g, c)
    <3>1. CASE /\ g.is \in {"NodeInformation", "NodeStatePositionChanged"}
               /\ g.node \in Covers /\ g.current <= MAX
      <4>1. g.node # c
        BY <1>2, <2>2, <3>1 DEF IsReport
      <4>2. Updated(g) = [shown EXCEPT ![g.node] = ToPercent(g.current)]
        BY <3>1 DEF Updated
      <4> QED BY <2>2, <4>1, <4>2
    <3>2. CASE ~(/\ g.is \in {"NodeInformation", "NodeStatePositionChanged"}
                 /\ g.node \in Covers /\ g.current <= MAX)
      <4>1. Updated(g) = shown
        BY <3>2 DEF Updated
      <4> QED BY <2>2, <4>1
    <3> QED BY <3>1, <3>2
  <2> QED BY <2>1, <2>2
<1> QED BY <1>3, <1>4

(* A packet is a message or none of what is dispatched.                    *)
LEMMA PacketDispatches ==
  ASSUME StreamInv, Packet
  PROVE  \/ received' = received /\ shown' = shown
         \/ \E g \in Heard : received' = received \o <<g>> /\ shown' = Updated(g)
<1>1. PICK heard, left : Split(heard, left)
  BY DEF StreamInv
<1> DEFINE next == GetNextSlip(stream)
<1>2. /\ IsSlip(stream)
      /\ IF next.packet = <<>>
         THEN UNCHANGED <<received, shown>>
         ELSE Handle(next.packet)
  BY DEF Packet
<1>30. PICK m \in Saying, rest \in Seq(Saying) :
         \E raw : PacketOf(m, m.bytes, raw) /\ next.packet = raw
  BY <1>1, <1>2, NextMessage
<1>3. PICK raw : PacketOf(m, m.bytes, raw) /\ next.packet = raw
  BY <1>30, Zenon
<1> HIDE DEF next
<1>4. FrameFromRaw(raw) = Dispatched(m)
  BY <1>3 DEF PacketOf
<1>5. CASE raw = <<>>
  BY <1>2, <1>3, <1>5
<1>6. CASE raw # <<>>
  <2> DEFINE frames == FrameFromRaw(raw)
  <2>1. /\ received' = received \o frames
        /\ shown' = IF frames = <<>> THEN shown ELSE Updated(frames[1])
    BY <1>2, <1>3, <1>6 DEF Handle
  <2> HIDE DEF frames
  <2>2. received \in Seq(Heard)
    BY <1>1, MeaningsParts DEF Split
  <2>3. CASE m.fault = "none"
    <3> DEFINE g == Meaning(m.frame)
    <3>1. g \in Heard
      BY <1>3, SayingPacket, Zenon DEF Heard
    <3>2. frames = <<g>>
      BY <1>4, <2>3 DEF Dispatched, frames
    <3> HIDE DEF g
    <3>3. frames # <<>> /\ frames[1] = g
      BY <3>2
    <3> QED BY <2>1, <3>1, <3>2, <3>3
  <2>4. CASE m.fault # "none"
    <3>1. frames = <<>>
      BY <1>4, <2>4 DEF Dispatched, frames
    <3> QED BY <2>1, <2>2, <3>1
  <2> QED BY <2>3, <2>4
<1> QED BY <1>5, <1>6

(* Only such frames are dispatched.                                        *)
LEMMA ReceivedIsHeard == StreamInv => received \in Seq(Heard)
BY MeaningsParts DEF StreamInv, Split

(* A packet moves what is shown and what was dispatched together.          *)
LEMMA ShownStep ==
  ASSUME ShownInv, Packet
  PROVE  DOMAIN shown' = Covers /\ \A c \in Covers : LastReport(shown'[c], received', c)
<1>1. /\ StreamInv /\ DOMAIN shown = Covers
      /\ \A c \in Covers : LastReport(shown[c], received, c)
  BY DEF ShownInv
<1>2. CASE received' = received /\ shown' = shown
  BY <1>1, <1>2
<1>3. ASSUME NEW g \in Heard, received' = received \o <<g>>, shown' = Updated(g)
      PROVE  DOMAIN shown' = Covers /\ \A c \in Covers : LastReport(shown'[c], received', c)
  <2>1. DOMAIN shown' = Covers
    BY <1>1, <1>3, UpdatedShows
  <2>2. ASSUME NEW c \in Covers PROVE LastReport(shown'[c], received', c)
    <3>1. shown'[c] = IF IsReport(g, c) THEN ToPercent(g.current) ELSE shown[c]
      BY <1>1, <1>3, UpdatedShows
    <3>2. LastReport(shown[c], received, c)
      BY <1>1
    <3>3. received \in Seq(Heard)
      BY <1>1, ReceivedIsHeard
    <3>4. LastReport(IF IsReport(g, c) THEN ToPercent(g.current) ELSE shown[c],
                     received \o <<g>>, c)
      BY <3>2, <3>3, LastReportStep
    <3> QED BY <1>3, <3>1, <3>4
  <2> QED BY <2>1, <2>2
<1> QED BY <1>1, <1>2, <1>3, PacketDispatches

(* What is shown keeps up with what is dispatched.  (readLoop, NodeUpdater)*)
THEOREM ShownHolds == Spec => []ShownInv
<1>1. Init => ShownInv
  <2> SUFFICES ASSUME Init PROVE ShownInv
    OBVIOUS
  <2>1. StreamInv
    BY StreamInit
  <2>2. shown = [c \in Covers |-> "none"] /\ received = <<>>
    BY DEF Init
  <2>3. \A c \in Covers : LastReport(shown[c], received, c)
    BY <2>2 DEF LastReport
  <2> QED BY <2>1, <2>2, <2>3 DEF ShownInv
<1>2. ASSUME ShownInv, [Next]_vars PROVE ShownInv'
  <2>1. StreamInv
    BY <1>2 DEF ShownInv
  <2>2. CASE Packet
    <3>1. StreamInv'
      BY <2>1, <2>2, StreamPacket
    <3>2. DOMAIN shown' = Covers /\ \A c \in Covers : LastReport(shown'[c], received', c)
      BY <1>2, <2>2, ShownStep
    <3> QED BY <3>1, <3>2 DEF ShownInv
  <2>3. CASE ~Packet
    <3>1. shown' = shown /\ received' = received
      BY <1>2, <2>3 DEF Next, Read, Rest, Write, reader, vars
    <3>2. StreamInv'
      <4>1. CASE Read
        BY <2>1, <4>1, StreamRead
      <4>2. CASE Rest
        BY <2>1, <4>2, StreamRest
      <4>3. CASE UNCHANGED reader
        BY <2>1, <4>3, StreamWrite
      <4> QED BY <1>2, <2>3, <4>1, <4>2, <4>3 DEF Next, Write, vars
    <3> QED BY <1>2, <3>1, <3>2 DEF ShownInv
  <2> QED BY <2>2, <2>3
<1> QED BY <1>1, <1>2, PTL DEF Spec

-----------------------------------------------------------------------------
(* The percentage is the nearest one.                                      *)
LEMMA NearestPercent ==
  \A raw \in 0 .. MAX : ToPercent(raw) \in Nat /\ ToPercent(raw) * 512 - raw \in -256 .. 256
<1> TAKE raw \in 0 .. MAX
<1> DEFINE q == raw \div 256
           r == raw % 256
           k == (q + 1) \div 2
           h == (q + 1) % 2
<1>1. raw \in Nat /\ 256 \in Nat \ {0} /\ 2 \in Nat \ {0}
  BY DEF MAX
<1>2. q \in Int /\ r \in Int /\ 0 <= r /\ r < 256 /\ raw = 256 * q + r
  BY <1>1, Divided
<1>3. ToPercent(raw) = k
  BY DEF ToPercent
<1> HIDE DEF q, r
<1>4. q + 1 \in Nat
  BY <1>1, <1>2
<1>5. k \in Int /\ h \in Int /\ 0 <= h /\ h < 2 /\ q + 1 = 2 * k + h
  BY <1>1, <1>4, Divided
<1> HIDE DEF k, h
<1>6. k \in Nat /\ k * 512 - raw \in -256 .. 256
  BY <1>1, <1>2, <1>4, <1>5
<1> QED BY <1>3, <1>6

(* What a prefix is.                                                       *)
LEMMA PrefixOfConcat ==
  ASSUME NEW S, NEW s \in Seq(S), NEW t \in Seq(S)
  PROVE  IsPrefix(s, s \o t)
<1>1. Len(s) <= Len(s \o t)
  OBVIOUS
<1>2. SubSeq(s \o t, 1, Len(s)) = s
  BY CutLeft
<1>3. SubSeq(s, 1, Len(s)) = s
  <2>1. <<>> \in Seq(S) /\ s \o <<>> = s
    OBVIOUS
  <2>2. SubSeq(s \o <<>>, 1, Len(s)) = s
    BY <2>1, CutLeft
  <2> QED BY <2>1, <2>2
<1> QED BY <1>1, <1>2, <1>3 DEF IsPrefix

(* The invariants have the property in them.                               *)
LEMMA ShownIsMeant == ShownInv => DeliveredAsMeant
<1> SUFFICES ASSUME ShownInv PROVE DeliveredAsMeant
  OBVIOUS
<1>1. PICK heard, left : Split(heard, left)
  BY DEF ShownInv, StreamInv
<1>2. /\ heard \in Seq(Saying) /\ left \in Seq(Saying) /\ said = heard \o left
      /\ received = Meanings(heard)
  BY <1>1 DEF Split
<1>3. IsPrefix(received, Meanings(said))
  <2>1. Meanings(said) = Meanings(heard) \o Meanings(left)
    BY <1>2, MeaningsParts, Zenon
  <2>2. Meanings(heard) \in Seq(Heard) /\ Meanings(left) \in Seq(Heard)
    BY <1>2, MeaningsParts, Zenon
  <2> DEFINE a == Meanings(heard)
             b == Meanings(left)
  <2>3. a \in Seq(Heard)
    BY <2>2
  <2>4. b \in Seq(Heard)
    BY <2>2
  <2> HIDE DEF a, b
  <2>5. IsPrefix(a, a \o b)
    BY <2>3, <2>4, PrefixOfConcat
  <2> QED BY <1>2, <2>1, <2>5 DEF a, b
<1>4. received \in Seq(Heard)
  BY ReceivedIsHeard DEF ShownInv
<1>5. ASSUME NEW c \in Covers
      PROVE  LET reports == {i \in DOMAIN received :
                        /\ received[i].is \in {"NodeInformation", "NodeStatePositionChanged"}
                        /\ received[i].node = c /\ received[i].current \in 0 .. MAX}
             IN  IF reports = {} THEN shown[c] = "none"
                 ELSE shown[c] * 512 - received[Max(reports)].current \in -256 .. 256
  <2> DEFINE reports == {i \in DOMAIN received :
                        /\ received[i].is \in {"NodeInformation", "NodeStatePositionChanged"}
                        /\ received[i].node = c /\ received[i].current \in 0 .. MAX}
  <2>1. \A i : i \in reports <=> i \in DOMAIN received /\ IsReport(received[i], c)
    BY Zenon DEF IsReport
  <2>2. \A i \in reports : i \in Nat
    BY <1>4
  <2> HIDE DEF reports
  <2>3. LastReport(shown[c], received, c)
    BY DEF ShownInv
  <2>4. CASE shown[c] = "none" /\ \A i \in DOMAIN received : ~IsReport(received[i], c)
    <3>1. reports = {}
      BY <2>1, <2>4
    <3> QED BY <2>4, <3>1 DEF reports
  <2>5. ASSUME NEW m \in DOMAIN received, IsReport(received[m], c),
               shown[c] = ToPercent(received[m].current),
               \A i \in DOMAIN received : IsReport(received[i], c) => i <= m
        PROVE  reports # {} /\ shown[c] * 512 - received[Max(reports)].current \in -256 .. 256
    <3>1. m \in reports /\ \A i \in reports : m >= i
      BY <2>1, <2>2, <2>5
    <3>2. Max(reports) = m
      <4>1. Max(reports) \in reports /\ \A i \in reports : Max(reports) >= i
        BY <3>1 DEF Max
      <4>2. Max(reports) >= m /\ m >= Max(reports) /\ Max(reports) \in Nat /\ m \in Nat
        BY <2>2, <3>1, <4>1
      <4> QED BY <4>2
    <3>3. received[m].current \in 0 .. MAX
      BY <2>5 DEF IsReport
    <3>4. ToPercent(received[m].current) * 512 - received[m].current \in -256 .. 256
      BY <3>3, NearestPercent
    <3>5. shown[c] * 512 - received[m].current \in -256 .. 256
      BY <2>5, <3>4
    <3> QED BY <3>1, <3>2, <3>5
  <2>6. IF reports = {} THEN shown[c] = "none"
        ELSE shown[c] * 512 - received[Max(reports)].current \in -256 .. 256
    <3>1. CASE shown[c] = "none" /\ \A i \in DOMAIN received : ~IsReport(received[i], c)
      BY <2>1, <3>1
    <3>2. CASE \E m \in DOMAIN received :
       /\ IsReport(received[m], c) /\ shown[c] = ToPercent(received[m].current)
       /\ \A i \in DOMAIN received : IsReport(received[i], c) => i <= m
      BY <2>5, <3>2
    <3> QED BY <2>3, <3>1, <3>2 DEF LastReport
  <2> QED BY <2>6 DEF reports
<1> QED BY <1>3, <1>5 DEF DeliveredAsMeant

(* However its bytes are cut into reads, what the gateway says is          *)
(* dispatched in its order, once, as it was meant, whatever damaged or     *)
(* unknown messages are next to it, and a cover shows the percentage       *)
(* nearest to its last position.  (readLoop, GetNextSlip, FrameFromRaw,    *)
(* UnmarshalPayload, positionToPercent)                                    *)
THEOREM WireDelivers == Spec => []DeliveredAsMeant
BY ShownHolds, ShownIsMeant, PTL

-----------------------------------------------------------------------------
(* What is held back.                                                      *)

(* More messages have no fewer bytes.                                      *)
LEMMA BeginningsGrow ==
  ASSUME NEW s \in Seq(Saying), NEW n \in Nat, NEW m \in Nat, n <= m, m <= Len(s)
  PROVE  Len(AllBytes(SubSeq(s, 1, n))) <= Len(AllBytes(SubSeq(s, 1, m)))
<1> DEFINE t == SubSeq(s, 1, m)
           a == SubSeq(t, 1, n)
           b == SubSeq(t, n + 1, Len(t))
<1>1. t \in Seq(Saying) /\ Len(t) = m
  BY CutInTwo
<1>2. a = SubSeq(s, 1, n)
  <2>1. SubSeq(s, 1, n) \in Seq(Saying) /\ Len(SubSeq(s, 1, n)) = n
    <3>1. n <= Len(s)
      OBVIOUS
    <3> QED BY <3>1, CutInTwo
  <2>2. a \in Seq(Saying) /\ Len(a) = n
    <3> HIDE DEF t
    <3>1. n <= Len(t) /\ t \in Seq(Saying)
      BY <1>1
    <3> QED BY <3>1, CutInTwo
  <2>3. \A i \in 1 .. n : a[i] = SubSeq(s, 1, n)[i]
    OBVIOUS
  <2> DEFINE c == SubSeq(s, 1, n)
  <2> HIDE DEF a, c
  <2>4. a = c
    BY <2>1, <2>2, <2>3, SeqEqual DEF c
  <2> QED BY <2>4 DEF c
<1> HIDE DEF t
<1>3. a \in Seq(Saying) /\ b \in Seq(Saying) /\ a \o b = t
  <2>1. n <= Len(t) /\ t \in Seq(Saying)
    BY <1>1
  <2> QED BY <2>1, CutInTwo
<1> HIDE DEF a, b
<1>4. AllBytes(t) = AllBytes(a) \o AllBytes(b)
  BY <1>3, AllBytesParts, Zenon
<1>5. AllBytes(a) \in Seq(Byte) /\ AllBytes(b) \in Seq(Byte)
  BY <1>3, AllBytesParts
<1>6. Len(AllBytes(a)) <= Len(AllBytes(t))
  BY <1>4, <1>5
<1> QED BY <1>2, <1>6 DEF t

(* What stands in the buffer is less than the next message.                *)
LEMMA NextIsIncomplete ==
  ASSUME StreamInv, NEW heard, NEW left, Split(heard, left), ~IsSlip(stream), left # <<>>
  PROVE  Len(AllBytes(heard \o <<Head(left)>>)) > Len(AllBytes(heard)) + Len(stream)
<1> DEFINE m == Head(left)
           rest == Tail(left)
<1>1. stream \in Seq(Byte) /\ inbound \in Seq(Byte)
  BY DEF StreamInv
<1>2. heard \in Seq(Saying) /\ left \in Seq(Saying) /\ stream \o inbound = AllBytes(left)
  BY DEF Split
<1>3. m \in Saying /\ rest \in Seq(Saying) /\ left = <<m>> \o rest
  BY <1>2
<1> HIDE DEF m, rest
<1>4. PICK raw : PacketOf(m, m.bytes, raw)
  BY <1>3, SayingPacket
<1>5. raw \in Seq(Byte) /\ m.bytes = RfcPack(raw)
  BY <1>4 DEF PacketOf
<1> DEFINE p == RfcPack(raw)
           more == AllBytes(rest)
           old == AllBytes(heard)
<1>6. <<m>> \in Seq(Saying) /\ AllBytes(<<m>>) = p
  BY <1>3, <1>5, AllBytesParts
<1>61. p \in Seq(Byte)
  BY <1>5, PackType
<1>62. more \in Seq(Byte)
  BY <1>3, AllBytesParts
<1>63. old \in Seq(Byte)
  BY <1>2, AllBytesParts
<1>7. AllBytes(heard \o <<m>>) = old \o p
  <2>1. AllBytes(heard \o <<m>>) = AllBytes(heard) \o AllBytes(<<m>>)
    BY <1>2, <1>6, AllBytesParts, Zenon
  <2> QED BY <1>6, <2>1
<1>8. stream \o inbound = p \o more
  <2>1. AllBytes(<<m>> \o rest) = AllBytes(<<m>>) \o more
    BY <1>3, <1>6, AllBytesParts, Zenon
  <2> QED BY <1>2, <1>3, <1>6, <2>1
<1> HIDE DEF p, more, old
<1>9. ASSUME Len(stream) >= Len(p) PROVE FALSE
  <2>1. CutAfter(stream, inbound, p, more)
    BY <1>8, <1>9 DEF CutAfter
  <2>2. stream \in Seq(Byte)
    BY <1>1
  <2>3. inbound \in Seq(Byte)
    BY <1>1
  <2>4. \E t \in Seq(Byte) : Between(t, stream, inbound, p, more)
    BY <1>61, <1>62, <2>1, <2>2, <2>3, Longer
  <2>5. PICK t \in Seq(Byte) : stream = p \o t
    BY <2>4 DEF Between
  <2>6. IsSlip(p \o t)
    BY <1>5, NextPacket DEF p
  <2> QED BY <2>5, <2>6
<1>10. Len(old \o p) = Len(old) + Len(p) /\ Len(old) \in Nat /\ Len(p) \in Nat
       /\ Len(stream) \in Nat
  BY <1>1, <1>61, <1>63
<1>11. Len(old \o p) > Len(old) + Len(stream)
  BY <1>9, <1>10
<1> QED BY <1>7, <1>11 DEF m, old

(* A loop that reads has taken out all that has arrived.                   *)
LEMMA StreamHoldsNothing == StreamInv => NothingHeldBack
<1> SUFFICES ASSUME StreamInv, loop = "reading",
                    \A i \in DOMAIN Arrived : Arrived[i].fault # "blank"
             PROVE  Len(received) = Len(Meanings(Arrived))
  BY DEF NothingHeldBack
<1>1. PICK heard, left : Split(heard, left)
  BY DEF StreamInv
<1>2. /\ heard \in Seq(Saying) /\ left \in Seq(Saying) /\ said = heard \o left
      /\ stream \o inbound = AllBytes(left) /\ received = Meanings(heard)
      /\ ~IsSlip(stream) \/ \E i \in DOMAIN heard : heard[i].fault = "blank"
  BY <1>1 DEF Split
<1>3. stream \in Seq(Byte) /\ inbound \in Seq(Byte)
  BY DEF StreamInv
<1> DEFINE N == Len(said)
           k == Len(heard)
           read == Len(AllBytes(said)) - Len(inbound)
           B(n) == Len(AllBytes(SubSeq(said, 1, n)))
           last == CHOOSE n \in 0 .. N : B(n) <= read /\ (n = N \/ ~(B(n + 1) <= read))
<1>4. Arrived = SubSeq(said, 1, last)
  BY Zenon DEF Arrived
<1>5. said \in Seq(Saying) /\ N \in Nat /\ k \in 0 .. N /\ N = k + Len(left)
      /\ SubSeq(said, 1, k) = heard
  <2>1. SubSeq(heard \o left, 1, Len(heard)) = heard
    BY <1>2, CutLeft
  <2>2. said \in Seq(Saying) /\ N \in Nat /\ k \in 0 .. N /\ N = k + Len(left)
    BY <1>2
  <2> QED BY <1>2, <2>1, <2>2
<1>6. read = Len(AllBytes(heard)) + Len(stream) /\ read \in Nat
  <2>1. AllBytes(said) = AllBytes(heard) \o AllBytes(left)
    BY <1>2, AllBytesParts, Zenon
  <2>2. AllBytes(heard) \in Seq(Byte)
    BY <1>2, AllBytesParts
  <2> DEFINE old == AllBytes(heard)
             c == stream \o inbound
  <2>3. AllBytes(said) = old \o c
    BY <1>2, <2>1
  <2>4. Len(c) = Len(stream) + Len(inbound) /\ c \in Seq(Byte) /\ Len(stream) \in Nat
        /\ Len(inbound) \in Nat /\ old \in Seq(Byte)
    BY <1>3, <2>2
  <2> HIDE DEF old, c
  <2>5. Len(old \o c) = Len(old) + Len(c) /\ Len(old) \in Nat
    BY <2>4
  <2> QED BY <2>3, <2>4, <2>5 DEF old
<1>7. \A n \in 0 .. N : B(n) \in Nat /\ \A m \in n .. N : B(n) <= B(m)
  <2> TAKE n \in 0 .. N
  <2>1. SubSeq(said, 1, n) \in Seq(Saying)
    <3>1. n \in Nat /\ n <= Len(said)
      BY <1>5
    <3> QED BY <1>5, <3>1, CutInTwo
  <2>2. AllBytes(SubSeq(said, 1, n)) \in Seq(Byte)
    BY <2>1, AllBytesParts
  <2>3. ASSUME NEW m \in n .. N PROVE B(n) <= B(m)
    <3>1. n \in Nat /\ m \in Nat /\ n <= m /\ m <= Len(said)
      BY <1>5
    <3> QED BY <1>5, <3>1, BeginningsGrow
  <2> QED BY <2>2, <2>3
<1>8. B(k) = Len(AllBytes(heard)) /\ B(0) = 0
  <2>1. SubSeq(said, 1, 0) = <<>>
    BY <1>5
  <2>2. AllBytes(<<>>) = <<>>
    BY AllBytesParts
  <2>3. B(0) = Len(AllBytes(<<>>))
    BY <2>1
  <2>4. B(0) = 0
    BY <2>2, <2>3
  <2>5. B(k) = Len(AllBytes(heard))
    BY <1>5
  <2> QED BY <2>4, <2>5
<1>81. B(k) <= read
  <2>1. Len(stream) \in Nat /\ B(k) \in Nat
    BY <1>3, <1>5, <1>7
  <2> QED BY <1>6, <1>8, <2>1
<1>9. last \in 0 .. N /\ B(last) <= read /\ (last = N \/ ~(B(last + 1) <= read))
  <2> DEFINE W == {n \in Nat : B(n) <= read}
  <2>1. 0 \in W
    BY <1>6, <1>8
  <2> HIDE DEF W
  <2>2. \E n \in 0 .. N : n \in W /\ (n = N \/ n + 1 \notin W)
    BY <1>5, <2>1, LastOf
  <2>3. \A n \in 0 .. N : n \in Nat /\ n + 1 \in Nat
    BY <1>5
  <2> HIDE DEF N, B, read
  <2>4. \E n \in 0 .. N : B(n) <= read /\ (n = N \/ ~(B(n + 1) <= read))
    BY <2>2, <2>3 DEF W
  <2> QED BY <2>4
<1> HIDE DEF N, B, read, last, k
<1>10. last >= k
  <2> SUFFICES ASSUME last < k PROVE FALSE
    BY <1>5, <1>9
  <2>1. last # N /\ last + 1 \in 0 .. N /\ k \in last + 1 .. N
    BY <1>5, <1>9
  <2>2. B(last + 1) <= B(k) /\ B(last + 1) \in Nat /\ B(k) \in Nat
    BY <1>5, <1>7, <2>1
  <2> QED BY <1>6, <1>81, <1>9, <2>1, <2>2
<1>11. \A i \in DOMAIN heard : heard[i].fault # "blank"
  <2> TAKE i \in DOMAIN heard
  <2>1. i \in 1 .. k
    BY <1>2 DEF k
  <2>2. i \in 1 .. last /\ last <= Len(said) /\ last \in Nat
    BY <1>5, <1>9, <1>10, <2>1 DEF N
  <2>3. i \in DOMAIN Arrived /\ Arrived[i] = said[i]
    BY <1>4, <1>5, <2>2
  <2>4. said[i] = heard[i]
    BY <1>2, <2>1 DEF k
  <2> QED BY <2>3, <2>4
<1>12. ~IsSlip(stream)
  BY <1>2, <1>11
<1>13. last = k
  <2> SUFFICES ASSUME last > k PROVE FALSE
    BY <1>5, <1>9, <1>10
  <2>1. k + 1 \in 0 .. N /\ last \in k + 1 .. N /\ Len(left) # 0
    BY <1>5, <1>9
  <2>2. left # <<>>
    BY <2>1
  <2>3. SubSeq(said, 1, k + 1) = heard \o <<Head(left)>>
    <3> DEFINE m == Head(left)
               rest == Tail(left)
               a == heard \o <<m>>
    <3>1. m \in Saying /\ rest \in Seq(Saying) /\ left = <<m>> \o rest
      BY <1>2, <2>2
    <3> HIDE DEF m, rest
    <3>2. a \in Seq(Saying) /\ Len(a) = k + 1
      BY <1>2, <3>1 DEF k
    <3>3. a \o rest = said
      BY <1>2, <3>1
    <3> HIDE DEF a
    <3>4. SubSeq(a \o rest, 1, Len(a)) = a
      BY <3>1, <3>2, CutLeft
    <3> QED BY <3>2, <3>3, <3>4 DEF a, m
  <2>4. B(k + 1) > read
    BY <1>1, <1>6, <1>12, <2>2, <2>3, NextIsIncomplete DEF B
  <2>5. B(k + 1) <= B(last) /\ B(k + 1) \in Nat /\ B(last) \in Nat
    BY <1>7, <1>9, <2>1
  <2> QED BY <1>6, <1>9, <2>4, <2>5
<1>14. Arrived = heard
  BY <1>4, <1>5, <1>13
<1> QED BY <1>2, <1>14

(* When the loop reads again, every frame whose last byte has come has been*)
(* dispatched, as long as no packet was empty.  (readLoop)                 *)
THEOREM WireHoldsNothingBack == Spec => []NothingHeldBack
BY StreamHolds, StreamHoldsNothing, PTL

-----------------------------------------------------------------------------
(* What the gateway reads of a request.                                    *)

(* What the gateway reads, by the code of the request.                     *)
LEMMA UnderstoodAs ==
  ASSUME NEW raw
  PROVE  /\ Extract(raw).command = Code("CommandSendRequest")
            => Understood(raw) = UnmarshalCommandSend(Extract(raw).payload)
         /\ Extract(raw).command = Code("StatusRequestRequest")
            => Understood(raw) = UnmarshalStatusRequest(Extract(raw).payload)
         /\ Extract(raw).command = Code("SetLimitationRequest")
            => Understood(raw) = UnmarshalSetLimitation(Extract(raw).payload)
         /\ Extract(raw).command = Code("GetLimitationRequest")
            => Understood(raw) = UnmarshalGetLimitation(Extract(raw).payload)
<1> DEFINE c == Extract(raw).command
           p == Extract(raw).payload
<1>1. Understood(raw) =
        CASE c = Code("CommandSendRequest")   -> UnmarshalCommandSend(p)
          [] c = Code("StatusRequestRequest") -> UnmarshalStatusRequest(p)
          [] c = Code("SetLimitationRequest") -> UnmarshalSetLimitation(p)
          [] c = Code("GetLimitationRequest") -> UnmarshalGetLimitation(p)
  BY DEF Understood
<1> HIDE DEF c, p
<1>2. c = Code("CommandSendRequest") => Understood(raw) = UnmarshalCommandSend(p)
  BY <1>1, RequestCodesDiffer, Zenon
<1>3. c = Code("StatusRequestRequest") => Understood(raw) = UnmarshalStatusRequest(p)
  BY <1>1, RequestCodesDiffer, Zenon
<1>4. c = Code("SetLimitationRequest") => Understood(raw) = UnmarshalSetLimitation(p)
  BY <1>1, RequestCodesDiffer, Zenon
<1>5. c = Code("GetLimitationRequest") => Understood(raw) = UnmarshalGetLimitation(p)
  BY <1>1, RequestCodesDiffer, Zenon
<1> QED BY <1>2, <1>3, <1>4, <1>5 DEF c, p

(* A request that the gateway does as it was asked.                        *)
Served(a, raw) ==
  raw \in Seq(Byte) /\ raw # <<>> /\ Sound(raw) /\ Does(Understood(raw), a)

(* The request that is built, and its payload.                             *)
Carrying(a, is, p) == Request(a).is = is /\ MarshalPayload(Request(a)) = p

(* What the gateway reads in that payload.                                 *)
Taken(is, p, g) ==
  \A raw : Extract(raw).command = Code(is) /\ Extract(raw).payload = p => Understood(raw) = g

(* What is to be shown of a request.                                       *)
LEMMA Serves ==
  ASSUME NEW a, NEW is, NEW p, NEW n \in 1 .. 252, Sized(p, n), Code(is) \in Number,
         Carrying(a, is, p), NEW g, Taken(is, p, g), Does(g, a)
  PROVE  Served(a, MarshalFrame(Request(a)))
<1> DEFINE c == Code(is)
           raw == BuildFrame(c, p)
<1>1. MarshalFrame(Request(a)) = raw
  BY DEF MarshalFrame, Carrying
<1>2. c \in Number /\ p \in Seq(Byte) /\ Len(p) <= 252
  BY DEF Sized
<1> HIDE DEF c
<1>3. /\ raw \in Seq(Byte) /\ raw # <<>> /\ Sound(raw)
      /\ Extract(raw).command = c /\ Extract(raw).payload = p
  BY <1>2, BuiltSound
<1> HIDE DEF raw
<1>4. Understood(raw) = g
  BY <1>3 DEF c, Taken
<1> QED BY <1>1, <1>3, <1>4 DEF Served

(* The request of a status.                                                *)
LEMMA StatusServed ==
  ASSUME NEW a \in [ask : {"stop", "status"}, session : Number, node : Byte], a.ask = "status"
  PROVE  Served(a, MarshalFrame(Request(a)))
<1> DEFINE f == [is |-> "StatusRequestRequest", session |-> a.session, nodes |-> <<a.node>>]
           p == MarshalStatusRequest(f)
           g == UnmarshalStatusRequest(p)
           n == 26
           is == "StatusRequestRequest"
<1>1. Request(a) = f
  BY Zenon DEF Request
<1>2. a.session \in Number /\ a.node \in Byte
  OBVIOUS
<1>3. f.session = a.session /\ f.nodes = <<a.node>> /\ f.is = "StatusRequestRequest"
  OBVIOUS
<1> HIDE DEF f
<1>4. Sized(p, 26) /\ Word(p, 0) = a.session /\ Nodes(p, 2) = <<a.node>>
  BY <1>2, <1>3, StatusRequestLayout
<1>5. MarshalPayload(f) = p
  BY <1>3, Zenon DEF MarshalPayload
<1> HIDE DEF p
<1>6. g.is = "StatusRequestRequest" /\ g.session = a.session /\ g.nodes = <<a.node>>
  BY <1>4 DEF UnmarshalStatusRequest
<1>7. Taken(is, p, g)
  BY UnderstoodAs, Zenon DEF Taken
<1> HIDE DEF g
<1>8. Does(g, a)
  BY <1>6, Zenon DEF Does
<1>9. n \in 1 .. 252 /\ Sized(p, n) /\ Code(is) \in Number
  BY <1>4, CodesAreNumbers
<1>10. Carrying(a, is, p)
  BY <1>1, <1>3, <1>5 DEF Carrying
<1> HIDE DEF n, is
<1> QED BY <1>7, <1>8, <1>9, <1>10, Serves, Zenon

(* The request of the limitation.                                          *)
LEMMA LimitsServed ==
  ASSUME NEW a \in [ask : {"limits"}, session : Number, node : Byte, type : Byte]
  PROVE  Served(a, MarshalFrame(Request(a)))
<1> DEFINE f == [is |-> "GetLimitationRequest", session |-> a.session, nodes |-> <<a.node>>,
                 type |-> a.type]
           p == MarshalGetLimitation(f)
           g == UnmarshalGetLimitation(p)
           n == 25
           is == "GetLimitationRequest"
<1>0. a.ask = "limits"
  OBVIOUS
<1>1. Request(a) = f
  BY <1>0, Zenon DEF Request
<1>2. a.session \in Number /\ a.node \in Byte /\ a.type \in Byte
  OBVIOUS
<1>3. /\ f.session = a.session /\ f.nodes = <<a.node>> /\ f.is = "GetLimitationRequest"
      /\ f.type = a.type
  OBVIOUS
<1> HIDE DEF f
<1>4. Sized(p, 25) /\ Word(p, 0) = a.session /\ Nodes(p, 2) = <<a.node>> /\ At(p, 24) = a.type
  BY <1>2, <1>3, GetLimitationLayout
<1>5. MarshalPayload(f) = p
  BY <1>3, Zenon DEF MarshalPayload
<1> HIDE DEF p
<1>6. /\ g.is = "GetLimitationRequest" /\ g.session = a.session /\ g.nodes = <<a.node>>
      /\ g.type = a.type
  BY <1>4 DEF UnmarshalGetLimitation
<1>7. Taken(is, p, g)
  BY UnderstoodAs, Zenon DEF Taken
<1> HIDE DEF g
<1>8. Does(g, a)
  BY <1>0, <1>6, Zenon DEF Does
<1>9. n \in 1 .. 252 /\ Sized(p, n) /\ Code(is) \in Number
  BY <1>4, CodesAreNumbers
<1>10. Carrying(a, is, p)
  BY <1>1, <1>3, <1>5 DEF Carrying
<1> HIDE DEF n, is
<1> QED BY <1>7, <1>8, <1>9, <1>10, Serves, Zenon

(* A limitation: both bounds, and its time.                                *)
LEMMA LimitServed ==
  ASSUME NEW a \in [ask : {"limit"}, session : Number, node : Byte, min : 0 .. 100,
                    max : 0 .. 100, seconds : Nat \ {0}]
  PROVE  Served(a, MarshalFrame(Request(a)))
<1> DEFINE low == FromPercent(a.min)
           high == FromPercent(a.max)
           time == LimitationTime(a.seconds)
           f == [is |-> "SetLimitationRequest", session |-> a.session, nodes |-> <<a.node>>,
                 min |-> low, max |-> high, time |-> time]
           p == MarshalSetLimitation(f)
           g == UnmarshalSetLimitation(p)
           n == 31
           is == "SetLimitationRequest"
<1>0. a.ask = "limit"
  OBVIOUS
<1>1. Request(a) = f
  BY <1>0, Zenon DEF Request
<1>2. a.session \in Number /\ a.node \in Byte
  OBVIOUS
<1>20. low \in Number /\ high \in Number /\ low * 100 = a.min * MAX /\ high * 100 = a.max * MAX
  BY PercentsFit
<1>21. /\ time \in Byte
       /\ IF a.seconds > 7590 THEN GetTimeSeconds(time) = 7590
          ELSE GetTimeSeconds(time) - a.seconds \in 0 .. 29
  BY LimitationLasts
<1> HIDE DEF low, high, time
<1>3. /\ f.session = a.session /\ f.nodes = <<a.node>> /\ f.is = "SetLimitationRequest"
      /\ f.min = low /\ f.max = high /\ f.time = time
  OBVIOUS
<1> HIDE DEF f
<1>4. /\ Sized(p, 31) /\ Word(p, 0) = a.session /\ Nodes(p, 4) = <<a.node>>
      /\ Word(p, 26) = low /\ Word(p, 28) = high /\ At(p, 30) = time
  BY <1>2, <1>20, <1>21, <1>3, SetLimitationLayout
<1>5. MarshalPayload(f) = p
  BY <1>3, Zenon DEF MarshalPayload
<1> HIDE DEF p
<1>6. /\ g.is = "SetLimitationRequest" /\ g.session = a.session /\ g.nodes = <<a.node>>
      /\ g.min = low /\ g.max = high /\ g.time = time
  BY <1>4 DEF UnmarshalSetLimitation
<1>7. Taken(is, p, g)
  BY UnderstoodAs, Zenon DEF Taken
<1> HIDE DEF g
<1>8. Does(g, a)
  <2>1. g.min * 100 = a.min * MAX /\ g.max * 100 = a.max * MAX
    BY <1>20, <1>6
  <2>2. IF a.seconds > 7590 THEN GetTimeSeconds(g.time) = 7590
        ELSE GetTimeSeconds(g.time) - a.seconds \in 0 .. 29
    BY <1>21, <1>6
  <2>3. g.session = a.session /\ g.nodes = <<a.node>> /\ g.is = "SetLimitationRequest"
    BY <1>6
  <2> QED BY <1>0, <2>1, <2>2, <2>3 DEF Does
<1>9. n \in 1 .. 252 /\ Sized(p, n) /\ Code(is) \in Number
  BY <1>4, CodesAreNumbers
<1>10. Carrying(a, is, p)
  BY <1>1, <1>3, <1>5 DEF Carrying
<1> HIDE DEF n, is
<1> QED BY <1>7, <1>8, <1>9, <1>10, Serves, Zenon

(* A stop.                                                                 *)
LEMMA StopServed ==
  ASSUME NEW a \in [ask : {"stop", "status"}, session : Number, node : Byte], a.ask = "stop"
  PROVE  Served(a, MarshalFrame(Request(a)))
<1> DEFINE f == [is |-> "CommandSendRequest", session |-> a.session, nodes |-> <<a.node>>,
                 parameter |-> CURRENT, fps |-> <<>>]
           p == MarshalCommandSend(f)
           g == UnmarshalCommandSend(p)
           n == 66
           is == "CommandSendRequest"
<1>1. Request(a) = f
  BY Zenon DEF Request
<1>2. a.session \in Number /\ a.node \in Byte
  OBVIOUS
<1>3. /\ f.session = a.session /\ f.nodes = <<a.node>> /\ f.is = "CommandSendRequest"
      /\ f.parameter = CURRENT /\ DOMAIN f.fps = {}
  OBVIOUS
<1> HIDE DEF f
<1>4. /\ Sized(p, 66) /\ Word(p, 0) = a.session /\ Nodes(p, 41) = <<a.node>>
      /\ At(p, 5) = 0 /\ Word(p, 7) = CURRENT
  <2>1. DOMAIN f.fps # {3}
    BY <1>3
  <2> QED BY <1>2, <1>3, <2>1, SpecialsFit, CommandSendLayout
<1>5. MarshalPayload(f) = p
  BY <1>3, Zenon DEF MarshalPayload
<1> HIDE DEF p
<1>6. /\ g.is = "CommandSendRequest" /\ g.session = a.session /\ g.nodes = <<a.node>>
      /\ g.parameter = CURRENT /\ DOMAIN g.fps = {}
  BY <1>4, CommandRead, ThirdRead
<1>7. Taken(is, p, g)
  BY UnderstoodAs, Zenon DEF Taken
<1> HIDE DEF g
<1>8. Does(g, a)
  BY <1>6, Zenon DEF Does
<1>9. n \in 1 .. 252 /\ Sized(p, n) /\ Code(is) \in Number
  BY <1>4, CodesAreNumbers
<1>10. Carrying(a, is, p)
  BY <1>1, <1>3, <1>5 DEF Carrying
<1> HIDE DEF n, is
<1> QED BY <1>7, <1>8, <1>9, <1>10, Serves, Zenon

(* A position, with the slats of a blind.                                  *)
LEMMA PositionServed ==
  ASSUME NEW a \in [ask : {"position"}, session : Number, node : Byte, percent : 0 .. 100,
                    blind : BOOLEAN]
  PROVE  Served(a, MarshalFrame(Request(a)))
<1> DEFINE slats == IF a.percent = 0 THEN 0 ELSE IGNORE
           value == FromPercent(a.percent)
           fps == [i \in IF a.blind THEN {3} ELSE {} |-> slats]
           f == [is |-> "CommandSendRequest", session |-> a.session, nodes |-> <<a.node>>,
                 parameter |-> value, fps |-> fps]
           p == MarshalCommandSend(f)
           g == UnmarshalCommandSend(p)
           n == 66
           is == "CommandSendRequest"
<1>0. a.ask = "position"
  OBVIOUS
<1>1. Request(a) = f
  BY <1>0, Zenon DEF Request
<1>2. a.session \in Number /\ a.node \in Byte /\ a.blind \in BOOLEAN
  OBVIOUS
<1>20. value \in Number /\ value * 100 = a.percent * MAX
  BY PercentsFit
<1>21. slats \in Number /\ slats = IF a.percent = 0 THEN 0 ELSE IGNORE
  BY SpecialsFit
<1>22. /\ a.blind => DOMAIN fps = {3} /\ fps[3] = slats
       /\ ~a.blind => DOMAIN fps = {}
  <2> HIDE DEF slats
  <2> QED OBVIOUS
<1> HIDE DEF slats, value, fps
<1>3. /\ f.session = a.session /\ f.nodes = <<a.node>> /\ f.is = "CommandSendRequest"
      /\ f.parameter = value /\ f.fps = fps
  OBVIOUS
<1> HIDE DEF f
<1>4. /\ Sized(p, 66) /\ Word(p, 0) = a.session /\ Nodes(p, 41) = <<a.node>>
      /\ Word(p, 7) = value
      /\ At(p, 5) = (IF DOMAIN fps = {} THEN 0 ELSE 32)
      /\ DOMAIN fps = {3} => Word(p, 13) = fps[3]
  <2>1. DOMAIN f.fps = {} \/ DOMAIN f.fps = {3}
    BY <1>2, <1>22, <1>3
  <2>2. DOMAIN f.fps = {3} => f.fps[3] \in Number
    BY <1>2, <1>21, <1>22, <1>3
  <2> QED BY <1>2, <1>20, <1>3, <2>1, <2>2, CommandSendLayout
<1>5. MarshalPayload(f) = p
  BY <1>3, Zenon DEF MarshalPayload
<1> HIDE DEF p
<1>6. /\ g.is = "CommandSendRequest" /\ g.session = a.session /\ g.nodes = <<a.node>>
      /\ g.parameter = value
  BY <1>4, CommandRead
<1>61. /\ a.blind => DOMAIN g.fps = {3} /\ g.fps[3] = slats
       /\ ~a.blind => DOMAIN g.fps = {}
  BY <1>22, <1>4, ThirdRead
<1>7. Taken(is, p, g)
  BY UnderstoodAs, Zenon DEF Taken
<1> HIDE DEF g
<1>8. Does(g, a)
  <2>1. g.parameter * 100 = a.percent * MAX
    BY <1>20, <1>6
  <2>2. DOMAIN g.fps = IF a.blind THEN {3} ELSE {}
    BY <1>61
  <2>3. a.blind => g.fps[3] = IF a.percent = 0 THEN 0 ELSE IGNORE
    BY <1>21, <1>61
  <2> QED BY <1>0, <1>6, <2>1, <2>2, <2>3, Zenon DEF Does
<1>9. n \in 1 .. 252 /\ Sized(p, n) /\ Code(is) \in Number
  BY <1>4, CodesAreNumbers
<1>10. Carrying(a, is, p)
  BY <1>1, <1>3, <1>5 DEF Carrying
<1> HIDE DEF n, is
<1> QED BY <1>7, <1>8, <1>9, <1>10, Serves, Zenon

(* Every request is sound, and does what was asked.                        *)
THEOREM RequestsServed ==
  \A a \in Ask : Served(a, MarshalFrame(Request(a)))
<1> SUFFICES ASSUME NEW a \in Ask PROVE Served(a, MarshalFrame(Request(a)))
  OBVIOUS
<1>1. CASE a \in [ask : {"position"}, session : Number, node : Byte, percent : 0 .. 100,
                  blind : BOOLEAN]
  BY <1>1, PositionServed
<1>2. CASE a \in [ask : {"stop", "status"}, session : Number, node : Byte]
  <2>1. a.ask = "stop" \/ a.ask = "status"
    BY <1>2
  <2> QED BY <1>2, <2>1, StopServed, StatusServed
<1>3. CASE a \in [ask : {"limit"}, session : Number, node : Byte, min : 0 .. 100,
                  max : 0 .. 100, seconds : Nat \ {0}]
  BY <1>3, LimitServed
<1>4. CASE a \in [ask : {"limits"}, session : Number, node : Byte, type : Byte]
  BY <1>4, LimitsServed
<1> QED BY <1>1, <1>2, <1>3, <1>4, Zenon DEF Ask

-----------------------------------------------------------------------------
(* The writers.                                                            *)

(* The packets of the client are those of RFC 1055.                        *)
LEMMA PackIsRfc == \A raw \in Seq(Byte) : SlipPack(raw) = RfcPack(raw)
BY EncodeIsStuffing DEF SlipPack, RfcPack, Stuffing

(* The stream of the writes, one packet for each request.                  *)
WriteInv ==
  LET packets == RfcUnpack(outbound) IN
  /\ todo \in Seq(Ask) /\ asked \in Seq(Ask)
  /\ Complete(outbound)
  /\ packets \in Seq(Seq(Byte)) /\ Len(packets) = Len(asked)
  /\ \A i \in DOMAIN asked : Served(asked[i], packets[i])

(* At the start nothing is written.                                        *)
LEMMA WriteInit == Init => WriteInv
<1> SUFFICES ASSUME Init PROVE WriteInv
  OBVIOUS
<1>1. PICK t \in Traffic : todo = t.out /\ asked = <<>> /\ outbound = <<>>
  BY DEF Init
<1>2. todo \in Seq(Ask)
  BY <1>1, TrafficAssumption
<1>3. RfcUnpack(<<>>) = <<>>
  <2> DEFINE F == [i \in DOMAIN <<>> |-> Found(<<>>, i)]
  <2>1. F = <<>>
    OBVIOUS
  <2>2. RfcUnpack(<<>>) = FlattenSeq(F)
    BY UnpackIsFound
  <2> HIDE DEF F
  <2> QED BY <2>1, <2>2, FlattenEmpty
<1>4. /\ <<>> \in Seq(Ask) /\ <<>> \in Seq(Byte) /\ <<>> \in Seq(Seq(Byte))
      /\ Len(<<>>) = 0 /\ DOMAIN <<>> = {}
  OBVIOUS
<1>5. asked \in Seq(Ask) /\ Complete(outbound)
  <2>1. asked \in Seq(Ask)
    BY <1>1, <1>4
  <2>2. Complete(<<>>)
    BY <1>4 DEF Complete
  <2> QED BY <1>1, <2>1, <2>2
<1>6. RfcUnpack(outbound) = <<>>
  BY <1>1, <1>3
<1> QED BY <1>1, <1>2, <1>4, <1>5, <1>6 DEF WriteInv

(* A write is one packet more, of the request that was asked.              *)
LEMMA WriteStep ==
  ASSUME WriteInv, Write PROVE WriteInv'
<1> DEFINE a == Head(todo)
           raw == MarshalFrame(Request(a))
           packets == RfcUnpack(outbound)
           after == RfcUnpack(outbound')
<1>1. /\ todo # <<>> /\ todo' = Tail(todo) /\ asked' = Append(asked, a)
      /\ outbound' = outbound \o SlipPack(raw)
  BY DEF Write
<1>2. /\ todo \in Seq(Ask) /\ asked \in Seq(Ask) /\ Complete(outbound)
      /\ packets \in Seq(Seq(Byte)) /\ Len(packets) = Len(asked)
      /\ \A i \in DOMAIN asked : Served(asked[i], packets[i])
  BY DEF WriteInv
<1>3. a \in Ask /\ Tail(todo) \in Seq(Ask)
  BY <1>1, <1>2
<1> HIDE DEF a
<1>4. Served(a, raw)
  BY <1>3, RequestsServed
<1>5. raw \in Seq(Byte) /\ raw # <<>>
  BY <1>4 DEF Served
<1> HIDE DEF raw
<1>6. outbound' = outbound \o RfcPack(raw)
  BY <1>1, <1>5, PackIsRfc
<1>7. Complete(outbound') /\ after = packets \o <<raw>>
  BY <1>2, <1>5, <1>6, UnpackAppend
<1> HIDE DEF packets, after
<1> DEFINE n == Len(asked)
<1>8. /\ after \in Seq(Seq(Byte)) /\ Len(after) = n + 1 /\ after[n + 1] = raw
      /\ \A i \in 1 .. n : after[i] = packets[i]
  <2> DEFINE S == Seq(Byte)
             one == <<raw>>
  <2>1. packets \in Seq(S) /\ Len(packets) = n
    BY <1>2
  <2>2. one \in Seq(S) /\ Len(one) = 1 /\ one[1] = raw /\ 1 \in 1 .. 1
    BY <1>5
  <2>3. after = packets \o one
    BY <1>7
  <2> HIDE DEF S, one, n
  <2>4. /\ packets \o one \in Seq(S) /\ Len(packets \o one) = Len(packets) + Len(one)
        /\ \A i \in 1 .. Len(packets) : (packets \o one)[i] = packets[i]
        /\ \A i \in 1 .. Len(one) : (packets \o one)[Len(packets) + i] = one[i]
    BY <2>1, <2>2, Joined
  <2> QED BY <2>1, <2>2, <2>3, <2>4 DEF S
<1>9. /\ asked' \in Seq(Ask) /\ Len(asked') = n + 1 /\ asked'[n + 1] = a
      /\ \A i \in 1 .. n : asked'[i] = asked[i]
  BY <1>1, <1>2, <1>3
<1>10. ASSUME NEW i \in DOMAIN asked' PROVE Served(asked'[i], after[i])
  <2>1. i \in 1 .. n \/ i = n + 1
    BY <1>2, <1>9
  <2>2. CASE i \in 1 .. n
    <3>1. i \in DOMAIN asked
      BY <1>2, <2>2
    <3>2. after[i] = packets[i] /\ asked'[i] = asked[i]
      BY <1>8, <1>9, <2>2
    <3>3. Served(asked[i], packets[i])
      BY <1>2, <3>1
    <3> QED BY <3>2, <3>3
  <2>3. CASE i = n + 1
    <3> HIDE DEF n
    <3> QED BY <1>4, <1>8, <1>9, <2>3
  <2> QED BY <2>1, <2>2, <2>3
<1>11. todo' \in Seq(Ask) /\ Len(after) = Len(asked')
  BY <1>1, <1>3, <1>8, <1>9
<1> QED BY <1>7, <1>8, <1>9, <1>10, <1>11 DEF WriteInv, after

(* The invariant of the writers holds, whatever is asked.  (Conn.Write,    *)
(* SlipPack)                                                               *)
THEOREM WriteHolds == Spec => []WriteInv
<1>1. ASSUME WriteInv, [Next]_vars PROVE WriteInv'
  <2>1. CASE Write
    BY <1>1, <2>1, WriteStep
  <2>2. CASE UNCHANGED writers
    BY <1>1, <2>2 DEF writers, WriteInv
  <2>3. Read \/ Packet \/ Rest \/ UNCHANGED vars => UNCHANGED writers
    BY DEF Read, Packet, Rest, vars
  <2> QED BY <1>1, <2>1, <2>2, <2>3 DEF Next
<1> QED BY <1>1, WriteInit, PTL DEF Spec

(* The gateway finds in the bytes of the writes one sound frame for each   *)
(* request, in their order, that does what was asked.  (Conn.Write,        *)
(* SlipEncode, BuildFrame, MarshalPayload, positionFromPercent,            *)
(* NewLimitationTime)                                                      *)
THEOREM WireWritesIntact == Spec => []OutgoingIntact
<1>1. WriteInv => OutgoingIntact
  BY DEF WriteInv, OutgoingIntact, Served
<1> QED BY <1>1, WriteHolds, PTL
=============================================================================
