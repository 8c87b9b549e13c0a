---------------------------- MODULE Cover_proofs ----------------------------
(***************************************************************************)
(* Proofs about Cover, for every set of devices, positions and handlers    *)
(* and every bound on loads and frames.                                    *)
(*                                                                         *)
(* BrokerIsCurrent speaks of the moments when nothing is under way.  Its   *)
(* induction follows a position from the gateway to the broker: the last   *)
(* report on the wire is where the device is (Faithful), the node is what  *)
(* the last report that left the wire said (NodeIsRight), and what is      *)
(* shown is what the node said when the last UpdateNode read it, or        *)
(* another UpdateNode will begin (ShownIsRight, KeepOpenIsRight).  For the *)
(* latter nobody else may be inside UpdateNode (Alone).                    *)
(***************************************************************************)
EXTENDS Cover, SequenceTheorems, TLAPS

Updating == {"update"} \cup Inside

(* Where each kind of thread can be.                                       *)
Places ==
  /\ pc["loop"] \in {"idle", "setTarget"} \cup Updating
  /\ pc["driver"] \in {"idle", "connect", "request", "load", "clear", "add", "hook", "subscribe"}
                        \cup Updating
  /\ \A h \in Handlers : pc[h] \in {"idle", "send", "wait", "limits"} \cup Updating

(* Every node of the collection has its cover, but for the newest until    *)
(* the driver has given it one; threads work on nodes that were loaded.    *)
Collection ==
  /\ hooked = 1 .. (IF pc["driver"] = "hook" THEN loads - 1 ELSE loads)
  /\ route \in {0} \cup hooked
  /\ pc["driver"] \in {"connect", "request", "load", "clear", "add"} => loads < MaxLoads
  /\ pc["driver"] \in {"hook", "subscribe"} \cup Updating => loads # 0
  /\ pc["driver"] \in Updating => on["driver"] = loads
  /\ pc["loop"] # "idle" => on["loop"] \in 1 .. loads
  /\ pc["loop"] \in Updating => on["loop"] \in hooked
  /\ \A h \in Handlers : pc[h] # "idle" => on[h] \in hooked

(* A session has a collection once the driver is through with it; the read *)
(* loop of a session that is over has one frame left to finish.            *)
Session ==
  /\ pc["driver"] = "connect" => ~linked
  /\ linked /\ pc["driver"] = "idle" => loads # 0
  /\ ~linked => IF pc["loop"] = "idle" THEN wire = <<>> ELSE Tail(wire) = <<>>
  /\ pc["loop"] # "idle" => wire # <<>> /\ Head(wire).is # "cfm"

(* While no report was missed the read loop works on the present node.     *)
LoopIsCurrent ==
  pc["loop"] # "idle" /\ (~missed \/ pc["driver"] \in {"request", "load"}) =>
    on["loop"] = loads /\ ~Replacing

-----------------------------------------------------------------------------
(* From the gateway to the node.                                           *)

NoReport(w) == \A i \in DOMAIN w : w[i].is = "cfm"

(* The last report of w, if there is one, says p and t.                    *)
LastSays(w, p, t) ==
  \A i \in DOMAIN w :
    w[i].is # "cfm" /\ (\A j \in DOMAIN w : j > i => w[j].is = "cfm")
      => w[i].pos = p /\ w[i].target = t

AllUnknown(w) == \A i \in DOMAIN w : w[i].is # "cfm" => w[i].pos = Unknown

Faithful ==
  linked => LastSays(wire, Pos, goal) /\ (vague => AllUnknown(wire))

(* The driver's states in which the collection is that of this session.    *)
Settled == pc["driver"] \in {"idle", "hook", "subscribe"} \cup Updating

NodeIsRight ==
  linked /\ ~device.blind =>
    /\ vague /\ Replacing => pulled.pos = Unknown
    /\ vague /\ Settled => node[loads].pos = Unknown
    /\ ~missed /\ Replacing /\ NoReport(wire) => pulled.pos = Pos /\ pulled.target = goal
    /\ ~missed /\ Settled /\ NoReport(wire) => node[loads].pos = Pos /\ node[loads].target = goal
    /\ ~missed /\ Settled /\ pc["loop"] # "idle" /\ NoReport(Tail(wire)) =>
         /\ node[loads].pos = Pos
         /\ pc["loop"] # "setTarget" => node[loads].target = goal

-----------------------------------------------------------------------------
(* From the node to the broker.                                            *)

Registering == pc["driver"] \in {"hook", "subscribe", "update"}

(* Another UpdateNode will begin.                                          *)
Due == Registering \/ \E t \in Threads : pc[t] = "update"
Heard == pc["loop"] \in {"idle", "setTarget"} /\ ~NoReport(wire)

Alone ==
  ~doubtful =>
    \A t \in Threads : pc[t] \in Inside =>
      /\ Registering \/ on[t] = loads
      /\ \A u \in Threads : pc[u] \in Inside => u = t

ShownAs(n) ==
  /\ shown.position = ValidatePosition(n.pos)
  /\ shown.state = CoverState(n.pos, n.target, device.inverted)

Halfway(t, n) ==
  /\ pc[t] \in {"target", "showPosition", "showState"} => seen[t].pos = n.pos
  /\ pc[t] \in {"showPosition", "showState"} => seen[t].target = n.target
  /\ pc[t] = "showState" => shown.position = ValidatePosition(n.pos)
  /\ pc[t] \in {"limit", "showLimit"} => ShownAs(n)

ShownIsRight ==
  ~doubtful /\ ~missed /\ linked /\ ~device.blind /\ Settled /\ ~Due /\ ~Heard =>
    /\ \A t \in Threads : pc[t] \in Inside => Halfway(t, node[loads])
    /\ (\A t \in Threads : pc[t] \notin Inside) => ShownAs(node[loads])

KeepOpenIsRight ==
  ~doubtful /\ loads # 0 /\ ~Due =>
    /\ \A t \in Threads : pc[t] = "showLimit" => seen[t].max = node[loads].max
    /\ (\A t \in Threads : pc[t] \notin Inside) =>
         (shown.keepopen = "on" <=> node[loads].max = 0)

(* What a command asks for, and where the last one sends the device.       *)
OrderIsKept ==
  /\ \A h \in Handlers :
       /\ cmd[h].is = "OPEN" => cmd[h].to = PositionOpen
       /\ cmd[h].is = "CLOSE" => cmd[h].to = PositionClosed
  /\ order = "OPEN" => goal = PositionOpen
  /\ order = "CLOSE" => goal = PositionClosed

IInv ==
  /\ TypeOK /\ Places /\ Collection /\ Session /\ LoopIsCurrent
  /\ Faithful /\ NodeIsRight /\ Alone /\ ShownIsRight /\ KeepOpenIsRight /\ OrderIsKept

-----------------------------------------------------------------------------
(* What the invariant says when nothing is under way.                      *)

LEMMA IsCurrent == IInv => BrokerIsCurrent
<1> SUFFICES ASSUME IInv, Quiet, ~doubtful PROVE BrokerIsCurrent
  BY DEF BrokerIsCurrent
<1>1. /\ \A t \in Threads : pc[t] = "idle"
      /\ linked /\ wire = <<>> /\ NoReport(wire) /\ "driver" \in Threads
  BY DEF Quiet, NoReport, Threads
<1>2. ~Due /\ ~Heard /\ Settled /\ loads # 0 /\ \A t \in Threads : pc[t] \notin Inside
  BY <1>1 DEF Due, Registering, Heard, Settled, Inside, IInv, Session
<1>3. shown.keepopen = "on" <=> node[loads].max = 0
  BY <1>2 DEF IInv, KeepOpenIsRight
<1>4. ASSUME ~device.blind, ~missed
      PROVE  /\ shown.position = ValidatePosition(Pos)
             /\ shown.state = CoverState(Pos, goal, device.inverted)
  <2>1. node[loads].pos = Pos /\ node[loads].target = goal
    BY <1>1, <1>2, <1>4 DEF IInv, NodeIsRight
  <2>2. ShownAs(node[loads])
    BY <1>1, <1>2, <1>4 DEF IInv, ShownIsRight
  <2> QED BY <2>1, <2>2 DEF ShownAs
<1> QED BY <1>3, <1>4 DEF BrokerIsCurrent

LEMMA Meaning == IInv => CommandsMeanWhatTheySay
<1> SUFFICES ASSUME IInv, Quiet, ~doubtful, ~missed, ~device.blind, ~vague
             PROVE  CommandsMeanWhatTheySay
  BY DEF CommandsMeanWhatTheySay
<1>1. /\ shown.position = ValidatePosition(at)
      /\ shown.state = CoverState(at, goal, device.inverted)
  BY IsCurrent DEF BrokerIsCurrent, Pos
<1>2. at \in 0 .. 100 /\ goal \in 0 .. 100 /\ device.inverted \in BOOLEAN
  BY CoverAssumption DEF IInv, TypeOK, Device
<1>3. /\ shown.position = at
      /\ shown.state = DeriveState(at, goal, device.inverted)
  BY <1>1, <1>2 DEF ValidatePosition, CoverState, ValidateTarget, Valid
<1>4. ASSUME order = "OPEN"
      PROVE  IF at = goal THEN shown.state = "open" /\ shown.position = PositionOpen
                          ELSE shown.state = "opening"
  <2>1. goal = PositionOpen
    BY <1>4 DEF IInv, OrderIsKept
  <2> QED BY <1>2, <1>3, <2>1 DEF PositionOpen, DeriveState, Shut
<1>5. ASSUME order = "CLOSE"
      PROVE  IF at = goal THEN shown.state = "closed" /\ shown.position = PositionClosed
                          ELSE shown.state = "closing"
  <2>1. goal = PositionClosed
    BY <1>5 DEF IInv, OrderIsKept
  <2> QED BY <1>2, <1>3, <2>1 DEF PositionClosed, DeriveState, Shut
<1> QED BY <1>4, <1>5 DEF CommandsMeanWhatTheySay

-----------------------------------------------------------------------------
(* Sequences of frames.                                                    *)

LEMMA TailFacts ==
  ASSUME NEW S, NEW w \in Seq(S), w # <<>>
  PROVE  /\ Head(w) = w[1] /\ Head(w) \in S /\ Tail(w) \in Seq(S)
         /\ Len(w) \in Nat \ {0} /\ Len(Tail(w)) = Len(w) - 1
         /\ DOMAIN w = 1 .. Len(w) /\ DOMAIN Tail(w) = 1 .. (Len(w) - 1)
         /\ \A i \in 1 .. (Len(w) - 1) : Tail(w)[i] = w[i + 1]
OBVIOUS

LEMMA AppendFacts ==
  ASSUME NEW S, NEW w \in Seq(S), NEW e \in S
  PROVE  /\ Append(w, e) \in Seq(S)
         /\ Len(w) \in Nat /\ DOMAIN w = 1 .. Len(w)
         /\ DOMAIN Append(w, e) = 1 .. (Len(w) + 1)
         /\ Append(w, e)[Len(w) + 1] = e
         /\ \A i \in 1 .. Len(w) : Append(w, e)[i] = w[i]
OBVIOUS

LEMMA TailReports ==
  ASSUME NEW w \in Seq(Frames), w # <<>>
  PROVE  /\ \A p, t : LastSays(w, p, t) => LastSays(Tail(w), p, t)
         /\ AllUnknown(w) => AllUnknown(Tail(w))
         /\ NoReport(w) => NoReport(Tail(w))
         /\ Head(w).is = "cfm" => (NoReport(w) <=> NoReport(Tail(w)))
         /\ Head(w).is # "cfm" => ~NoReport(w)
         /\ \A p, t : LastSays(w, p, t) /\ Head(w).is # "cfm" /\ NoReport(Tail(w)) =>
              Head(w).pos = p /\ Head(w).target = t
<1>0. \A w1, p, t : LastSays(w1, p, t) <=>
          \A i \in DOMAIN w1 :
            w1[i].is # "cfm" /\ (\A j \in DOMAIN w1 : j > i => w1[j].is = "cfm")
              => w1[i].pos = p /\ w1[i].target = t
  BY DEF LastSays
<1> USE TailFacts
<1>1. ASSUME NEW p, NEW t, LastSays(w, p, t) PROVE LastSays(Tail(w), p, t)
  <2> SUFFICES ASSUME NEW i \in DOMAIN Tail(w), Tail(w)[i].is # "cfm",
                      \A j \in DOMAIN Tail(w) : j > i => Tail(w)[j].is = "cfm"
               PROVE  Tail(w)[i].pos = p /\ Tail(w)[i].target = t
    BY <1>0
  <2>1. i + 1 \in DOMAIN w /\ w[i + 1] = Tail(w)[i]
    OBVIOUS
  <2>2. ASSUME NEW j \in DOMAIN w, j > i + 1 PROVE w[j].is = "cfm"
    <3>1. j - 1 \in DOMAIN Tail(w) /\ j - 1 > i /\ Tail(w)[j - 1] = w[j]
      BY <2>2
    <3> QED BY <3>1
  <2> QED BY <1>1, <2>1, <2>2 DEF LastSays
<1>2. AllUnknown(w) => AllUnknown(Tail(w))
  BY DEF AllUnknown
<1>3. NoReport(w) => NoReport(Tail(w))
  BY DEF NoReport
<1>4. Head(w).is # "cfm" => ~NoReport(w)
  BY DEF NoReport
<1>5. ASSUME NoReport(Tail(w)) PROVE \A j \in DOMAIN w : j > 1 => w[j].is = "cfm"
  <2> SUFFICES ASSUME NEW j \in DOMAIN w, j > 1 PROVE w[j].is = "cfm"
    OBVIOUS
  <2>1. j - 1 \in DOMAIN Tail(w) /\ Tail(w)[j - 1] = w[j]
    OBVIOUS
  <2> QED BY <1>5, <2>1 DEF NoReport
<1>6. Head(w).is = "cfm" => (NoReport(w) <=> NoReport(Tail(w)))
  BY <1>3, <1>5 DEF NoReport
<1>7. \A p, t : LastSays(w, p, t) /\ Head(w).is # "cfm" /\ NoReport(Tail(w)) =>
        Head(w).pos = p /\ Head(w).target = t
  BY <1>5 DEF LastSays
<1> QED BY <1>1, <1>2, <1>3, <1>4, <1>6, <1>7

LEMMA AppendReport ==
  ASSUME NEW w \in Seq(Frames), NEW r \in Reports
  PROVE  /\ LastSays(Append(w, r), r.pos, r.target)
         /\ r.pos = Unknown /\ AllUnknown(w) => AllUnknown(Append(w, r))
         /\ ~NoReport(Append(w, r))
<1>1. r \in Frames /\ r.is # "cfm"
  BY DEF Frames, Reports
<1> QED BY <1>1, AppendFacts DEF LastSays, AllUnknown, NoReport

LEMMA AppendAnswer ==
  ASSUME NEW w \in Seq(Frames), NEW a \in Answers
  PROVE  /\ \A p, t : LastSays(w, p, t) => LastSays(Append(w, a), p, t)
         /\ AllUnknown(w) => AllUnknown(Append(w, a))
         /\ NoReport(w) <=> NoReport(Append(w, a))
<1>1. a \in Frames /\ a.is = "cfm"
  BY DEF Frames, Answers
<1> QED BY <1>1, AppendFacts DEF LastSays, AllUnknown, NoReport

-----------------------------------------------------------------------------
(* Types.                                                                  *)

LEMMA Values ==
  /\ Stops \subseteq Readings /\ Current \in Readings /\ Unknown \in Readings
  /\ 0 \in Stops /\ 100 \in Stops /\ Readings \subseteq Nat
  /\ \A p \in Readings : ValidatePosition(p) \in Stops
  /\ \A p \in Readings : Valid(p) => p \in Stops
BY CoverAssumption DEF Readings, Current, Unknown, ValidatePosition, Valid

LEMMA Names ==
  /\ "loop" \in Threads /\ "driver" \in Threads /\ Handlers \subseteq Threads
  /\ "loop" \notin Handlers /\ "driver" \notin Handlers
  /\ Threads = {"loop", "driver"} \cup Handlers
BY CoverAssumption DEF Threads

LEMMA HeadOfWire ==
  ASSUME TypeOK, wire # <<>>
  PROVE  /\ Head(wire) \in Frames /\ Tail(wire) \in Seq(Frames)
         /\ Head(wire).is # "cfm" => Head(wire) \in Reports
         /\ Head(wire).is # "cfm" =>
              Head(wire).pos \in Stops \cup {Unknown} /\ Head(wire).target \in Stops
         /\ Head(wire).is = "cfm" => Head(wire) \in Answers
<1>1. Head(wire) \in Frames /\ Tail(wire) \in Seq(Frames)
  BY TailFacts DEF TypeOK
<1> QED BY <1>1 DEF Frames, Reports, Answers

Reading == wire # <<>> /\ Head(wire).is # "cfm"

Moved == /\ pc' \in [Threads -> Labels] /\ on' \in [Threads -> {0} \cup Loads]
         /\ wire' \in Seq(Frames) /\ pulled' \in [pos : Readings, target : Readings]

LEMMA FinishTypes ==
  ASSUME TypeOK, NEW t \in Threads, Finish(t), t = "loop" => Reading
  PROVE  Moved
<1>1. /\ pc' = [pc EXCEPT ![t] = "idle", !["driver"] = IF Answered(t) THEN "clear" ELSE @]
      /\ on' = [on EXCEPT ![t] = 0]
      /\ wire' = IF t = "loop" THEN Tail(wire) ELSE wire
      /\ pulled' = IF Answered(t) THEN [pos |-> Head(wire).pos, target |-> Head(wire).target]
                   ELSE pulled
  BY DEF Finish
<1>2. pc' \in [Threads -> Labels] /\ on' \in [Threads -> {0} \cup Loads]
  BY <1>1 DEF TypeOK, Labels
<1>3. wire' \in Seq(Frames)
  BY <1>1, HeadOfWire DEF TypeOK, Reading
<1>4. pulled' \in [pos : Readings, target : Readings]
  BY <1>1, HeadOfWire, Values DEF TypeOK, Answered, Reading
<1> QED BY <1>2, <1>3, <1>4 DEF Moved

LEMMA AfterUpdateTypes ==
  ASSUME TypeOK, NEW t \in Threads, NEW g \in Loads, AfterUpdate(t, g), t = "loop" => Reading
  PROVE  Moved
<1>1. CASE g \in hooked
  BY <1>1 DEF AfterUpdate, Goto, TypeOK, Moved, Labels
<1>2. CASE g \notin hooked
  BY <1>2, FinishTypes DEF AfterUpdate
<1> QED BY <1>1, <1>2

LEMMA NodeOfThread ==
  ASSUME TypeOK, Places, Collection, NEW t \in Threads, pc[t] \in Updating
  PROVE  on[t] \in hooked /\ on[t] \in Loads /\ on[t] \in 1 .. loads
<1>1. on[t] \in hooked
  <2>1. CASE t = "driver"
    <3>1. pc["driver"] # "hook" /\ loads # 0 /\ on["driver"] = loads
      BY <2>1 DEF Collection, Updating, Inside
    <3>2. loads \in Nat
      BY CoverAssumption DEF TypeOK, Loads
    <3> QED BY <2>1, <3>1, <3>2 DEF Collection
  <2>2. CASE t = "loop"
    BY <2>2 DEF Collection
  <2>3. CASE t \in Handlers
    BY <2>3 DEF Collection, Updating, Inside
  <2> QED BY <2>1, <2>2, <2>3, Names
<1>2. hooked \subseteq Loads /\ hooked \subseteq 1 .. loads
  BY CoverAssumption DEF TypeOK, Collection, Loads
<1> QED BY <1>1, <1>2

LEMMA UpdateNodeTypes ==
  ASSUME TypeOK, Places, Collection, Session, NEW t \in Threads, UpdateNode(t)
  PROVE  TypeOK'
<1> USE DEF deviceVars, nodeVars, auxVars, Goto
<1>0. "update" \in Labels /\ Inside \subseteq Labels /\ "idle" \in Labels
  BY DEF Labels
<1>1. CASE ReadPosition(t)
  <2>1. on[t] \in Loads
    BY <1>1, NodeOfThread DEF ReadPosition, Updating
  <2>2. node[on[t]].pos \in Readings
    BY <2>1 DEF TypeOK, Nodes
  <2>3. seen' \in [Threads -> Nodes]
    BY <1>1, <2>2 DEF ReadPosition, Nodes, TypeOK
  <2>4. doubtful' \in BOOLEAN /\ pc' \in [Threads -> Labels]
    BY <1>1, <1>0 DEF ReadPosition, Disturbed, Inside, TypeOK
  <2> QED BY <1>1, <2>3, <2>4 DEF ReadPosition, TypeOK
<1>2. CASE ReadTarget(t)
  <2>1. on[t] \in Loads
    BY <1>2, NodeOfThread DEF ReadTarget, Updating, Inside
  <2>2. node[on[t]].target \in Readings
    BY <2>1 DEF TypeOK, Nodes
  <2>3. seen' \in [Threads -> Nodes] /\ pc' \in [Threads -> Labels]
    BY <1>2, <2>2, <1>0 DEF ReadTarget, Nodes, TypeOK, Inside
  <2> QED BY <1>2, <2>3 DEF ReadTarget, TypeOK
<1>3. CASE ShowPosition(t)
  <2>1. ValidatePosition(seen[t].pos) \in Stops
    BY Values DEF TypeOK, Nodes
  <2>2. pc' \in [Threads -> Labels]
    BY <1>3, <1>0 DEF ShowPosition, TypeOK, Inside
  <2> QED BY <1>3, <2>1, <2>2 DEF ShowPosition, TypeOK
<1>4. CASE ShowState(t)
  <2>1. \A p, q \in Nat : DeriveState(p, q, device.inverted) \in States
    BY DEF DeriveState, States, Shut
  <2>2. CoverState(seen[t].pos, seen[t].target, device.inverted) \in States
    <3>1. seen[t].pos \in Nat /\ seen[t].target \in Nat
      BY Values DEF TypeOK, Nodes
    <3> QED BY <2>1, <3>1 DEF CoverState, ValidatePosition, ValidateTarget
  <2>3. pc' \in [Threads -> Labels] /\ seen' \in [Threads -> Nodes]
    BY <1>4, <1>0, Values DEF ShowState, TypeOK, Inside, Nothing, Nodes
  <2> QED BY <1>4, <2>2, <2>3 DEF ShowState, TypeOK
<1>5. CASE ReadLimit(t)
  <2>1. on[t] \in Loads
    BY <1>5, NodeOfThread DEF ReadLimit, Updating, Inside
  <2>2. node[on[t]].max \in {0, Ignore}
    BY <2>1 DEF TypeOK, Nodes
  <2>3. seen' \in [Threads -> Nodes] /\ pc' \in [Threads -> Labels]
    BY <1>5, <2>2, <1>0 DEF ReadLimit, Nodes, TypeOK, Inside
  <2> QED BY <1>5, <2>3 DEF ReadLimit, TypeOK
<1>6. CASE ShowLimit(t)
  <2>1. t = "loop" => Reading
    BY <1>6 DEF ShowLimit, Session, Reading
  <2>2. Moved
    BY <1>6, <2>1, FinishTypes DEF ShowLimit
  <2>3. cmd' \in [Handlers -> Command]
    BY <1>6 DEF ShowLimit, TypeOK, NoCommand, Command
  <2>4. seen' \in [Threads -> Nodes]
    BY <1>6, Values DEF ShowLimit, TypeOK, Nothing, Nodes
  <2> QED BY <1>6, <2>2, <2>3, <2>4 DEF ShowLimit, TypeOK, Moved
<1> QED BY <1>1, <1>2, <1>3, <1>4, <1>5, <1>6 DEF UpdateNode

LEMMA NodeWrites ==
  ASSUME TypeOK, NEW g \in Loads
  PROVE  /\ \A p \in Readings : [node EXCEPT ![g].pos = p] \in [Loads -> Nodes]
         /\ \A p \in Readings : [node EXCEPT ![g].target = p] \in [Loads -> Nodes]
         /\ \A p \in {0, Ignore} : [node EXCEPT ![g].max = p] \in [Loads -> Nodes]
         /\ \A p \in Readings :
              [node EXCEPT ![g].target = p, ![g].pos = p] \in [Loads -> Nodes]
<1>1. node \in [Loads -> Nodes] /\ node[g] \in Nodes
  BY DEF TypeOK
<1>2. ASSUME NEW p \in Readings
      PROVE  /\ [node[g] EXCEPT !.pos = p] \in Nodes
             /\ [node[g] EXCEPT !.target = p] \in Nodes
             /\ [[node[g] EXCEPT !.target = p] EXCEPT !.pos = p] \in Nodes
  BY <1>1 DEF Nodes
<1>3. ASSUME NEW p \in {0, Ignore} PROVE [node[g] EXCEPT !.max = p] \in Nodes
  BY <1>1, <1>3 DEF Nodes
<1> QED BY <1>1, <1>2, <1>3

LEMMA ReadLoopTypes ==
  ASSUME TypeOK, Places, Collection, Session, ReadLoop
  PROVE  TypeOK'
<1> USE DEF deviceVars, nodeVars, auxVars, Goto
<1>0. "loop" \in Threads
  BY Names
<1>1. CASE Receive
  <2>1. Reading /\ Collected \in Loads
    BY <1>1 DEF Receive, Reading, Collected, TypeOK
  <2>2. node' \in [Loads -> Nodes]
    <3>1. (IF Valid(Head(wire).pos) THEN Head(wire).pos ELSE node[Collected].pos) \in Readings
      BY <2>1, HeadOfWire, Values DEF TypeOK, Nodes, Reading
    <3> QED BY <1>1, <2>1, <3>1, NodeWrites DEF Receive
  <2>3. Moved
    <3>1. CASE device.blind
      BY <1>0, <1>1, <2>1, <3>1, AfterUpdateTypes DEF Receive
    <3>2. CASE ~device.blind
      BY <1>0, <1>1, <2>1, <3>2 DEF Receive, Moved, TypeOK, Labels
    <3> QED BY <3>1, <3>2
  <2>4. missed' \in BOOLEAN
    BY <1>1 DEF Receive, Replacing
  <2> QED BY <1>1, <2>2, <2>3, <2>4 DEF Receive, TypeOK, Moved
<1>2. CASE SetTarget
  <2>1. Reading /\ on["loop"] \in Loads
    BY <1>2, CoverAssumption DEF SetTarget, Reading, Session, Collection, TypeOK, Loads
  <2>2. node' \in [Loads -> Nodes]
    <3>1. Head(wire).target \in Readings
      BY <2>1, HeadOfWire, Values DEF Reading
    <3> QED BY <1>2, <2>1, <3>1 DEF SetTarget, TypeOK, Nodes
  <2>3. Moved
    BY <1>0, <1>2, <2>1, AfterUpdateTypes DEF SetTarget
  <2> QED BY <1>2, <2>2, <2>3 DEF SetTarget, TypeOK, Moved
<1>3. CASE Unclaimed
  <2>1. Moved
    BY <1>0, <1>3, FinishTypes DEF Unclaimed, Reading
  <2>2. missed' \in BOOLEAN
    BY <1>3 DEF Unclaimed, Replacing
  <2> QED BY <1>3, <2>1, <2>2 DEF Unclaimed, TypeOK, Moved
<1>4. CASE Confirm
  <2>1. Head(wire).for \in Handlers /\ wire' \in Seq(Frames)
    BY <1>4, HeadOfWire DEF Confirm, Answers
  <2>2. pc' \in [Threads -> Labels] /\ on' \in [Threads -> {0} \cup Loads]
        /\ cmd' \in [Handlers -> Command]
    BY <1>4, <2>1, Names DEF Confirm, Over, Confirmed, TypeOK, Labels, NoCommand, Command
  <2> QED BY <1>4, <2>1, <2>2 DEF Confirm, TypeOK
<1> QED BY <1>1, <1>2, <1>3, <1>4 DEF ReadLoop

LEMMA HandlerTypes ==
  ASSUME TypeOK, Places, Collection, NEW h \in Handlers,
         Handle(h) \/ Send(h) \/ Limits(h) \/ Fail(h) \/ Timeout(h)
  PROVE  TypeOK'
<1> USE DEF deviceVars, nodeVars, auxVars, Goto
<1>0. h \in Threads /\ h # "loop"
  BY Names
<1>1. CASE Handle(h)
  <2>1. PICK c \in Payloads, p \in Stops :
          /\ cmd' = [cmd EXCEPT ![h] = [is |-> c, to |-> Parameter(c, p)]]
          /\ node' = IF device.blind /\ c \notin {"ON", "OFF"}
                     THEN [node EXCEPT ![route].target = Parameter(c, p),
                                       ![route].pos = Parameter(c, p)] ELSE node
    BY <1>1 DEF Handle
  <2>2. Parameter(c, p) \in Stops \cup {Current}
    BY Values DEF Parameter
  <2>3. route \in Loads
    BY <1>1 DEF Handle, TypeOK
  <2>4. cmd' \in [Handlers -> Command]
    BY <2>1, <2>2, CoverAssumption DEF TypeOK, Command
  <2>5. node' \in [Loads -> Nodes]
    <3>1. CASE node' = node
      BY <3>1 DEF TypeOK
    <3>2. CASE node' = [node EXCEPT ![route].target = Parameter(c, p), ![route].pos = Parameter(c, p)]
      <4>1. Parameter(c, p) \in Readings
        BY <2>2, Values
      <4> QED BY <2>3, <3>2, <4>1, NodeWrites
    <3> QED BY <2>1, <3>1, <3>2
  <2>6. on' \in [Threads -> {0} \cup Loads] /\ pc' \in [Threads -> Labels]
    BY <1>0, <1>1, <2>3 DEF Handle, TypeOK, Labels
  <2> QED BY <1>1, <2>4, <2>5, <2>6 DEF Handle, TypeOK
<1>2. CASE Send(h)
  <2>1. pc' \in [Threads -> Labels]
    BY <1>0, <1>2 DEF Send, TypeOK, Labels
  <2>2. CASE Reject(h)
    <3>1. [is |-> "cfm", for |-> h, ok |-> FALSE] \in Frames
      BY DEF Frames, Answers
    <3>2. wire' \in Seq(Frames)
      BY <2>2, <3>1, AppendFacts DEF Reject, TypeOK
    <3> QED BY <1>2, <2>1, <2>2, <3>2 DEF Send, Reject, TypeOK
  <2>3. CASE Accept(h)
    <3> DEFINE g == IF cmd[h].to = Current THEN at ELSE Allowed(cmd[h].to)
               yes == [is |-> "cfm", for |-> h, ok |-> TRUE]
    <3>1. yes \in Frames /\ <<yes>> \in Seq(Frames)
      BY DEF Frames, Answers
    <3>2. g \in Stops
      BY Values DEF Allowed, TypeOK, Command
    <3>3. Changed(Pos, g) \in Frames
      BY <3>2 DEF Changed, Pos, Frames, Reports, TypeOK
    <3>4. \/ goal' = goal /\ order' = order /\ limited' \in BOOLEAN /\ wire' = wire \o <<yes>>
          \/ /\ goal' = g /\ order' \in {"OPEN", "CLOSE", "none"} /\ limited' = limited
             /\ wire' = wire \o <<yes>> \o (IF g # goal THEN <<Changed(Pos, g)>> ELSE <<>>)
      BY <2>3 DEF Accept
    <3> HIDE DEF g, yes
    <3>5. wire' \in Seq(Frames)
      <4>1. wire \in Seq(Frames)
        BY DEF TypeOK
      <4>2. wire \o <<yes>> \in Seq(Frames)
        BY <3>1, <4>1
      <4>3. wire \o <<yes>> \o <<>> \in Seq(Frames)
             /\ wire \o <<yes>> \o <<Changed(Pos, g)>> \in Seq(Frames)
        BY <3>3, <4>2
      <4> QED BY <3>4, <4>2, <4>3
    <3>6. goal' \in Stops /\ order' \in {"OPEN", "CLOSE", "none"} /\ limited' \in BOOLEAN
      BY <3>2, <3>4 DEF TypeOK
    <3> QED BY <1>2, <2>1, <3>5, <3>6 DEF Send, TypeOK
  <2> QED BY <1>2, <2>2, <2>3 DEF Send
<1>3. CASE Limits(h)
  <2>1. on[h] \in Loads
    BY <1>3, CoverAssumption DEF Limits, Collection, TypeOK
  <2>2. Moved
    BY <1>0, <1>3, <2>1, AfterUpdateTypes DEF Limits
  <2>3. node' \in [Loads -> Nodes]
    BY <1>3, <2>1 DEF Limits, TypeOK, Nodes
  <2> QED BY <1>3, <2>2, <2>3 DEF Limits, TypeOK, Moved
<1>4. CASE Fail(h) \/ Timeout(h)
  <2>1. Over(h)
    BY <1>4 DEF Fail, Timeout
  <2>2. pc' \in [Threads -> Labels] /\ on' \in [Threads -> {0} \cup Loads]
    BY <1>0, <2>1 DEF Over, TypeOK, Labels
  <2>3. NoCommand \in Command
    BY DEF NoCommand, Command
  <2>4. cmd' \in [Handlers -> Command]
    BY <2>1, <2>3 DEF Over, TypeOK
  <2> QED BY <1>4, <2>2, <2>4 DEF Fail, Timeout, TypeOK
<1> QED BY <1>1, <1>2, <1>3, <1>4

LEMMA GatewayTypes ==
  ASSUME TypeOK, Session, Travel \/ Remote \/ Drop \/ Pulse
  PROVE  TypeOK'
<1> USE DEF deviceVars, nodeVars, auxVars
<1>1. \A p \in Stops \cup {Unknown}, g \in Stops : Changed(p, g) \in Frames
  BY DEF Changed, Frames, Reports
<1>2. \A p \in Stops \cup {Unknown}, g \in Stops : Report(p, g) => wire' \in Seq(Frames)
  BY <1>1, AppendFacts DEF Report, TypeOK
<1>3. CASE Travel
  <2>1. at' \in Stops
    BY <1>3 DEF Travel
  <2> QED BY <1>2, <1>3, <2>1 DEF Travel, TypeOK
<1>4. CASE Remote
  <2>1. goal' \in Stops
    BY <1>4, Values DEF Remote, Allowed
  <2>2. Pos \in Stops \cup {Unknown}
    BY DEF Pos, TypeOK
  <2> QED BY <1>2, <1>4, <2>1, <2>2 DEF Remote, TypeOK
<1>5. CASE Drop
  <2>1. wire' \in Seq(Frames)
    BY <1>5, HeadOfWire DEF Drop, Hangup, Session
  <2> QED BY <1>5, <2>1 DEF Drop, Hangup, TypeOK
<1>6. CASE Pulse
  <2>1. [is |-> "status", pos |-> Pos, target |-> goal] \in Frames
    BY DEF Frames, Reports, TypeOK, Pos
  <2> QED BY <1>6, <2>1, AppendFacts DEF Pulse, TypeOK
<1> QED BY <1>3, <1>4, <1>5, <1>6

LEMMA DriverTypes ==
  ASSUME TypeOK, Collection, Session, Driver
  PROVE  TypeOK'
<1> USE DEF deviceVars, nodeVars, auxVars, Step, Goto
<1>0. "driver" \in Threads /\ pc["driver"] \in Labels
  BY Names DEF TypeOK
<1>1. CASE Disconnect \/ Connect \/ LoadFails \/ Clear
  <2>1. pc' \in [Threads -> Labels]
    BY <1>0, <1>1 DEF Disconnect, Connect, LoadFails, Clear, TypeOK, Labels
  <2>2. wire' \in Seq(Frames)
    <3>1. CASE Hangup
      <4>1. pc["loop"] # "idle" => Head(wire) \in Frames
        BY HeadOfWire DEF Session
      <4> QED BY <3>1, <4>1 DEF Hangup
    <3>2. CASE wire' = wire
      BY <3>2 DEF TypeOK
    <3> QED BY <1>1, <3>1, <3>2 DEF Disconnect, Connect, LoadFails, Clear
  <2>3. vague' \in BOOLEAN /\ linked' \in BOOLEAN
    <3>1. vague' = vague \/ vague' = ("vague" \in Faults)
      BY <1>1 DEF Disconnect, Connect, LoadFails, Clear
    <3>2. linked' \in {linked, TRUE, FALSE}
      BY <1>1 DEF Disconnect, Connect, LoadFails, Clear, Hangup
    <3>3. vague \in BOOLEAN /\ linked \in BOOLEAN /\ ("vague" \in Faults) \in BOOLEAN
      BY DEF TypeOK
    <3>4. vague' \in BOOLEAN
      BY <3>1, <3>3, Zenon
    <3>5. linked' \in BOOLEAN
      BY <3>2, <3>3, Zenon
    <3> QED BY <3>4, <3>5
  <2> QED BY <1>1, <2>1, <2>2, <2>3 DEF Disconnect, Connect, LoadFails, Clear, TypeOK
<1>2. CASE Request
  <2>1. [is |-> "info", pos |-> Pos, target |-> goal] \in Frames
    BY DEF Frames, Reports, TypeOK, Pos
  <2>2. pc' \in [Threads -> Labels]
    BY <1>0, <1>2 DEF Request, TypeOK, Labels
  <2> QED BY <1>2, <2>1, <2>2, AppendFacts DEF Request, TypeOK
<1>3. CASE Add
  <2>1. loads' \in Loads
    BY <1>3, CoverAssumption DEF Add, Collection, TypeOK, Loads
  <2>2. node' \in [Loads -> Nodes] /\ pulled' \in [pos : Readings, target : Readings]
    BY <1>3, <2>1, Values DEF Add, TypeOK, Nodes
  <2>3. pc' \in [Threads -> Labels]
    BY <1>0, <1>3 DEF Add, TypeOK, Labels
  <2> QED BY <1>3, <2>1, <2>2, <2>3 DEF Add, TypeOK
<1>4. CASE Hook \/ Subscribe
  <2>1. loads \in Loads
    BY <1>4, CoverAssumption DEF Hook, Subscribe, Collection, TypeOK, Updating
  <2>2. pc' \in [Threads -> Labels] /\ on' \in [Threads -> {0} \cup Loads]
    BY <1>0, <1>4, <2>1 DEF Hook, Subscribe, TypeOK, Labels
  <2> QED BY <1>4, <2>1, <2>2 DEF Hook, Subscribe, TypeOK
<1> QED BY <1>1, <1>2, <1>3, <1>4 DEF Driver

LEMMA TypeStep ==
  ASSUME TypeOK, Places, Collection, Session, [Next]_vars
  PROVE  TypeOK'
<1>1. CASE UNCHANGED vars
  BY <1>1 DEF vars, deviceVars, nodeVars, auxVars, TypeOK
<1> QED
  BY <1>1, UpdateNodeTypes, ReadLoopTypes, HandlerTypes, GatewayTypes, DriverTypes DEF Next

-----------------------------------------------------------------------------
(* Control: where the threads are and on what they work.                   *)

Control == Places /\ Collection /\ Session /\ LoopIsCurrent

LEMMA Numbers ==
  ASSUME TypeOK
  PROVE  loads \in Nat /\ loads <= MaxLoads /\ MaxLoads \in Nat
BY CoverAssumption DEF TypeOK, Loads

LEMMA Apart ==
  /\ "idle" \notin Updating /\ "update" \in Updating /\ Inside \subseteq Updating
  /\ "update" \notin Inside
  /\ \A l \in {"setTarget", "send", "wait", "limits", "connect", "request", "load", "clear",
               "add", "hook", "subscribe"} : l \notin Updating
BY DEF Updating, Inside

(* The steps of UpdateNode before the last change nothing but the place.   *)
LEMMA WithinUpdateNode ==
  ASSUME TypeOK, Control, NEW t \in Threads,
         ReadPosition(t) \/ ReadTarget(t) \/ ShowPosition(t) \/ ShowState(t) \/ ReadLimit(t)
  PROVE  Control'
<1>1. /\ pc[t] \in Updating
      /\ \E l \in Updating : pc' = [pc EXCEPT ![t] = l]
      /\ UNCHANGED <<on, wire, linked, loads, hooked, route, missed>>
  BY DEF ReadPosition, ReadTarget, ShowPosition, ShowState, ReadLimit, Goto, Updating, Inside,
         nodeVars, auxVars
<1>2. /\ \A u \in Threads : pc'[u] = pc[u] \/ (pc'[u] \in Updating /\ pc[u] \in Updating)
      /\ \A u \in Threads : u # t => pc'[u] = pc[u]
  BY <1>1 DEF TypeOK
<1>3. Places'
  BY <1>2, Names DEF Control, Places
<1>4. Collection'
  BY <1>1, <1>2, Names, Apart DEF Control, Collection
<1>5. Session'
  BY <1>1, <1>2, Names, Apart DEF Control, Session
<1>6. LoopIsCurrent'
  BY <1>1, <1>2, Names, Apart DEF Control, LoopIsCurrent, Replacing
<1> QED BY <1>3, <1>4, <1>5, <1>6 DEF Control

(* A thread is through; if it is the read loop, the driver may have its    *)
(* answer.                                                                 *)
LEMMA FinishControl ==
  ASSUME TypeOK, Control, NEW t \in Threads, Finish(t),
         pc[t] # "idle" \/ (t = "loop" /\ Reading),
         t = "driver" => pc[t] \in Updating,
         UNCHANGED <<linked, loads, hooked, route>>,
         missed' = missed \/ (t = "loop" /\ missed' = Replacing)
  PROVE  Control'
<1> USE Names, Apart DEF Control
<1>1. CASE t = "loop"
  <2>1. Reading /\ "driver" # "loop"
    BY <1>1 DEF Session, Reading
  <2>2. /\ pc'["loop"] = "idle" /\ on'["loop"] = 0 /\ wire' = Tail(wire)
        /\ pc'["driver"] = pc["driver"] \/ (pc["driver"] = "load" /\ pc'["driver"] = "clear")
        /\ \A u \in Threads : u \notin {"loop", "driver"} => pc'[u] = pc[u]
        /\ \A u \in Threads : u # "loop" => on'[u] = on[u]
    BY <1>1 DEF Finish, Answered, TypeOK
  <2>3. Places'
    BY <2>2 DEF Places
  <2>4. Collection'
    BY <2>2 DEF Collection
  <2>5. Session'
    <3>1. ~linked => wire' = <<>>
      BY <2>1, <2>2, TailFacts DEF Session, Reading, TypeOK
    <3> QED BY <2>2, <3>1 DEF Session
  <2>6. LoopIsCurrent'
    BY <2>2 DEF LoopIsCurrent
  <2> QED BY <2>3, <2>4, <2>5, <2>6
<1>2. CASE t # "loop"
  <2>1. wire' = wire /\ missed' = missed /\ ~Answered(t)
    BY <1>2 DEF Finish, Answered
  <2>2. /\ pc'[t] = "idle" /\ \A u \in Threads : u # t => pc'[u] = pc[u] /\ on'[u] = on[u]
    BY <2>1 DEF Finish, TypeOK
  <2>3. Places'
    BY <2>2 DEF Places
  <2>4. Collection'
    BY <2>1, <2>2, <1>2 DEF Collection
  <2>5. Session'
    BY <2>1, <2>2, <1>2 DEF Session, Collection
  <2>6. LoopIsCurrent'
    BY <2>1, <2>2, <1>2 DEF LoopIsCurrent, Replacing
  <2> QED BY <2>3, <2>4, <2>5, <2>6
<1> QED BY <1>1, <1>2

(* A thread begins UpdateNode, or is through.                              *)
LEMMA AfterUpdateControl ==
  ASSUME TypeOK, Control, NEW t \in Threads, NEW g \in 1 .. loads, AfterUpdate(t, g),
         t # "driver",
         t = "loop" => Reading,
         (pc[t] \notin {"idle"} \cup Updating /\ on[t] = g)
           \/ (t = "loop" /\ pc[t] = "idle" /\ g = loads /\ pc["driver"] # "add"),
         UNCHANGED <<linked, loads, hooked, route>>,
         IF pc[t] = "idle" THEN missed' = Replacing ELSE missed' = missed
  PROVE  Control'
<1> USE Names, Apart DEF Control
<1>1. CASE g \notin hooked
  BY <1>1, FinishControl DEF AfterUpdate
<1>2. CASE g \in hooked
  <2>1. /\ pc' = [pc EXCEPT ![t] = "update"] /\ on' = [on EXCEPT ![t] = g]
        /\ UNCHANGED wire
    BY <1>2 DEF AfterUpdate, Goto
  <2>2. /\ pc'[t] = "update" /\ on'[t] = g
        /\ \A u \in Threads : u # t => pc'[u] = pc[u] /\ on'[u] = on[u]
    BY <2>1 DEF TypeOK
  <2>3. Places'
    BY <2>2 DEF Places
  <2>4. Collection'
    BY <2>1, <2>2, <1>2 DEF Collection
  <2>5. Session'
    BY <2>1, <2>2 DEF Session, Reading
  <2>6. LoopIsCurrent'
    BY <2>1, <2>2, <1>2 DEF LoopIsCurrent, Replacing
  <2> QED BY <2>3, <2>4, <2>5, <2>6
<1> QED BY <1>1, <1>2

LEMMA UpdateNodeControl ==
  ASSUME TypeOK, Control, NEW t \in Threads, UpdateNode(t)
  PROVE  Control'
<1>1. CASE ShowLimit(t)
  <2>1. pc[t] = "showLimit" /\ Finish(t) /\ UNCHANGED <<linked, loads, hooked, route, missed>>
    BY <1>1 DEF ShowLimit, auxVars
  <2>2. pc[t] \in Updating /\ pc[t] # "idle"
    BY <2>1 DEF Updating, Inside
  <2> QED BY <2>1, <2>2, FinishControl
<1> QED BY <1>1, WithinUpdateNode DEF UpdateNode

LEMMA ReadLoopControl ==
  ASSUME TypeOK, Control, ReadLoop
  PROVE  Control'
<1> USE Names, Apart DEF Control
<1>1. CASE Receive
  <2>1. /\ Reading /\ pc["loop"] = "idle" /\ Collected = loads /\ loads # 0
        /\ pc["driver"] # "add"
        /\ missed' = Replacing /\ UNCHANGED <<linked, loads, hooked, route>>
    BY <1>1 DEF Receive, Reading, Collected
  <2>2. loads \in 1 .. loads
    BY <2>1, Numbers
  <2>3. CASE device.blind
    BY <1>1, <2>1, <2>2, <2>3, AfterUpdateControl DEF Receive
  <2>4. CASE ~device.blind
    <3>1. /\ pc' = [pc EXCEPT !["loop"] = "setTarget"] /\ on' = [on EXCEPT !["loop"] = loads]
          /\ UNCHANGED wire
      BY <1>1, <2>1, <2>4 DEF Receive, Goto
    <3>2. /\ pc'["loop"] = "setTarget" /\ on'["loop"] = loads
          /\ \A u \in Threads : u # "loop" => pc'[u] = pc[u] /\ on'[u] = on[u]
      BY <3>1 DEF TypeOK
    <3>3. Places' /\ Collection'
      BY <2>1, <2>2, <3>2 DEF Places, Collection
    <3>4. Session'
      BY <2>1, <3>1, <3>2 DEF Session, Reading
    <3>5. LoopIsCurrent'
      BY <2>1, <3>2 DEF LoopIsCurrent, Replacing
    <3> QED BY <3>3, <3>4, <3>5
  <2> QED BY <2>3, <2>4
<1>2. CASE SetTarget
  <2>1. /\ pc["loop"] = "setTarget" /\ AfterUpdate("loop", on["loop"])
        /\ UNCHANGED <<linked, loads, hooked, route, missed>>
    BY <1>2 DEF SetTarget, auxVars
  <2>2. Reading /\ on["loop"] \in 1 .. loads
    BY <2>1 DEF Session, Collection, Reading
  <2> QED BY <2>1, <2>2, AfterUpdateControl
<1>3. CASE Unclaimed
  <2>1. /\ Reading /\ Finish("loop") /\ missed' = Replacing
        /\ UNCHANGED <<linked, loads, hooked, route>>
    BY <1>3 DEF Unclaimed, Reading
  <2> QED BY <2>1, FinishControl
<1>4. CASE Confirm
  <2>1. Head(wire).for \in Handlers /\ wire # <<>> /\ pc["loop"] = "idle" /\ wire' = Tail(wire)
    BY <1>4, HeadOfWire DEF Confirm, Answers
  <2>2. linked
    BY <2>1 DEF Session
  <2>3. /\ \A u \in Threads : u \notin Handlers => pc'[u] = pc[u] /\ on'[u] = on[u]
        /\ UNCHANGED <<linked, loads, hooked, route, missed>>
    BY <1>4, <2>1 DEF Confirm, Goto, Over, TypeOK, nodeVars, auxVars
  <2>4. \A h \in Handlers :
          \/ pc'[h] = pc[h] /\ on'[h] = on[h]
          \/ pc[h] = "wait" /\ pc'[h] \in {"limits", "update"} /\ on'[h] = on[h]
          \/ pc'[h] = "idle"
    BY <1>4, <2>1 DEF Confirm, Confirmed, Goto, Over, TypeOK
  <2>5. Places' /\ Collection'
    BY <2>3, <2>4 DEF Places, Collection
  <2>6. Session'
    BY <2>1, <2>2, <2>3 DEF Session
  <2>7. LoopIsCurrent'
    BY <2>3 DEF LoopIsCurrent, Replacing
  <2> QED BY <2>5, <2>6, <2>7
<1> QED BY <1>1, <1>2, <1>3, <1>4 DEF ReadLoop

(* What Send appends: an answer, and a report if the device changes course.*)
LEMMA SendAppends ==
  ASSUME TypeOK, NEW h \in Handlers, Send(h)
  PROVE  /\ linked /\ UNCHANGED <<device, at, vague>> /\ goal' \in Stops
         /\ \E a \in Answers :
              \/ wire' = Append(wire, a) /\ goal' = goal
              \/ wire' = Append(Append(wire, a), Changed(Pos, goal'))
<1>1. linked /\ UNCHANGED <<device, at, vague>>
  BY DEF Send
<1>2. CASE Reject(h)
  <2>1. [is |-> "cfm", for |-> h, ok |-> FALSE] \in Answers
    BY DEF Answers
  <2> QED BY <1>1, <1>2, <2>1 DEF Reject, TypeOK
<1>3. CASE Accept(h)
  <2> DEFINE g == IF cmd[h].to = Current THEN at ELSE Allowed(cmd[h].to)
             yes == [is |-> "cfm", for |-> h, ok |-> TRUE]
  <2>1. yes \in Answers /\ g \in Stops
    BY Values DEF Answers, Allowed, TypeOK, Command
  <2>2. \/ goal' = goal /\ wire' = wire \o <<yes>>
        \/ /\ goal' = g
           /\ wire' = wire \o <<yes>> \o (IF g # goal THEN <<Changed(Pos, g)>> ELSE <<>>)
    BY <1>3 DEF Accept
  <2> HIDE DEF g, yes
  <2>3. wire \in Seq(Frames) /\ yes \in Frames /\ Changed(Pos, g) \in Frames
    BY <2>1 DEF TypeOK, Frames, Changed, Pos, Reports
  <2>4. /\ wire \o <<yes>> = Append(wire, yes)
        /\ wire \o <<yes>> \o <<>> = Append(wire, yes)
        /\ wire \o <<yes>> \o <<Changed(Pos, g)>> = Append(Append(wire, yes), Changed(Pos, g))
    BY <2>3
  <2>5. CASE goal' = goal /\ wire' = wire \o <<yes>>
    BY <1>1, <2>1, <2>4, <2>5 DEF TypeOK
  <2>6. CASE goal' = g /\ g # goal /\ wire' = wire \o <<yes>> \o <<Changed(Pos, g)>>
    BY <1>1, <2>1, <2>4, <2>6
  <2>7. CASE goal' = g /\ g = goal /\ wire' = wire \o <<yes>> \o <<>>
    BY <1>1, <2>1, <2>4, <2>7
  <2> QED BY <2>2, <2>5, <2>6, <2>7
<1> QED BY <1>2, <1>3 DEF Send

LEMMA HeadOfAppend ==
  ASSUME NEW S, NEW w \in Seq(S), NEW e
  PROVE  /\ Append(w, e) # <<>>
         /\ w # <<>> => Head(Append(w, e)) = Head(w)
<1>1. w \in Seq(S \cup {e}) /\ e \in S \cup {e}
  OBVIOUS
<1> DEFINE T == S \cup {e}
<1>2. w \in Seq(T) /\ e \in T
  BY <1>1
<1> HIDE DEF T
<1> QED BY <1>2

LEMMA HandlerControl ==
  ASSUME TypeOK, Control, NEW h \in Handlers,
         Handle(h) \/ Send(h) \/ Limits(h) \/ Fail(h) \/ Timeout(h)
  PROVE  Control'
<1> USE Names, Apart DEF Control
<1>1. CASE Limits(h)
  <2>1. /\ pc[h] = "limits" /\ AfterUpdate(h, on[h])
        /\ UNCHANGED <<linked, loads, hooked, route, missed>>
    BY <1>1 DEF Limits, auxVars
  <2>2. on[h] \in 1 .. loads
    BY <2>1, Numbers DEF Collection
  <2> QED BY <2>1, <2>2, AfterUpdateControl
<1>2. CASE Handle(h) \/ Send(h) \/ Fail(h) \/ Timeout(h)
  <2>1. /\ \A u \in Threads : u # h => pc'[u] = pc[u] /\ on'[u] = on[u]
        /\ \/ pc'[h] \in {"send", "wait"} /\ on'[h] \in hooked
           \/ pc'[h] = "idle"
        /\ UNCHANGED <<linked, loads, hooked, route, missed>>
    BY <1>2 DEF Handle, Send, Fail, Timeout, Goto, Over, TypeOK, Collection, nodeVars, auxVars
  <2>2. Places' /\ Collection'
    BY <2>1 DEF Places, Collection
  <2>3. LoopIsCurrent'
    BY <2>1 DEF LoopIsCurrent, Replacing
  <2>4. Session'
    <3>1. CASE wire' = wire
      BY <2>1, <3>1 DEF Session
    <3>2. CASE Send(h)
      <4>1. linked /\ wire \in Seq(Frames)
        BY <3>2, SendAppends DEF TypeOK
      <4>2. PICK a \in Answers : \/ wire' = Append(wire, a)
                                 \/ wire' = Append(Append(wire, a), Changed(Pos, goal'))
        BY <3>2, SendAppends
      <4>3. Append(wire, a) \in Seq(Frames)
        BY <4>1, AppendFacts DEF Frames
      <4>4. wire' # <<>> /\ (wire # <<>> => Head(wire') = Head(wire))
        BY <4>1, <4>2, <4>3, HeadOfAppend
      <4> QED BY <2>1, <4>1, <4>4 DEF Session
    <3> QED BY <1>2, <3>1, <3>2 DEF Handle, Fail, Timeout
  <2> QED BY <2>2, <2>3, <2>4
<1> QED BY <1>1, <1>2

LEMMA GatewayControl ==
  ASSUME TypeOK, Control, Travel \/ Remote \/ Drop \/ Pulse
  PROVE  Control'
<1> USE Names, Apart DEF Control
<1>1. UNCHANGED <<pc, on, loads, hooked, route, missed>> /\ wire \in Seq(Frames)
  BY DEF Travel, Remote, Drop, Pulse, nodeVars, auxVars, TypeOK
<1>2. Places' /\ Collection' /\ LoopIsCurrent'
  BY <1>1 DEF Places, Collection, LoopIsCurrent, Replacing
<1>3. CASE Drop
  <2>1. ~linked' /\ wire' = IF pc["loop"] = "idle" THEN <<>> ELSE <<Head(wire)>>
    BY <1>3 DEF Drop, Hangup
  <2> QED BY <1>1, <1>2, <2>1 DEF Session
<1>4. CASE Travel \/ Remote \/ Pulse
  <2>1. linked' = linked /\ (wire' = wire \/ (linked /\ \E f : wire' = Append(wire, f)))
    BY <1>4 DEF Travel, Remote, Pulse, Report
  <2>2. wire # <<>> => wire' # <<>> /\ Head(wire') = Head(wire)
    BY <1>1, <2>1, HeadOfAppend
  <2> QED BY <1>1, <1>2, <2>1, <2>2 DEF Session
<1> QED BY <1>3, <1>4

LEMMA DriverControl ==
  ASSUME TypeOK, Control, Driver
  PROVE  Control'
<1> USE Names, Apart, Numbers DEF Control
<1>0. wire \in Seq(Frames)
  BY DEF TypeOK
<1>1. /\ \A u \in Threads : u # "driver" => pc'[u] = pc[u] /\ on'[u] = on[u]
  BY DEF Driver, Disconnect, Connect, Request, LoadFails, Clear, Add, Hook, Subscribe, Step, Goto,
         TypeOK
<1>2. CASE Disconnect \/ Connect
  <2>1. /\ UNCHANGED <<loads, hooked, route, missed>>
        /\ \/ pc["driver"] = "idle" /\ pc'["driver"] = "connect" /\ loads < MaxLoads /\ Hangup
           \/ /\ pc["driver"] = "connect" /\ pc'["driver"] = "request" /\ pc["loop"] = "idle"
              /\ linked' /\ wire' = wire
    BY <1>2 DEF Disconnect, Connect, Step, Goto, nodeVars, auxVars, TypeOK
  <2>2. Places' /\ Collection'
    BY <1>1, <2>1 DEF Places, Collection
  <2>3. Session'
    <3>1. CASE Hangup /\ pc'["driver"] = "connect"
      BY <1>0, <1>1, <3>1 DEF Session, Hangup
    <3>2. CASE linked' /\ wire' = wire /\ pc'["driver"] = "request"
      BY <1>1, <3>2 DEF Session
    <3> QED BY <2>1, <3>1, <3>2
  <2>4. LoopIsCurrent'
    BY <1>1, <2>1 DEF LoopIsCurrent, Replacing
  <2> QED BY <2>2, <2>3, <2>4
<1>3. CASE Request \/ LoadFails \/ Clear
  <2>1. /\ UNCHANGED <<loads, hooked, route, linked>>
        /\ \/ /\ pc["driver"] = "request" /\ pc'["driver"] = "load" /\ linked /\ ~missed'
              /\ wire' = Append(wire, [is |-> "info", pos |-> Pos, target |-> goal])
           \/ /\ pc["driver"] \in {"request", "load"} /\ pc'["driver"] = "idle" /\ ~linked
              /\ wire' = wire /\ missed' = missed
           \/ /\ pc["driver"] = "clear" /\ pc'["driver"] = "add"
              /\ wire' = wire /\ missed' = missed
    BY <1>3 DEF Request, LoadFails, Clear, Step, Goto, nodeVars, auxVars, TypeOK
  <2>2. Places' /\ Collection'
    BY <1>1, <2>1 DEF Places, Collection
  <2>3. Session'
    BY <1>0, <1>1, <2>1, HeadOfAppend DEF Session
  <2>4. LoopIsCurrent'
    BY <1>1, <2>1 DEF LoopIsCurrent, Replacing
  <2> QED BY <2>2, <2>3, <2>4
<1>4. CASE Add
  <2>1. /\ loads' = loads + 1 /\ pc["driver"] = "add" /\ pc'["driver"] = "hook"
        /\ UNCHANGED <<linked, wire, hooked, route, missed>>
    BY <1>4 DEF Add, Step, Goto, TypeOK, auxVars
  <2>2. Places' /\ Session'
    BY <1>1, <2>1 DEF Places, Session
  <2>3. Collection'
    BY <1>1, <2>1 DEF Collection
  <2>4. LoopIsCurrent'
    BY <1>1, <2>1 DEF LoopIsCurrent, Replacing
  <2> QED BY <2>2, <2>3, <2>4
<1>5. CASE Hook \/ Subscribe
  <2>1. /\ UNCHANGED <<linked, wire, loads, missed>>
        /\ \/ /\ pc["driver"] = "hook" /\ pc'["driver"] = "subscribe"
              /\ hooked' = hooked \cup {loads} /\ route' = route
           \/ /\ pc["driver"] = "subscribe" /\ pc'["driver"] = "update"
              /\ hooked' = hooked /\ route' = loads /\ on'["driver"] = loads
    BY <1>5 DEF Hook, Subscribe, Step, Goto, TypeOK, auxVars
  <2>2. hooked' = 1 .. loads /\ loads # 0 /\ hooked \subseteq hooked'
    <3>1. loads # 0 /\ hooked = 1 .. (IF pc["driver"] = "hook" THEN loads - 1 ELSE loads)
      BY <2>1 DEF Collection
    <3>2. (1 .. (loads - 1)) \cup {loads} = 1 .. loads
      BY <3>1
    <3> QED BY <2>1, <3>1, <3>2
  <2>3. Places' /\ Session'
    BY <1>1, <2>1 DEF Places, Session
  <2>4. Collection'
    BY <1>1, <2>1, <2>2 DEF Collection
  <2>5. LoopIsCurrent'
    BY <1>1, <2>1 DEF LoopIsCurrent, Replacing
  <2> QED BY <2>3, <2>4, <2>5
<1> QED BY <1>2, <1>3, <1>4, <1>5 DEF Driver

LEMMA ControlStep ==
  ASSUME TypeOK, Control, [Next]_vars
  PROVE  Control'
<1>1. CASE UNCHANGED vars
  BY <1>1 DEF vars, nodeVars, auxVars, Control, Places, Collection, Session, LoopIsCurrent,
              Replacing
<1> QED
  BY <1>1, UpdateNodeControl, ReadLoopControl, HandlerControl, GatewayControl, DriverControl
     DEF Next

-----------------------------------------------------------------------------
(* The wire.                                                               *)

(* A step that may append an answer, a report of the present state, or     *)
(* both.                                                                   *)
Sent ==
  /\ linked
  /\ \/ UNCHANGED <<wire, at, goal, vague>>
     \/ UNCHANGED <<at, goal, vague>> /\ \E a \in Answers : wire' = Append(wire, a)
     \/ /\ vague' => vague
        /\ \E r \in Reports : /\ r.pos = Pos' /\ r.target = goal'
                              /\ \/ wire' = Append(wire, r)
                                 \/ \E a \in Answers : wire' = Append(Append(wire, a), r)

LEMMA SentFacts ==
  ASSUME TypeOK, Faithful, Sent
  PROVE  /\ Faithful'
         /\ vague' => vague
         /\ NoReport(wire') => NoReport(wire) /\ Pos' = Pos /\ goal' = goal
         /\ wire # <<>> /\ NoReport(Tail(wire')) =>
              NoReport(Tail(wire)) /\ Pos' = Pos /\ goal' = goal
<1> DEFINE Goal ==
      /\ LastSays(wire', Pos', goal') /\ (vague' => AllUnknown(wire'))
      /\ vague' => vague
      /\ NoReport(wire') => NoReport(wire) /\ Pos' = Pos /\ goal' = goal
      /\ wire # <<>> /\ NoReport(Tail(wire')) =>
           NoReport(Tail(wire)) /\ Pos' = Pos /\ goal' = goal
<1>0. wire \in Seq(Frames) /\ LastSays(wire, Pos, goal) /\ (vague => AllUnknown(wire))
  BY DEF TypeOK, Faithful, Sent
<1>1. ASSUME NEW w \in Seq(Frames), NEW f \in Frames, w # <<>>
      PROVE  /\ Tail(w) \in Seq(Frames) /\ Tail(Append(w, f)) = Append(Tail(w), f)
  <2>1. Tail(Append(w, f)) = IF w = <<>> THEN <<>> ELSE Append(Tail(w), f)
    BY HeadTailAppend
  <2>2. Tail(w) \in Seq(Frames)
    BY <1>1
  <2> QED BY <1>1, <2>1, <2>2
<1>2. ASSUME UNCHANGED <<wire, at, goal, vague>> PROVE Goal
  <2>1. Pos' = Pos
    BY <1>2 DEF Pos
  <2> QED BY <1>0, <1>2, <2>1
<1>3. ASSUME NEW a \in Answers, wire' = Append(wire, a), UNCHANGED <<at, goal, vague>>
      PROVE  Goal
  <2>1. Pos' = Pos /\ a \in Frames
    BY <1>3 DEF Pos, Frames
  <2>2. LastSays(wire', Pos', goal') /\ (vague' => AllUnknown(wire'))
        /\ (NoReport(wire') => NoReport(wire))
    BY <1>0, <1>3, <2>1, AppendAnswer
  <2>3. ASSUME wire # <<>> PROVE NoReport(Tail(wire')) => NoReport(Tail(wire))
    <3>1. Tail(wire) \in Seq(Frames) /\ Tail(wire') = Append(Tail(wire), a)
      BY <1>0, <1>1, <1>3, <2>1, <2>3
    <3> QED BY <3>1, AppendAnswer
  <2> QED BY <1>3, <2>1, <2>2, <2>3
<1>4. ASSUME NEW r \in Reports, r.pos = Pos', r.target = goal', vague' => vague,
             NEW w \in Seq(Frames), wire' = Append(w, r), AllUnknown(wire) => AllUnknown(w),
             wire # <<>> => w # <<>>
      PROVE  Goal
  <2>1. r \in Frames
    BY DEF Frames
  <2>2. vague' => r.pos = Unknown
    BY <1>4 DEF Pos
  <2>3. LastSays(wire', Pos', goal') /\ (vague' => AllUnknown(wire')) /\ ~NoReport(wire')
    BY <1>0, <1>4, <2>2, AppendReport
  <2>4. ASSUME wire # <<>> PROVE ~NoReport(Tail(wire'))
    <3>1. Tail(w) \in Seq(Frames) /\ Tail(wire') = Append(Tail(w), r)
      BY <1>1, <1>4, <2>1, <2>4
    <3> QED BY <3>1, AppendReport
  <2> QED BY <1>4, <2>3, <2>4
<1>5. ASSUME NEW r \in Reports, r.pos = Pos', r.target = goal', vague' => vague,
             NEW a \in Answers, wire' = Append(Append(wire, a), r)
      PROVE  Goal
  <2>1. a \in Frames
    BY DEF Frames
  <2>2. Append(wire, a) \in Seq(Frames) /\ Append(wire, a) # <<>>
    BY <1>0, <2>1, AppendFacts, HeadOfAppend
  <2>3. AllUnknown(wire) => AllUnknown(Append(wire, a))
    BY <1>0, AppendAnswer
  <2> DEFINE w == Append(wire, a)
  <2>4. /\ w \in Seq(Frames) /\ wire' = Append(w, r) /\ (AllUnknown(wire) => AllUnknown(w))
        /\ w # <<>>
    BY <1>5, <2>2, <2>3
  <2> HIDE DEF Goal, w
  <2> QED BY <1>4, <1>5, <2>4
<1>6. Goal
  <2> HIDE DEF Goal
  <2>1. ASSUME NEW r \in Reports, r.pos = Pos', r.target = goal', vague' => vague,
               wire' = Append(wire, r)
        PROVE  Goal
    BY <1>0, <1>4, <2>1
  <2> QED BY <1>2, <1>3, <1>5, <2>1 DEF Sent
<1> QED BY <1>6 DEF Faithful

(* Whoever is not the read loop leaves the wire alone or has sent          *)
(* something, unless the session begins or ends.                           *)
Opening == pc["driver"] = "connect" /\ pc'["driver"] = "request" /\ wire' = <<>>

LEMMA SendSent ==
  ASSUME TypeOK, NEW h \in Handlers, Send(h)
  PROVE  Sent
<1>1. PICK a \in Answers : \/ wire' = Append(wire, a) /\ goal' = goal
                           \/ wire' = Append(Append(wire, a), Changed(Pos, goal'))
  BY SendAppends
<1>2. linked /\ UNCHANGED <<at, vague>> /\ goal' \in Stops
  BY SendAppends
<1>3. Pos' = Pos /\ Changed(Pos, goal') \in Reports
  BY <1>2 DEF Pos, Changed, Reports, TypeOK
<1>4. Changed(Pos, goal').pos = Pos /\ Changed(Pos, goal').target = goal'
  BY DEF Changed
<1>5. CASE wire' = Append(wire, a) /\ goal' = goal
  BY <1>2, <1>5 DEF Sent
<1>6. CASE wire' = Append(Append(wire, a), Changed(Pos, goal'))
  BY <1>2, <1>3, <1>4, <1>6 DEF Sent
<1> QED BY <1>1, <1>5, <1>6

LEMMA GatewaySent ==
  ASSUME TypeOK, Travel \/ Remote \/ Drop \/ Pulse, linked'
  PROVE  Sent
<1>1. linked /\ linked' = linked
  BY DEF Travel, Remote, Drop, Pulse, Hangup
<1>2. CASE Travel
  <2>1. at' \in Stops /\ vague' = FALSE /\ goal' = goal /\ Pos' = at'
    BY <1>2 DEF Travel, Pos
  <2>2. wire' = Append(wire, Changed(at', goal))
    BY <1>1, <1>2 DEF Travel, Report
  <2>3. Changed(at', goal) \in Reports /\ Changed(at', goal).pos = at'
        /\ Changed(at', goal).target = goal
    BY <2>1 DEF Changed, Reports, TypeOK
  <2> QED BY <1>1, <2>1, <2>2, <2>3 DEF Sent
<1>3. CASE Remote
  <2>1. goal' \in Stops /\ Pos' = Pos /\ vague' = vague
    BY <1>3, Values DEF Remote, Allowed, Pos
  <2>2. wire' = Append(wire, Changed(Pos, goal'))
    BY <1>1, <1>3 DEF Remote, Report
  <2>3. Changed(Pos, goal') \in Reports /\ Changed(Pos, goal').pos = Pos
        /\ Changed(Pos, goal').target = goal'
    BY <2>1 DEF Changed, Reports, TypeOK, Pos
  <2> QED BY <1>1, <2>1, <2>2, <2>3 DEF Sent
<1>4. CASE Pulse
  <2> DEFINE r == [is |-> "status", pos |-> Pos, target |-> goal]
  <2>1. r \in Reports /\ r.pos = Pos /\ r.target = goal
    BY DEF Reports, TypeOK, Pos
  <2>2. wire' = Append(wire, r) /\ UNCHANGED <<at, goal, vague>> /\ Pos' = Pos
    BY <1>4 DEF Pulse, deviceVars, Pos
  <2> HIDE DEF r
  <2> QED BY <1>1, <2>1, <2>2 DEF Sent
<1> QED BY <1>1, <1>2, <1>3, <1>4 DEF Drop, Hangup

LEMMA DriverSent ==
  ASSUME TypeOK, Control, Driver, linked'
  PROVE  Sent \/ Opening
<1>1. CASE Disconnect
  BY <1>1 DEF Disconnect, Hangup
<1>2. CASE Connect
  <2>1. pc["driver"] = "connect" /\ pc'["driver"] = "request" /\ pc["loop"] = "idle" /\ wire' = wire
    BY <1>2, Names DEF Connect, Step, Goto, TypeOK
  <2>2. wire = <<>>
    BY <2>1 DEF Control, Session
  <2> QED BY <2>1, <2>2 DEF Opening
<1>3. CASE Request
  <2> DEFINE r == [is |-> "info", pos |-> Pos, target |-> goal]
  <2>1. r \in Reports /\ r.pos = Pos /\ r.target = goal
    BY DEF Reports, TypeOK, Pos
  <2>2. wire' = Append(wire, r) /\ UNCHANGED <<at, goal, vague, linked>> /\ Pos' = Pos
    BY <1>3 DEF Request, deviceVars, Pos
  <2>3. linked
    BY <1>3 DEF Request
  <2> HIDE DEF r
  <2> QED BY <2>1, <2>2, <2>3 DEF Sent
<1>4. CASE LoadFails \/ Clear \/ Add \/ Hook \/ Subscribe
  BY <1>4 DEF LoadFails, Clear, Add, Hook, Subscribe, deviceVars, Sent
<1> QED BY <1>1, <1>2, <1>3, <1>4 DEF Driver

LEMMA FaithfulOpening == ASSUME Opening PROVE Faithful'
BY DEF Opening, Faithful, LastSays, AllUnknown

(* The read loop, or a thread in UpdateNode, takes the first frame away or *)
(* none.                                                                   *)
LEMMA LoopTakes ==
  ASSUME TypeOK, Control, Faithful,
         ReadLoop \/ \E t \in Threads : UpdateNode(t)
  PROVE  /\ UNCHANGED <<device, at, goal, vague, linked>> /\ Pos' = Pos
         /\ wire' = wire \/ (wire # <<>> /\ wire' = Tail(wire))
         /\ Faithful'
<1>1. UNCHANGED <<device, at, goal, vague, linked>>
  BY DEF ReadLoop, Receive, SetTarget, Unclaimed, Confirm, UpdateNode, ReadPosition, ReadTarget,
         ShowPosition, ShowState, ReadLimit, ShowLimit, deviceVars
<1>2. wire' = wire \/ (wire # <<>> /\ wire' = Tail(wire))
  <2>1. CASE ReadLoop
    BY <2>1 DEF ReadLoop, Receive, SetTarget, Unclaimed, Confirm, AfterUpdate, Finish, Control,
                Session
  <2>2. ASSUME NEW t \in Threads, UpdateNode(t) PROVE wire' = wire \/ (wire # <<>> /\ wire' = Tail(wire))
    BY <2>2 DEF UpdateNode, ReadPosition, ReadTarget, ShowPosition, ShowState, ReadLimit, ShowLimit,
                Finish, Control, Session
  <2> QED BY <2>1, <2>2
<1>3. Pos' = Pos
  BY <1>1 DEF Pos
<1>4. Faithful'
  <2>1. CASE wire' = wire
    BY <1>1, <1>3, <2>1 DEF Faithful
  <2>2. CASE wire # <<>> /\ wire' = Tail(wire)
    <3>1. wire \in Seq(Frames)
      BY DEF TypeOK
    <3>2. LastSays(wire, Pos, goal) => LastSays(wire', Pos, goal)
      BY <2>2, <3>1, TailReports
    <3>3. AllUnknown(wire) => AllUnknown(wire')
      BY <2>2, <3>1, TailReports
    <3> QED BY <1>1, <1>3, <3>2, <3>3 DEF Faithful
  <2> QED BY <1>2, <2>1, <2>2
<1> QED BY <1>1, <1>2, <1>3, <1>4

LEMMA HandlerSent ==
  ASSUME TypeOK, Control, NEW h \in Handlers,
         Handle(h) \/ Send(h) \/ Limits(h) \/ Fail(h) \/ Timeout(h), linked'
  PROVE  Sent
<1>1. CASE Send(h)
  BY <1>1, SendSent
<1>2. CASE Handle(h) \/ Limits(h) \/ Fail(h) \/ Timeout(h)
  <2>1. h # "loop"
    BY Names
  <2>2. UNCHANGED <<wire, at, goal, vague, linked>>
    BY <1>2, <2>1 DEF Handle, Limits, Fail, Timeout, AfterUpdate, Finish, deviceVars
  <2> QED BY <2>2 DEF Sent
<1> QED BY <1>1, <1>2

LEMMA FaithfulStep ==
  ASSUME TypeOK, Control, Faithful, [Next]_vars
  PROVE  Faithful'
<1>1. CASE ~linked'
  BY <1>1 DEF Faithful
<1>2. CASE UNCHANGED vars
  BY <1>2 DEF vars, deviceVars, Faithful, Pos
<1>3. CASE linked' /\ Next
  BY <1>3, SentFacts, FaithfulOpening, LoopTakes, HandlerSent, GatewaySent, DriverSent DEF Next
<1> QED BY <1>1, <1>2, <1>3

-----------------------------------------------------------------------------
(* The node.                                                               *)

(* Steps that do not make the node less right than it was.                 *)
LEMMA NodeKept ==
  ASSUME TypeOK, Control, Faithful, NodeIsRight,
         device' = device, pulled' = pulled, missed' = missed, loads' = loads,
         linked' => Sent,
         node'[loads].pos = node[loads].pos, node'[loads].target = node[loads].target,
         pc'["loop"] = pc["loop"] \/ (pc["loop"] \in Updating /\ pc'["loop"] \in Updating),
         Replacing' => Replacing, Settled' => Settled
  PROVE  NodeIsRight'
<1> SUFFICES ASSUME linked', ~device.blind PROVE NodeIsRight'
  BY DEF NodeIsRight
<1>1. linked /\ Sent
  BY DEF Sent
<1>2. /\ vague' => vague
      /\ NoReport(wire') => NoReport(wire) /\ Pos' = Pos /\ goal' = goal
      /\ wire # <<>> /\ NoReport(Tail(wire')) => NoReport(Tail(wire)) /\ Pos' = Pos /\ goal' = goal
  BY <1>1, SentFacts
<1>3. pc["loop"] # "idle" => wire # <<>>
  BY DEF Control, Session
<1>4. (pc'["loop"] # "idle" => pc["loop"] # "idle") /\ (pc'["loop"] # "setTarget" /\ pc'["loop"] # "idle" =>
        pc["loop"] # "setTarget")
  BY Apart
<1> QED BY <1>1, <1>2, <1>3, <1>4 DEF NodeIsRight

(* The read loop is through with a report; pulled is what it said, if the  *)
(* driver waited for it.                                                   *)
LEMMA NodeAfterFinish ==
  ASSUME TypeOK, Control, Faithful, NodeIsRight, Reading, Finish("loop"),
         UNCHANGED <<device, at, goal, vague, linked, loads>>,
         linked /\ ~device.blind /\ vague /\ Settled => node'[loads].pos = Unknown,
         linked /\ ~device.blind /\ ~missed' /\ Settled /\ NoReport(Tail(wire)) =>
           node'[loads].pos = Pos /\ node'[loads].target = goal,
         ~missed' => ~Replacing
  PROVE  NodeIsRight'
<1> USE Names
<1> SUFFICES ASSUME linked', ~device.blind PROVE NodeIsRight'
  BY DEF NodeIsRight
<1>1. linked /\ wire \in Seq(Frames) /\ Pos' = Pos
  BY DEF TypeOK, Pos
<1>2. /\ pc'["loop"] = "idle" /\ wire' = Tail(wire)
      /\ IF Answered("loop")
         THEN /\ pc["driver"] = "load" /\ pc'["driver"] = "clear"
              /\ pulled' = [pos |-> Head(wire).pos, target |-> Head(wire).target]
         ELSE pc'["driver"] = pc["driver"] /\ pulled' = pulled
  BY DEF Finish, Answered, TypeOK
<1>3. vague => Head(wire).pos = Unknown
  BY <1>1, TailFacts DEF Faithful, AllUnknown, Reading
<1>4. NoReport(Tail(wire)) => Head(wire).pos = Pos /\ Head(wire).target = goal
  BY <1>1, TailReports DEF Faithful, Reading
<1>5. CASE Answered("loop")
  BY <1>1, <1>2, <1>3, <1>4, <1>5, Apart DEF NodeIsRight, Replacing, Settled
<1>6. CASE ~Answered("loop")
  <2>1. (Replacing' <=> Replacing) /\ (Settled' <=> Settled)
    BY <1>2, <1>6 DEF Replacing, Settled
  <2> QED BY <1>1, <1>2, <1>6, <2>1 DEF NodeIsRight
<1> QED BY <1>5, <1>6

LEMMA NodeReadLoop ==
  ASSUME TypeOK, Control, Faithful, NodeIsRight, ReadLoop
  PROVE  NodeIsRight'
<1> USE Names, Apart
<1>0. /\ UNCHANGED <<device, at, goal, vague, linked>> /\ Pos' = Pos
      /\ wire \in Seq(Frames)
  BY LoopTakes DEF TypeOK
<1> SUFFICES ASSUME linked, ~device.blind PROVE NodeIsRight'
  BY <1>0 DEF NodeIsRight
<1>1. CASE Receive
  <2>1. /\ Reading /\ Collected = loads /\ loads \in Loads /\ missed' = Replacing
        /\ node' = [node EXCEPT ![loads].pos = IF Valid(Head(wire).pos) THEN Head(wire).pos ELSE @]
        /\ pc' = [pc EXCEPT !["loop"] = "setTarget"] /\ UNCHANGED <<wire, pulled, loads>>
    BY <1>1 DEF Receive, Reading, Collected, TypeOK, Goto
  <2>2. /\ node'[loads].pos = IF Valid(Head(wire).pos) THEN Head(wire).pos ELSE node[loads].pos
        /\ pc'["loop"] = "setTarget" /\ pc'["driver"] = pc["driver"]
    BY <2>1 DEF TypeOK, Nodes
  <2>3. vague => Head(wire).pos = Unknown
    BY <1>0, <2>1, TailFacts DEF Faithful, AllUnknown, Reading
  <2>4. NoReport(Tail(wire)) => Head(wire).pos = Pos
    BY <1>0, <2>1, TailReports DEF Faithful, Reading
  <2>5. ~NoReport(wire)
    BY <1>0, <2>1, TailReports DEF Reading
  <2>6. ~Valid(Unknown)
    BY DEF Valid, Unknown
  <2>7. vague /\ Settled => node'[loads].pos = Unknown
    BY <2>2, <2>3, <2>6 DEF NodeIsRight
  <2>8. Settled /\ NoReport(Tail(wire)) => node'[loads].pos = Pos
    <3>1. vague => Pos = Unknown
      BY DEF Pos
    <3>2. ~vague => Valid(Pos)
      BY CoverAssumption DEF Pos, Valid, TypeOK
    <3> QED BY <2>2, <2>4, <2>7, <3>1, <3>2
  <2>9. (Replacing' <=> Replacing) /\ (Settled' <=> Settled)
    BY <2>2 DEF Replacing, Settled
  <2> QED BY <1>0, <2>1, <2>2, <2>5, <2>7, <2>8, <2>9 DEF NodeIsRight
<1>2. CASE SetTarget
  <2> DEFINE g == on["loop"]
  <2>1. /\ Reading /\ pc["loop"] = "setTarget" /\ g \in 1 .. loads
        /\ UNCHANGED <<missed, loads>>
        /\ node' = [node EXCEPT ![g].target = Head(wire).target] /\ AfterUpdate("loop", g)
    BY <1>2 DEF SetTarget, Reading, Control, Session, Collection, auxVars
  <2>2. g \in Loads /\ loads \in Loads
    BY <2>1, Numbers DEF Loads
  <2>3. /\ node'[loads].pos = node[loads].pos
        /\ g = loads => node'[loads].target = Head(wire).target
    BY <2>1, <2>2 DEF TypeOK, Nodes
  <2>4. ~missed => g = loads /\ ~Replacing
    BY <2>1 DEF Control, LoopIsCurrent
  <2>5. NoReport(Tail(wire)) => Head(wire).target = goal
    BY <1>0, <2>1, TailReports DEF Faithful, Reading
  <2> HIDE DEF g
  <2>6. vague /\ Settled => node'[loads].pos = Unknown
    BY <2>3 DEF NodeIsRight
  <2>7. ~missed /\ Settled /\ NoReport(Tail(wire)) =>
          node'[loads].pos = Pos /\ node'[loads].target = goal
    BY <2>1, <2>3, <2>4, <2>5 DEF NodeIsRight
  <2>8. CASE g \in hooked
    <3>1. /\ pc'["loop"] = "update" /\ pc'["driver"] = pc["driver"] /\ UNCHANGED <<wire, pulled>>
      BY <2>1, <2>8 DEF AfterUpdate, Goto, TypeOK
    <3>2. (Replacing' <=> Replacing) /\ (Settled' <=> Settled)
      BY <3>1 DEF Replacing, Settled
    <3>3. ~NoReport(wire)
      BY <1>0, <2>1, TailReports DEF Reading
    <3> QED BY <1>0, <2>1, <2>6, <2>7, <3>1, <3>2, <3>3 DEF NodeIsRight
  <2>9. CASE g \notin hooked
    <3>1. Finish("loop")
      BY <2>1, <2>9 DEF AfterUpdate
    <3> QED BY <1>0, <2>1, <2>4, <2>6, <2>7, <3>1, NodeAfterFinish
  <2> QED BY <2>8, <2>9
<1>3. CASE Unclaimed
  <2>1. /\ Reading /\ Finish("loop") /\ missed' = Replacing /\ UNCHANGED <<node, loads>>
        /\ pc["driver"] = "add" \/ loads = 0
    BY <1>3 DEF Unclaimed, Reading, Collected
  <2>2. ~Settled
    BY <2>1 DEF Control, Session, Collection, Settled
  <2> QED BY <1>0, <2>1, <2>2, NodeAfterFinish
<1>4. CASE Confirm
  <2>1. /\ pc["loop"] = "idle" /\ wire # <<>> /\ Head(wire).is = "cfm" /\ wire' = Tail(wire)
        /\ UNCHANGED <<node, loads, pulled, missed>> /\ Head(wire).for \in Handlers
    BY <1>4, HeadOfWire DEF Confirm, nodeVars, auxVars, Answers
  <2>2. pc'["loop"] = "idle" /\ pc'["driver"] = pc["driver"]
    BY <1>4, <2>1 DEF Confirm, Goto, Over, TypeOK
  <2>3. NoReport(wire') <=> NoReport(wire)
    BY <1>0, <2>1, TailReports
  <2>4. (Replacing' <=> Replacing) /\ (Settled' <=> Settled)
    BY <2>2 DEF Replacing, Settled
  <2> QED BY <1>0, <2>1, <2>2, <2>3, <2>4 DEF NodeIsRight
<1> QED BY <1>1, <1>2, <1>3, <1>4 DEF ReadLoop

LEMMA NodeUpdateNode ==
  ASSUME TypeOK, Control, Faithful, NodeIsRight, NEW t \in Threads, UpdateNode(t)
  PROVE  NodeIsRight'
<1> USE Names, Apart
<1>0. UNCHANGED <<device, at, goal, vague, linked, missed, node, loads>> /\ Pos' = Pos
  BY LoopTakes DEF UpdateNode, ReadPosition, ReadTarget, ShowPosition, ShowState, ReadLimit,
                   ShowLimit, nodeVars, auxVars
<1> SUFFICES ASSUME linked PROVE NodeIsRight'
  BY <1>0 DEF NodeIsRight
<1>1. CASE ~ShowLimit(t)
  <2>1. /\ UNCHANGED <<wire, pulled>> /\ pc[t] \in Updating
        /\ \E l \in Updating : pc' = [pc EXCEPT ![t] = l]
    BY <1>1 DEF UpdateNode, ReadPosition, ReadTarget, ShowPosition, ShowState, ReadLimit, Goto,
                Updating, Inside, nodeVars
  <2>2. \A u \in Threads : pc'[u] = pc[u] \/ (pc[u] \in Updating /\ pc'[u] \in Updating)
    BY <2>1 DEF TypeOK
  <2>3. (Replacing' => Replacing) /\ (Settled' => Settled)
    BY <2>2 DEF Replacing, Settled
  <2>4. Sent
    BY <1>0, <2>1 DEF Sent
  <2> QED BY <1>0, <2>1, <2>2, <2>3, <2>4, NodeKept
<1>2. CASE ShowLimit(t) /\ t # "loop"
  <2>1. /\ UNCHANGED <<wire, pulled>> /\ pc[t] \in Updating
        /\ pc' = [pc EXCEPT ![t] = "idle", !["driver"] = @]
    <3>1. ~Answered(t) /\ Finish(t) /\ pc[t] = "showLimit"
      BY <1>2 DEF ShowLimit, Answered
    <3> QED BY <1>2, <3>1 DEF Finish, Updating, Inside
  <2>2. /\ \A u \in Threads : u # t => pc'[u] = pc[u]
        /\ pc'[t] = "idle"
        /\ t = "driver" => pc["driver"] \in Updating
    BY <2>1 DEF TypeOK
  <2>3. (Replacing' => Replacing) /\ (Settled' => Settled)
    BY <2>2 DEF Replacing, Settled
  <2>4. Sent
    BY <1>0, <2>1 DEF Sent
  <2> QED BY <1>0, <1>2, <2>1, <2>2, <2>3, <2>4, NodeKept
<1>3. CASE ShowLimit(t) /\ t = "loop"
  <2>1. Reading /\ Finish("loop") /\ pc["loop"] = "showLimit"
    BY <1>3 DEF ShowLimit, Control, Session, Reading
  <2>2. ~missed => ~Replacing
    BY <2>1 DEF Control, LoopIsCurrent
  <2> QED BY <1>0, <2>1, <2>2, NodeAfterFinish DEF NodeIsRight
<1> QED BY <1>1, <1>2, <1>3

LEMMA NodeHandler ==
  ASSUME TypeOK, Control, Faithful, NodeIsRight, NEW h \in Handlers,
         Handle(h) \/ Send(h) \/ Limits(h) \/ Fail(h) \/ Timeout(h)
  PROVE  NodeIsRight'
<1> USE Names, Apart
<1>1. /\ UNCHANGED <<device, pulled, missed, loads>>
      /\ pc'["loop"] = pc["loop"] /\ pc'["driver"] = pc["driver"]
  BY DEF Handle, Send, Limits, Fail, Timeout, AfterUpdate, Finish, Answered, Goto, Over, TypeOK,
         deviceVars, nodeVars, auxVars
<1>2. (Replacing' => Replacing) /\ (Settled' => Settled)
  BY <1>1 DEF Replacing, Settled
<1>3. linked' => Sent
  BY HandlerSent
<1> SUFFICES ASSUME ~device.blind PROVE NodeIsRight'
  BY <1>1 DEF NodeIsRight
<1>4. node'[loads].pos = node[loads].pos /\ node'[loads].target = node[loads].target
  <2>1. CASE Limits(h)
    <3>1. on[h] \in Loads /\ node' = [node EXCEPT ![on[h]].max =
                                         IF cmd[h].is = "ON" THEN 0 ELSE Ignore]
      BY <2>1 DEF Limits, Control, Collection, TypeOK
    <3> QED BY <3>1 DEF TypeOK, Nodes
  <2>2. CASE Handle(h)
    BY <2>2 DEF Handle
  <2> QED BY <2>1, <2>2 DEF Send, Fail, Timeout, nodeVars
<1> QED BY <1>1, <1>2, <1>3, <1>4, NodeKept

LEMMA NodeGateway ==
  ASSUME TypeOK, Control, Faithful, NodeIsRight, Travel \/ Remote \/ Drop \/ Pulse
  PROVE  NodeIsRight'
<1>1. UNCHANGED <<device, node, pulled, missed, loads, pc>>
  BY DEF Travel, Remote, Drop, Pulse, deviceVars, nodeVars, auxVars
<1>2. (Replacing' => Replacing) /\ (Settled' => Settled)
  BY <1>1 DEF Replacing, Settled
<1> QED BY <1>1, <1>2, GatewaySent, NodeKept

LEMMA NodeDriver ==
  ASSUME TypeOK, Control, Faithful, NodeIsRight, Driver
  PROVE  NodeIsRight'
<1> USE Names, Apart
<1>1. device' = device
  BY DEF Driver, Disconnect, Connect, Request, LoadFails, Clear, Add, Hook, Subscribe, deviceVars
<1>2. CASE Disconnect \/ Connect \/ Request \/ LoadFails
  <2>1. ~linked' \/ pc'["driver"] \in {"request", "load"}
    BY <1>2 DEF Disconnect, Connect, Request, LoadFails, Hangup, Step, Goto, TypeOK
  <2> QED BY <2>1 DEF NodeIsRight, Replacing, Settled
<1>3. CASE Clear \/ Hook \/ Subscribe
  <2>1. /\ UNCHANGED <<node, pulled, missed, loads>> /\ pc'["loop"] = pc["loop"]
        /\ \/ pc["driver"] = "clear" /\ pc'["driver"] = "add"
           \/ pc["driver"] \in {"hook", "subscribe"} /\ pc'["driver"] \in {"subscribe", "update"}
    BY <1>3 DEF Clear, Hook, Subscribe, Step, Goto, TypeOK, nodeVars, auxVars
  <2>2. (Replacing' => Replacing) /\ (Settled' => Settled)
    BY <2>1 DEF Replacing, Settled
  <2>3. linked' => Sent
    BY <1>3 DEF Clear, Hook, Subscribe, Sent, deviceVars
  <2> QED BY <1>1, <2>1, <2>2, <2>3, NodeKept
<1>4. CASE Add
  <2>1. /\ pc["driver"] = "add" /\ pc'["driver"] = "hook" /\ pc'["loop"] = pc["loop"]
        /\ loads' = loads + 1 /\ UNCHANGED <<at, goal, vague, linked, wire, missed>>
        /\ node' = [node EXCEPT ![loads'] =
                      [pos |-> pulled.pos, target |-> pulled.target, max |-> Ignore]]
    BY <1>4 DEF Add, Step, Goto, TypeOK, deviceVars, auxVars
  <2>2. loads' \in Loads
    BY <2>1, Numbers DEF Control, Collection, Loads
  <2>3. node'[loads'].pos = pulled.pos /\ node'[loads'].target = pulled.target
    BY <2>1, <2>2 DEF TypeOK
  <2>4. Replacing /\ ~Replacing' /\ Pos' = Pos
    BY <2>1 DEF Replacing, Pos
  <2>5. ~missed => pc["loop"] = "idle"
    BY <2>4 DEF Control, LoopIsCurrent
  <2> QED BY <1>1, <2>1, <2>3, <2>4, <2>5 DEF NodeIsRight
<1> QED BY <1>2, <1>3, <1>4 DEF Driver

LEMMA NodeStep ==
  ASSUME TypeOK, Control, Faithful, NodeIsRight, [Next]_vars
  PROVE  NodeIsRight'
<1>1. CASE UNCHANGED vars
  BY <1>1 DEF vars, deviceVars, nodeVars, auxVars, NodeIsRight, Pos, Replacing, Settled
<1> QED BY <1>1, NodeUpdateNode, NodeReadLoop, NodeHandler, NodeGateway, NodeDriver DEF Next

-----------------------------------------------------------------------------
(* The broker.                                                             *)

(* Steps of which no UpdateNode that is under way takes notice.            *)
Outside ==
  /\ UNCHANGED <<device, shown, seen, doubtful>>
  /\ \A t \in Threads : pc[t] \in Updating \/ pc'[t] \in Inside =>
       pc'[t] = pc[t] /\ on'[t] = on[t]
  /\ Registering => Registering'

LEMMA ReadLoopOutside ==
  ASSUME TypeOK, Control, ReadLoop
  PROVE  Outside
<1> USE Names, Apart
<1>0. pc \in [Threads -> Labels] /\ on \in [Threads -> {0} \cup Loads]
  BY DEF TypeOK
<1>1. UNCHANGED <<device, shown, seen, doubtful>>
  BY DEF ReadLoop, Receive, SetTarget, Unclaimed, Confirm, deviceVars, auxVars
<1>2. CASE Receive \/ SetTarget \/ Unclaimed
  <2>1. pc["loop"] \in {"idle", "setTarget"} /\ pc'["loop"] \in {"idle", "setTarget", "update"}
    BY <1>2 DEF Receive, SetTarget, Unclaimed, AfterUpdate, Finish, Goto, TypeOK
  <2>2. /\ \E g : on' = [on EXCEPT !["loop"] = g]
        /\ \/ \E l : pc' = [pc EXCEPT !["loop"] = l]
           \/ pc["driver"] = "load" /\ pc' = [pc EXCEPT !["loop"] = "idle", !["driver"] = "clear"]
           \/ pc' = [pc EXCEPT !["loop"] = "idle", !["driver"] = @]
    BY <1>2 DEF Receive, SetTarget, Unclaimed, AfterUpdate, Finish, Answered, Goto
  <2>3. \A t \in Threads \ {"loop", "driver"} : pc'[t] = pc[t] /\ on'[t] = on[t]
    BY <1>0, <2>2
  <2>4. /\ on'["driver"] = on["driver"]
        /\ \/ pc'["driver"] = pc["driver"]
           \/ pc["driver"] = "load" /\ pc'["driver"] = "clear"
    BY <1>0, <2>2
  <2>5. ASSUME NEW t \in Threads, pc[t] \in Updating \/ pc'[t] \in Inside
        PROVE  pc'[t] = pc[t] /\ on'[t] = on[t]
    <3>1. CASE t = "loop"
      BY <2>1, <2>5, <3>1 DEF Updating, Inside
    <3>2. CASE t = "driver"
      BY <2>4, <2>5, <3>2 DEF Updating, Inside
    <3> QED BY <2>3, <3>1, <3>2
  <2>6. Registering => Registering'
    BY <2>4 DEF Registering
  <2> QED BY <1>1, <2>5, <2>6 DEF Outside
<1>3. CASE Confirm
  <2>1. PICK h \in Handlers :
          /\ \A t \in Threads \ {h} : pc'[t] = pc[t] /\ on'[t] = on[t]
          /\ \/ pc'[h] = pc[h] /\ on'[h] = on[h]
             \/ pc[h] = "wait" /\ pc'[h] \in {"limits", "update", "idle"}
    <3>1. Head(wire).for \in Handlers
      BY <1>3, HeadOfWire DEF Confirm, Answers
    <3>2. LET h == Head(wire).for
          IN  \/ pc' = pc /\ on' = on
              \/ /\ pc[h] = "wait" /\ on' = on
                 /\ \E l \in {"limits", "update"} : pc' = [pc EXCEPT ![h] = l]
              \/ /\ pc[h] = "wait" /\ on' = [on EXCEPT ![h] = 0]
                 /\ pc' = [pc EXCEPT ![h] = "idle"]
      BY <1>3 DEF Confirm, Over, Confirmed, Goto
    <3> QED BY <3>1, <3>2 DEF TypeOK
  <2>2. Registering => Registering'
    BY <2>1 DEF Registering
  <2>3. ASSUME NEW t \in Threads, pc[t] \in Updating \/ pc'[t] \in Inside
        PROVE  pc'[t] = pc[t] /\ on'[t] = on[t]
    BY <2>1, <2>3 DEF Updating, Inside
  <2> QED BY <1>1, <2>2, <2>3 DEF Outside
<1> QED BY <1>2, <1>3 DEF ReadLoop

LEMMA HandlerOutside ==
  ASSUME TypeOK, Control, NEW h \in Handlers,
         Handle(h) \/ Send(h) \/ Limits(h) \/ Fail(h) \/ Timeout(h)
  PROVE  Outside
<1> USE Names, Apart
<1>1. UNCHANGED <<device, shown, seen, doubtful>>
  BY DEF Handle, Send, Limits, Fail, Timeout, deviceVars, auxVars
<1>2. \A t \in Threads \ {h} : pc'[t] = pc[t] /\ on'[t] = on[t]
  BY DEF Handle, Send, Limits, Fail, Timeout, AfterUpdate, Finish, Answered, Over, Goto, TypeOK
<1>3. pc[h] \in {"idle", "send", "wait", "limits"} /\ pc'[h] \in {"idle", "send", "wait", "update"}
  BY DEF Handle, Send, Limits, Fail, Timeout, AfterUpdate, Finish, Answered, Over, Goto, Free, TypeOK
<1>4. Registering => Registering'
  BY <1>2 DEF Registering
<1>5. ASSUME NEW t \in Threads, pc[t] \in Updating \/ pc'[t] \in Inside
      PROVE  pc'[t] = pc[t] /\ on'[t] = on[t]
  BY <1>2, <1>3, <1>5 DEF Updating, Inside
<1> QED BY <1>1, <1>4, <1>5 DEF Outside

LEMMA GatewayOutside ==
  ASSUME Travel \/ Remote \/ Drop \/ Pulse
  PROVE  Outside
<1>1. UNCHANGED <<device, shown, seen, doubtful, pc, on>>
  BY DEF Travel, Remote, Drop, Pulse, deviceVars, auxVars
<1> QED BY <1>1 DEF Outside, Registering

LEMMA DriverOutside ==
  ASSUME TypeOK, Control, Driver
  PROVE  Outside
<1> USE Names
<1>1. UNCHANGED <<device, shown, seen, doubtful>>
  BY DEF Driver, Disconnect, Connect, Request, LoadFails, Clear, Add, Hook, Subscribe,
         deviceVars, auxVars
<1>2. /\ \A t \in Threads \ {"driver"} : pc'[t] = pc[t] /\ on'[t] = on[t]
      /\ pc["driver"] \notin Updating /\ pc'["driver"] \notin Inside
      /\ pc["driver"] \in {"hook", "subscribe"} => pc'["driver"] \in {"subscribe", "update"}
  <2>1. CASE Subscribe
    BY <2>1 DEF Subscribe, Step, Goto, TypeOK, Updating, Inside
  <2>2. CASE Disconnect \/ Connect \/ Request \/ LoadFails \/ Clear \/ Add \/ Hook
    <3>1. on' = on
      BY <2>2 DEF Disconnect, Connect, Request, LoadFails, Clear, Add, Hook
    <3>2. \E from, to \in {"idle", "connect", "request", "load", "clear", "add", "hook",
                           "subscribe"} :
            Step(from, to) /\ (from \in {"hook", "subscribe"} => to = "subscribe")
      BY <2>2 DEF Disconnect, Connect, Request, LoadFails, Clear, Add, Hook
    <3> QED BY <3>1, <3>2 DEF Step, Goto, TypeOK, Updating, Inside
  <2> QED BY <2>1, <2>2 DEF Driver
<1>3. Registering => Registering'
  BY <1>2 DEF Registering, Updating
<1> QED BY <1>1, <1>2, <1>3 DEF Outside

LEMMA DueOutside == ASSUME Outside PROVE Due => Due'
BY DEF Outside, Due, Updating

LEMMA AloneOutside ==
  ASSUME Alone, Outside, loads' = loads \/ Registering'
  PROVE  Alone'
BY DEF Alone, Outside

LEMMA AloneUpdateNode ==
  ASSUME TypeOK, Control, Alone, NEW t \in Threads, UpdateNode(t)
  PROVE  Alone'
<1> USE Names, Apart
<1>1. CASE ReadPosition(t)
  <2>1. /\ doubtful' = Disturbed(t) /\ on' = on /\ loads' = loads
        /\ \A u \in Threads \ {t} : pc'[u] = pc[u]
    BY <1>1 DEF ReadPosition, Goto, TypeOK, nodeVars
  <2> QED BY <2>1 DEF Disturbed, Alone
<1>2. CASE ~ReadPosition(t)
  <2>1. /\ pc[t] \in Inside /\ pc'[t] # "update"
        /\ \A u \in Threads \ {t} : on'[u] = on[u]
        /\ pc'[t] \in Inside => on'[t] = on[t]
    BY <1>2 DEF UpdateNode, ReadTarget, ShowPosition, ShowState, ReadLimit, ShowLimit, Finish,
                Answered, Goto, TypeOK, Inside
  <2>2. doubtful' = doubtful /\ loads' = loads
    BY <1>2 DEF UpdateNode, ReadTarget, ShowPosition, ShowState, ReadLimit, ShowLimit,
                auxVars, nodeVars
  <2>3. \A u \in Threads \ {t} : pc'[u] = pc[u] \/ (pc[u] = "load" /\ pc'[u] = "clear")
    <3>1. \/ \E l : pc' = [pc EXCEPT ![t] = l]
          \/ pc["driver"] = "load" /\ pc' = [pc EXCEPT ![t] = "idle", !["driver"] = "clear"]
          \/ pc' = [pc EXCEPT ![t] = "idle", !["driver"] = @]
      BY <1>2 DEF UpdateNode, ReadTarget, ShowPosition, ShowState, ReadLimit, ShowLimit, Finish,
                  Answered, Goto
    <3>2. pc \in [Threads -> Labels]
      BY DEF TypeOK
    <3> QED BY <3>1, <3>2
  <2>4. Registering => Registering'
    BY <2>1, <2>3 DEF Registering, Inside
  <2>5. \A u \in Threads : pc'[u] \in Inside => pc[u] \in Inside /\ on'[u] = on[u]
    BY <2>1, <2>3 DEF Inside
  <2> QED BY <2>2, <2>4, <2>5 DEF Alone
<1> QED BY <1>1, <1>2

LEMMA AloneStep ==
  ASSUME TypeOK, Control, Alone, [Next]_vars
  PROVE  Alone'
<1>1. CASE UNCHANGED vars
  BY <1>1 DEF vars, nodeVars, auxVars, Alone, Registering
<1>2. CASE ReadLoop
  <2>1. loads' = loads
    BY <1>2 DEF ReadLoop, Receive, SetTarget, Unclaimed, Confirm, nodeVars
  <2> QED BY <1>2, <2>1, ReadLoopOutside, AloneOutside
<1>3. CASE \E h \in Handlers : Handle(h) \/ Send(h) \/ Limits(h) \/ Fail(h) \/ Timeout(h)
  <2>1. loads' = loads
    BY <1>3 DEF Handle, Send, Limits, Fail, Timeout, nodeVars
  <2> QED BY <1>3, <2>1, HandlerOutside, AloneOutside
<1>4. CASE Travel \/ Remote \/ Drop \/ Pulse
  <2>1. loads' = loads
    BY <1>4 DEF Travel, Remote, Drop, Pulse, nodeVars
  <2> QED BY <1>4, <2>1, GatewayOutside, AloneOutside
<1>5. CASE Driver
  <2>1. loads' = loads \/ Registering'
    BY <1>5, Names DEF Driver, Disconnect, Connect, Request, LoadFails, Clear, Add, Hook, Subscribe,
                nodeVars, Step, Goto, TypeOK, Registering
  <2> QED BY <1>5, <2>1, DriverOutside, AloneOutside
<1>6. CASE \E t \in Threads : UpdateNode(t)
  BY <1>6, AloneUpdateNode
<1> QED BY <1>1, <1>2, <1>3, <1>4, <1>5, <1>6 DEF Next

(* The moments at which ShownIsRight says something.                       *)
Speaks == ~doubtful /\ ~missed /\ linked /\ ~device.blind /\ Settled /\ ~Due /\ ~Heard

LEMMA ShownKept ==
  ASSUME Outside, ShownIsRight,
         Speaks' => /\ Speaks
                    /\ node'[loads'].pos = node[loads].pos
                    /\ node'[loads'].target = node[loads].target
  PROVE  ShownIsRight'
<1> SUFFICES ASSUME Speaks'
             PROVE  /\ \A t \in Threads : pc'[t] \in Inside => Halfway(t, node[loads])'
                    /\ (\A t \in Threads : pc'[t] \notin Inside) => ShownAs(node[loads])'
  BY DEF ShownIsRight, Speaks
<1>1. /\ Speaks
      /\ UNCHANGED <<device, shown, seen>>
      /\ node'[loads'].pos = node[loads].pos /\ node'[loads'].target = node[loads].target
  BY DEF Outside
<1>2. ShownAs(node[loads])' <=> ShownAs(node[loads])
  BY <1>1 DEF ShownAs, CoverState
<1>3. ASSUME NEW t \in Threads, pc'[t] \in Inside PROVE Halfway(t, node[loads])'
  <2>1. pc'[t] = pc[t]
    BY <1>3 DEF Outside
  <2>2. Halfway(t, node[loads])
    BY <1>1, <1>3, <2>1 DEF ShownIsRight, Speaks
  <2> QED BY <1>1, <1>2, <2>1, <2>2 DEF Halfway
<1>4. ASSUME \A t \in Threads : pc'[t] \notin Inside PROVE ShownAs(node[loads])'
  <2>1. \A t \in Threads : pc[t] \notin Inside
    BY <1>4, Apart DEF Outside
  <2>2. ShownAs(node[loads])
    BY <1>1, <2>1 DEF ShownIsRight, Speaks
  <2> QED BY <1>2, <2>2
<1> QED BY <1>3, <1>4

LEMMA ShownReadLoop ==
  ASSUME TypeOK, Control, Faithful, ShownIsRight, ReadLoop
  PROVE  ShownIsRight'
<1> USE Names, Apart
<1>1. CASE Receive
  <2>1. Reading /\ Receive
    BY <1>1 DEF Receive, Reading
  <2>2. ~device.blind => pc'["loop"] = "setTarget" /\ wire' = wire
    BY <1>1 DEF Receive, Goto, TypeOK
  <2>3. ~NoReport(wire)
    BY <2>1, TailReports DEF Reading, TypeOK
  <2>4. device' = device
    BY <1>1 DEF Receive, deviceVars
  <2> QED BY <2>2, <2>3, <2>4 DEF ShownIsRight, Heard
<1>2. CASE SetTarget
  <2>1. Due'
    <3>1. CASE on["loop"] \in hooked
      <4>1. pc'["loop"] = "update"
        BY <1>2, <3>1 DEF SetTarget, AfterUpdate, Goto, TypeOK
      <4> QED BY <4>1 DEF Due
    <3>2. CASE on["loop"] \notin hooked
      <4>1. on["loop"] \in 1 .. loads /\ pc["driver"] = "hook"
        BY <1>2, <3>2 DEF SetTarget, Control, Collection
      <4> QED BY <1>2, <4>1, ReadLoopOutside DEF ReadLoop, Outside, Registering, Due
    <3> QED BY <3>1, <3>2
  <2> QED BY <2>1 DEF ShownIsRight
<1>3. CASE Unclaimed
  <2>1. /\ missed' = Replacing /\ Finish("loop") /\ linked' = linked
        /\ pc["driver"] = "add" \/ loads = 0
    BY <1>3 DEF Unclaimed, Collected
  <2>2. linked => ~Settled
    BY <2>1 DEF Control, Session, Collection, Settled
  <2>3. pc'["driver"] = pc["driver"] \/ pc'["driver"] = "clear"
    BY <2>1 DEF Finish, TypeOK
  <2>4. linked' => ~Settled'
    BY <2>1, <2>2, <2>3 DEF Settled
  <2> QED BY <2>4 DEF ShownIsRight
<1>4. CASE Confirm
  <2>1. /\ UNCHANGED <<device, linked, node, loads, missed, doubtful>>
        /\ wire # <<>> /\ Head(wire).is = "cfm" /\ wire' = Tail(wire) /\ pc["loop"] = "idle"
    BY <1>4 DEF Confirm, deviceVars, nodeVars, auxVars
  <2>2. pc'["loop"] = "idle" /\ pc'["driver"] = pc["driver"]
    <3>1. Head(wire).for \in Handlers
      BY <2>1, HeadOfWire DEF Answers
    <3> QED BY <1>4, <2>1, <3>1 DEF Confirm, Goto, Over, TypeOK
  <2>3. NoReport(wire') <=> NoReport(wire)
    BY <2>1, TailReports DEF TypeOK
  <2>4. Outside /\ (Due => Due')
    BY <1>4, ReadLoopOutside, DueOutside DEF ReadLoop
  <2>5. Speaks' => Speaks
    BY <2>1, <2>2, <2>3, <2>4 DEF Speaks, Settled, Heard
  <2> QED BY <2>1, <2>4, <2>5, ShownKept
<1> QED BY <1>1, <1>2, <1>3, <1>4 DEF ReadLoop

(* Steps by which the gateway may be heard.                                *)
LEMMA ShownSent ==
  ASSUME TypeOK, Control, Faithful, ShownIsRight, Outside,
         linked' => Sent,
         UNCHANGED <<device, loads, missed>>,
         pc'["loop"] = pc["loop"], pc'["driver"] = pc["driver"],
         ~device.blind => /\ node'[loads].pos = node[loads].pos
                          /\ node'[loads].target = node[loads].target
  PROVE  ShownIsRight'
<1>1. linked' => linked /\ (NoReport(wire') => NoReport(wire))
  BY SentFacts DEF Sent
<1>2. Speaks' => Speaks
  BY <1>1, DueOutside DEF Speaks, Settled, Heard, Outside
<1> QED BY <1>2, ShownKept DEF Speaks

LEMMA ShownHandler ==
  ASSUME TypeOK, Control, Faithful, ShownIsRight, NEW h \in Handlers,
         Handle(h) \/ Send(h) \/ Limits(h) \/ Fail(h) \/ Timeout(h)
  PROVE  ShownIsRight'
<1> USE Names, Apart
<1>1. Outside /\ (linked' => Sent)
  BY HandlerOutside, HandlerSent
<1>2. /\ UNCHANGED <<device, missed, loads>>
      /\ pc'["loop"] = pc["loop"] /\ pc'["driver"] = pc["driver"]
  BY DEF Handle, Send, Limits, Fail, Timeout, AfterUpdate, Finish, Answered, Goto, Over, TypeOK,
         deviceVars, nodeVars, auxVars
<1>3. CASE Limits(h)
  <2>1. on[h] \in hooked
    BY <1>3 DEF Limits, Control, Collection
  <2>2. pc'[h] = "update"
    BY <1>3, <2>1 DEF Limits, AfterUpdate, Goto, TypeOK
  <2> QED BY <2>2 DEF ShownIsRight, Due
<1>4. CASE ~Limits(h)
  <2>1. ~device.blind => node' = node
    BY <1>4 DEF Handle, Send, Fail, Timeout, nodeVars
  <2> QED BY <1>1, <1>2, <2>1, ShownSent
<1> QED BY <1>3, <1>4

LEMMA ShownGateway ==
  ASSUME TypeOK, Control, Faithful, ShownIsRight, Travel \/ Remote \/ Drop \/ Pulse
  PROVE  ShownIsRight'
<1>1. UNCHANGED <<device, node, missed, loads, pc>>
  BY DEF Travel, Remote, Drop, Pulse, deviceVars, nodeVars, auxVars
<1> QED BY <1>1, GatewayOutside, GatewaySent, ShownSent

LEMMA ShownDriver ==
  ASSUME TypeOK, Control, Driver
  PROVE  ShownIsRight'
<1> USE Names
<1>1. CASE Disconnect \/ LoadFails
  BY <1>1 DEF Disconnect, LoadFails, Hangup, ShownIsRight
<1>2. CASE Connect \/ Request \/ Clear
  <2>1. pc'["driver"] \in {"request", "load", "add"}
    BY <1>2 DEF Connect, Request, Clear, Step, Goto, TypeOK
  <2> QED BY <2>1, Apart DEF ShownIsRight, Settled
<1>3. CASE Add \/ Hook \/ Subscribe
  <2>1. Due'
    BY <1>3 DEF Add, Hook, Subscribe, Step, Goto, TypeOK, Due, Registering
  <2> QED BY <2>1 DEF ShownIsRight
<1> QED BY <1>1, <1>2, <1>3 DEF Driver

LEMMA ShownUpdateNode ==
  ASSUME TypeOK, Control, Alone, ShownIsRight, NEW t \in Threads, UpdateNode(t)
  PROVE  ShownIsRight'
<1> USE Names, Apart
<1> DEFINE n == node[loads]
<1>0. UNCHANGED <<device, node, loads, missed, linked>> /\ n' = n
  BY DEF UpdateNode, ReadPosition, ReadTarget, ShowPosition, ShowState, ReadLimit, ShowLimit,
         deviceVars, nodeVars, auxVars
<1> HIDE DEF n
<1> SUFFICES ASSUME Speaks'
             PROVE  /\ \A u \in Threads : pc'[u] \in Inside => Halfway(u, n)'
                    /\ (\A u \in Threads : pc'[u] \notin Inside) => ShownAs(n)'
  BY DEF ShownIsRight, Speaks, n
<1>1. ~Registering' /\ Alone' /\ pc'["driver"] \notin {"clear", "hook", "subscribe", "update"}
  BY AloneUpdateNode DEF Speaks, Due, Settled, Registering, Updating, Inside
<1>2. pc \in [Threads -> Labels] /\ seen \in [Threads -> Nodes] /\ pc[t] \in Updating
  BY DEF TypeOK, UpdateNode, ReadPosition, ReadTarget, ShowPosition, ShowState, ReadLimit,
         ShowLimit, Updating, Inside
<1>3. CASE ReadPosition(t)
  <2>1. /\ ~Disturbed(t) /\ pc' = [pc EXCEPT ![t] = "target"]
        /\ seen' = [seen EXCEPT ![t].pos = node[on[t]].pos]
    BY <1>3 DEF ReadPosition, Goto, Speaks
  <2>2. pc'[t] = "target" /\ \A u \in Threads : pc'[u] \in Inside => u = t
    BY <1>2, <2>1 DEF Disturbed
  <2>3. seen'[t].pos = n.pos
    BY <1>2, <2>1 DEF Disturbed, n, Nodes
  <2>4. Halfway(t, n)'
    BY <1>0, <2>2, <2>3 DEF Halfway
  <2> QED BY <2>2, <2>4 DEF Inside
<1>4. CASE ~ReadPosition(t)
  <2>1. pc[t] \in Inside /\ doubtful' = doubtful
    BY <1>4 DEF UpdateNode, ReadTarget, ShowPosition, ShowState, ReadLimit, ShowLimit, Inside,
                auxVars
  <2>2. /\ pc'[t] = "idle" \/ pc'[t] \in Inside
        /\ \A u \in Threads \ {t} : pc'[u] = pc[u] \/ (pc[u] = "load" /\ pc'[u] = "clear")
    <3>1. \/ \E l \in Inside : pc' = [pc EXCEPT ![t] = l]
          \/ pc["driver"] = "load" /\ t = "loop"
             /\ pc' = [pc EXCEPT ![t] = "idle", !["driver"] = "clear"]
          \/ pc' = [pc EXCEPT ![t] = "idle", !["driver"] = @] /\ pc[t] = "showLimit"
      BY <1>4 DEF UpdateNode, ReadTarget, ShowPosition, ShowState, ReadLimit, ShowLimit, Finish,
                  Answered, Goto, Inside
    <3> QED BY <1>2, <3>1
  <2>3. \A u \in Threads \ {t} : pc'[u] # "clear" => pc'[u] = pc[u]
    BY <2>2
  <2>4. pc'["driver"] = pc["driver"] \/ t = "driver"
    BY <1>1, <2>3
  <2>5. ~Due
    <3>1. ~Registering
      BY <1>1, <2>1, <2>4 DEF Registering, Inside
    <3>2. \A u \in Threads : pc[u] # "update"
      BY <2>1, <2>2 DEF Speaks, Due
    <3> QED BY <3>1, <3>2 DEF Due
  <2>6. Settled
    BY <1>1, <2>1, <2>4 DEF Speaks, Settled
  <2>7. ~Heard
    <3>1. t # "loop" => pc'["loop"] = pc["loop"] /\ wire' = wire
      <4>1. t # "loop" => wire' = wire
        BY <1>4 DEF UpdateNode, ReadTarget, ShowPosition, ShowState, ReadLimit, ShowLimit, Finish
      <4>2. pc["loop"] # "load"
        BY DEF Control, Places, Updating, Inside
      <4> QED BY <2>2, <4>1, <4>2
    <3> QED BY <2>1, <3>1 DEF Heard, Speaks
  <2>8. Speaks /\ Halfway(t, n)
    BY <1>0, <2>1, <2>5, <2>6, <2>7 DEF Speaks, ShownIsRight, n
  <2>9. on[t] = loads /\ \A u \in Threads : pc'[u] \in Inside => u = t
    <3>1. on[t] = loads /\ \A u \in Threads : pc[u] \in Inside => u = t
      BY <2>1, <2>5, <2>8 DEF Alone, Due, Speaks
    <3> QED BY <2>2, <3>1 DEF Inside
  <2>10. pc'[t] \in Inside => Halfway(t, n)'
    <3>1. CASE ReadTarget(t)
      <4>1. /\ pc[t] = "target" /\ pc'[t] = "showPosition" /\ seen'[t].pos = seen[t].pos
            /\ seen'[t].target = n.target
        BY <1>2, <2>9, <3>1 DEF ReadTarget, Goto, n, Nodes
      <4> QED BY <1>0, <2>8, <4>1 DEF Halfway
    <3>2. CASE ShowPosition(t)
      <4>1. /\ pc[t] = "showPosition" /\ pc'[t] = "showState" /\ seen'[t] = seen[t]
            /\ shown'.position = ValidatePosition(seen[t].pos)
        BY <1>2, <3>2 DEF ShowPosition, Goto, TypeOK
      <4> QED BY <1>0, <2>8, <4>1 DEF Halfway
    <3>3. CASE ShowState(t)
      <4>1. /\ pc[t] = "showState" /\ pc'[t] = "limit"
            /\ shown'.position = shown.position
            /\ shown'.state = CoverState(seen[t].pos, seen[t].target, device.inverted)
        BY <1>2, <3>3 DEF ShowState, Goto, TypeOK
      <4>2. ShownAs(n)'
        BY <1>0, <2>8, <4>1 DEF Halfway, ShownAs
      <4> QED BY <4>1, <4>2 DEF Halfway
    <3>4. CASE ReadLimit(t)
      <4>1. pc[t] = "limit" /\ pc'[t] = "showLimit" /\ shown' = shown
        BY <1>2, <3>4 DEF ReadLimit, Goto
      <4>2. ShownAs(n)'
        BY <1>0, <2>8, <4>1 DEF Halfway, ShownAs, CoverState
      <4> QED BY <4>1, <4>2 DEF Halfway
    <3>5. CASE ShowLimit(t)
      BY <1>2, <3>5 DEF ShowLimit, Finish, Answered, Inside
    <3> QED BY <1>4, <3>1, <3>2, <3>3, <3>4, <3>5 DEF UpdateNode
  <2>11. ASSUME pc'[t] \notin Inside PROVE ShownAs(n)'
    <3>1. pc[t] = "showLimit" /\ ShowLimit(t)
      <4>1. \A l \in Inside : Goto(t, l) => pc'[t] = l
        BY <1>2 DEF Goto
      <4> QED BY <1>4, <2>11, <4>1 DEF UpdateNode, ReadTarget, ShowPosition, ShowState, ReadLimit,
                  ShowLimit, Inside
    <3>2. shown'.position = shown.position /\ shown'.state = shown.state
      BY <3>1 DEF ShowLimit, TypeOK
    <3>3. ShownAs(n)
      BY <2>8, <3>1 DEF Halfway
    <3> QED BY <1>0, <3>2, <3>3 DEF ShownAs, CoverState
  <2> QED BY <2>9, <2>10, <2>11
<1> QED BY <1>3, <1>4

LEMMA ShownStep ==
  ASSUME TypeOK, Control, Faithful, Alone, ShownIsRight, [Next]_vars
  PROVE  ShownIsRight'
<1>1. CASE UNCHANGED vars
  BY <1>1 DEF vars, deviceVars, nodeVars, auxVars, ShownIsRight, Settled, Due, Registering, Heard,
              NoReport, Halfway, ShownAs, CoverState
<1> QED BY <1>1, ShownReadLoop, ShownHandler, ShownGateway, ShownDriver, ShownUpdateNode DEF Next

(* The limit of the node and the keep-open topic.                          *)
LEMMA KeepOpenKept ==
  ASSUME Outside, KeepOpenIsRight, loads' = loads,
         loads # 0 /\ ~Due' => node'[loads].max = node[loads].max
  PROVE  KeepOpenIsRight'
<1> SUFFICES ASSUME ~doubtful', loads # 0, ~Due'
             PROVE  /\ \A t \in Threads : pc'[t] = "showLimit" => seen'[t].max = node'[loads].max
                    /\ (\A t \in Threads : pc'[t] \notin Inside) =>
                         (shown'.keepopen = "on" <=> node'[loads].max = 0)
  BY DEF KeepOpenIsRight
<1>1. /\ ~doubtful /\ ~Due /\ UNCHANGED <<shown, seen>> /\ node'[loads].max = node[loads].max
      /\ \A t \in Threads : pc[t] \in Inside \/ pc'[t] \in Inside => pc'[t] = pc[t]
  BY DueOutside, Apart DEF Outside
<1> QED BY <1>1 DEF KeepOpenIsRight, Inside

LEMMA KeepOpenReadLoop ==
  ASSUME TypeOK, Control, KeepOpenIsRight, ReadLoop
  PROVE  KeepOpenIsRight'
<1> USE Names
<1>1. loads' = loads
  BY DEF ReadLoop, Receive, SetTarget, Unclaimed, Confirm, nodeVars
<1>2. CASE Receive \/ SetTarget
  <2>1. PICK g \in Loads : \E p : \/ node' = [node EXCEPT ![g].pos = p]
                                  \/ node' = [node EXCEPT ![g].target = p]
    <3>1. CASE Receive
      <4>1. Collected \in Loads
        BY <3>1 DEF Receive, Collected, TypeOK
      <4> QED BY <3>1, <4>1 DEF Receive
    <3>2. CASE SetTarget
      <4>1. on["loop"] \in Loads
        BY <3>2, Numbers DEF SetTarget, Control, Collection, Loads
      <4> QED BY <3>2, <4>1 DEF SetTarget
    <3> QED BY <1>2, <3>1, <3>2
  <2>2. \A i \in Loads : node'[i].max = node[i].max
    <3>1. node \in [Loads -> Nodes]
      BY DEF TypeOK
    <3>2. PICK p : \/ node' = [node EXCEPT ![g].pos = p]
                   \/ node' = [node EXCEPT ![g].target = p]
      BY <2>1
    <3> DEFINE n == node[g]
    <3>3. /\ node'[g] = [n EXCEPT !.pos = p] \/ node'[g] = [n EXCEPT !.target = p]
          /\ \A i \in Loads \ {g} : node'[i] = node[i]
          /\ n \in Nodes
      BY <3>1, <3>2
    <3> HIDE DEF n
    <3>4. node'[g].max = n.max
      BY <3>3 DEF Nodes
    <3> QED BY <3>3, <3>4 DEF n
  <2>3. loads # 0 => node'[loads].max = node[loads].max
    BY <2>2 DEF TypeOK
  <2> QED BY <1>1, <2>3, ReadLoopOutside, KeepOpenKept
<1>3. CASE Unclaimed \/ Confirm
  <2>1. node' = node
    BY <1>3 DEF Unclaimed, Confirm, nodeVars
  <2> QED BY <1>1, <2>1, ReadLoopOutside, KeepOpenKept
<1> QED BY <1>2, <1>3 DEF ReadLoop

LEMMA KeepOpenHandler ==
  ASSUME TypeOK, Control, KeepOpenIsRight, NEW h \in Handlers,
         Handle(h) \/ Send(h) \/ Limits(h) \/ Fail(h) \/ Timeout(h)
  PROVE  KeepOpenIsRight'
<1> USE Names
<1>1. loads' = loads
  BY DEF Handle, Send, Limits, Fail, Timeout, nodeVars
<1>2. CASE Limits(h)
  <2>1. on[h] \in hooked
    BY <1>2 DEF Limits, Control, Collection
  <2>2. pc'[h] = "update"
    BY <1>2, <2>1 DEF Limits, AfterUpdate, Goto, TypeOK
  <2> QED BY <2>2 DEF KeepOpenIsRight, Due
<1>3. CASE Handle(h)
  <2>1. \/ node' = node
        \/ \E p, q : node' = [node EXCEPT ![route].target = p, ![route].pos = q]
    BY <1>3 DEF Handle
  <2>2. route \in Loads
    BY <1>3 DEF Handle, TypeOK
  <2>3. \A i \in Loads : node'[i].max = node[i].max
    <3>1. node \in [Loads -> Nodes]
      BY DEF TypeOK
    <3>2. CASE node' = node
      BY <3>2
    <3>3. ASSUME NEW p, NEW q, node' = [node EXCEPT ![route].target = p, ![route].pos = q]
          PROVE  \A i \in Loads : node'[i].max = node[i].max
      <4> DEFINE n == node[route]
      <4>1. /\ node'[route] = [n EXCEPT !.target = p, !.pos = q]
            /\ \A i \in Loads \ {route} : node'[i] = node[i]
            /\ n \in Nodes
        BY <2>2, <3>1, <3>3
      <4> HIDE DEF n
      <4>2. node'[route].max = n.max
        BY <4>1 DEF Nodes
      <4> QED BY <4>1, <4>2 DEF n
    <3> QED BY <2>1, <3>2, <3>3
  <2>4. loads # 0 => node'[loads].max = node[loads].max
    BY <2>3 DEF TypeOK
  <2> QED BY <1>1, <2>4, HandlerOutside, KeepOpenKept
<1>4. CASE Send(h) \/ Fail(h) \/ Timeout(h)
  <2>1. node' = node
    BY <1>4 DEF Send, Fail, Timeout, nodeVars
  <2> QED BY <1>1, <2>1, HandlerOutside, KeepOpenKept
<1> QED BY <1>2, <1>3, <1>4

LEMMA KeepOpenDriver ==
  ASSUME TypeOK, Control, KeepOpenIsRight, Driver
  PROVE  KeepOpenIsRight'
<1>1. CASE Add
  <2>1. Due'
    BY <1>1, Names DEF Add, Step, Goto, TypeOK, Due, Registering
  <2> QED BY <2>1 DEF KeepOpenIsRight
<1>2. CASE ~Add
  <2>1. node' = node /\ loads' = loads
    BY <1>2 DEF Driver, Disconnect, Connect, Request, LoadFails, Clear, Hook, Subscribe, nodeVars
  <2> QED BY <2>1, DriverOutside, KeepOpenKept
<1> QED BY <1>1, <1>2

LEMMA KeepOpenUpdateNode ==
  ASSUME TypeOK, Control, Alone, KeepOpenIsRight, NEW t \in Threads, UpdateNode(t)
  PROVE  KeepOpenIsRight'
<1> USE Names, Apart
<1>0. node' = node /\ loads' = loads
  BY DEF UpdateNode, ReadPosition, ReadTarget, ShowPosition, ShowState, ReadLimit, ShowLimit,
         nodeVars
<1> SUFFICES ASSUME ~doubtful', loads # 0, ~Due'
             PROVE  /\ \A u \in Threads : pc'[u] = "showLimit" => seen'[u].max = node[loads].max
                    /\ (\A u \in Threads : pc'[u] \notin Inside) =>
                         (shown'.keepopen = "on" <=> node[loads].max = 0)
  BY <1>0 DEF KeepOpenIsRight
<1>1. Alone' /\ ~Registering' /\ \A u \in Threads : pc'[u] # "update"
  BY AloneUpdateNode DEF Due
<1>2. pc \in [Threads -> Labels] /\ seen \in [Threads -> Nodes]
  BY DEF TypeOK
<1>3. CASE ReadPosition(t) \/ ReadTarget(t) \/ ShowPosition(t) \/ ShowState(t)
  <2>1. pc'[t] \in Inside \ {"showLimit"}
    BY <1>2, <1>3 DEF ReadPosition, ReadTarget, ShowPosition, ShowState, Goto, Inside
  <2>2. \A u \in Threads : pc'[u] \in Inside => u = t
    BY <1>1, <2>1 DEF Alone
  <2> QED BY <2>1, <2>2 DEF Inside
<1>4. CASE ReadLimit(t)
  <2>1. /\ pc'[t] = "showLimit" /\ on' = on
        /\ seen' = [seen EXCEPT ![t].max = node[on[t]].max]
    BY <1>2, <1>4 DEF ReadLimit, Goto
  <2>2. on[t] = loads /\ \A u \in Threads : pc'[u] \in Inside => u = t
    BY <1>0, <1>1, <2>1 DEF Alone, Inside
  <2>3. seen'[t].max = node[loads].max
    BY <1>2, <2>1, <2>2 DEF Nodes
  <2> QED BY <2>1, <2>2, <2>3 DEF Inside
<1>5. CASE ShowLimit(t)
  <2>1. /\ pc[t] = "showLimit" /\ doubtful' = doubtful /\ Finish(t)
        /\ shown'.keepopen = IF seen[t].max < 100 THEN "on" ELSE "off"
    BY <1>5 DEF ShowLimit, auxVars, TypeOK
  <2>2. /\ pc'[t] = "idle"
        /\ \A u \in Threads \ {t} : pc'[u] = pc[u] \/ (pc[u] = "load" /\ pc'[u] = "clear")
    <3>1. \/ pc["driver"] = "load" /\ t = "loop"
             /\ pc' = [pc EXCEPT ![t] = "idle", !["driver"] = "clear"]
          \/ pc' = [pc EXCEPT ![t] = "idle", !["driver"] = @] /\ pc[t] = "showLimit"
      BY <2>1 DEF Finish, Answered
    <3> QED BY <1>2, <3>1
  <2>3. ~Due
    <3>1. ~Registering
      BY <1>1, <2>1, <2>2 DEF Registering
    <3>2. \A u \in Threads : pc[u] # "update"
      BY <1>1, <2>1, <2>2
    <3> QED BY <3>1, <3>2 DEF Due
  <2>4. seen[t].max = node[loads].max /\ \A u \in Threads : pc[u] \in Inside => u = t
    BY <2>1, <2>3 DEF KeepOpenIsRight, Alone, Inside
  <2>5. node[loads].max \in {0, Ignore}
    BY DEF TypeOK, Nodes
  <2>6. \A u \in Threads : pc'[u] \notin Inside
    BY <2>2, <2>4 DEF Inside
  <2>7. shown'.keepopen = "on" <=> node[loads].max = 0
    BY <2>1, <2>4, <2>5 DEF Ignore
  <2> QED BY <2>6, <2>7 DEF Inside
<1> QED BY <1>3, <1>4, <1>5 DEF UpdateNode

LEMMA KeepOpenStep ==
  ASSUME TypeOK, Control, Alone, KeepOpenIsRight, [Next]_vars
  PROVE  KeepOpenIsRight'
<1>1. CASE UNCHANGED vars
  BY <1>1 DEF vars, nodeVars, auxVars, KeepOpenIsRight, Due, Registering
<1>2. CASE Travel \/ Remote \/ Drop \/ Pulse
  <2>1. node' = node /\ loads' = loads
    BY <1>2 DEF Travel, Remote, Drop, Pulse, nodeVars
  <2> QED BY <1>2, <2>1, GatewayOutside, KeepOpenKept
<1> QED BY <1>1, <1>2, KeepOpenReadLoop, KeepOpenHandler, KeepOpenDriver, KeepOpenUpdateNode DEF Next

-----------------------------------------------------------------------------
(* Commands.                                                               *)

LEMMA OrderStep ==
  ASSUME TypeOK, OrderIsKept, [Next]_vars
  PROVE  OrderIsKept'
<1> DEFINE Apt(c) == /\ c.is = "OPEN" => c.to = PositionOpen
                     /\ c.is = "CLOSE" => c.to = PositionClosed
<1>1. device' = device /\ UNCHANGED <<PositionOpen, PositionClosed>>
  <2>1. device' = device
    BY DEF Next, vars, deviceVars, ReadLoop, Receive, SetTarget, Unclaimed, Confirm, Driver,
           Disconnect, Connect, Request, LoadFails, Clear, Add, Hook, Subscribe, UpdateNode,
           ReadPosition, ReadTarget, ShowPosition, ShowState, ReadLimit, ShowLimit, Handle, Send,
           Limits, Fail, Timeout, Travel, Remote, Drop, Pulse
  <2> QED BY <2>1 DEF PositionOpen, PositionClosed
<1>2. \A h \in Handlers : Apt(cmd[h])
  BY DEF OrderIsKept
<1>3. \A h \in Handlers : Apt(cmd'[h])
  <2>1. \A h \in Handlers : \/ cmd'[h] = cmd[h] \/ cmd'[h] = NoCommand
                            \/ \E c, p : cmd'[h] = [is |-> c, to |-> Parameter(c, p)]
    <3>1. CASE \E t \in Threads : UpdateNode(t)
      BY <3>1 DEF UpdateNode, ReadPosition, ReadTarget, ShowPosition, ShowState, ReadLimit, ShowLimit
    <3>2. CASE ReadLoop
      BY <3>2 DEF ReadLoop, Receive, SetTarget, Unclaimed, Confirm, Over, TypeOK
    <3>3. CASE Driver \/ Travel \/ Remote \/ Drop \/ Pulse \/ UNCHANGED vars
      BY <3>3 DEF Driver, Disconnect, Connect, Request, LoadFails, Clear, Add, Hook, Subscribe,
                  Travel, Remote, Drop, Pulse, vars
    <3>4. CASE \E h \in Handlers : Send(h) \/ Limits(h) \/ Fail(h) \/ Timeout(h)
      BY <3>4, Names DEF Send, Limits, AfterUpdate, Finish, Fail, Timeout, Over, TypeOK
    <3>5. CASE \E h \in Handlers : Handle(h)
      <4>1. PICK g \in Handlers, c \in Payloads, p \in Stops :
              cmd' = [cmd EXCEPT ![g] = [is |-> c, to |-> Parameter(c, p)]]
        BY <3>5 DEF Handle
      <4> QED BY <4>1 DEF TypeOK
    <3> QED BY <3>1, <3>2, <3>3, <3>4, <3>5 DEF Next
  <2>2. \A c, p : Apt([is |-> c, to |-> Parameter(c, p)])
    BY DEF Parameter, PositionOpen, PositionClosed
  <2>3. Apt(NoCommand)
    BY DEF NoCommand
  <2> HIDE DEF Apt
  <2>4. ASSUME NEW h \in Handlers PROVE Apt(cmd'[h])
    <3>1. CASE cmd'[h] = cmd[h]
      BY <1>2, <3>1
    <3>2. CASE cmd'[h] = NoCommand
      BY <2>3, <3>2
    <3>3. CASE \E c, p : cmd'[h] = [is |-> c, to |-> Parameter(c, p)]
      BY <2>2, <3>3
    <3> QED BY <2>1, <3>1, <3>2, <3>3
  <2> QED BY <2>4
<1>4. /\ order' = "OPEN" => goal' = PositionOpen
      /\ order' = "CLOSE" => goal' = PositionClosed
  <2>1. CASE order' = order /\ goal' = goal
    BY <2>1 DEF OrderIsKept
  <2>2. CASE order' = "none"
    BY <2>2
  <2>3. \/ order' = order /\ goal' = goal
        \/ order' = "none"
        \/ \E h \in Handlers : Send(h) /\ Accept(h) /\ cmd[h].is \notin {"ON", "OFF"}
    <3>1. CASE \E h \in Handlers : Send(h)
      BY <3>1 DEF Send, Accept, Reject
    <3>2. CASE ~\E h \in Handlers : Send(h)
      BY <3>2 DEF Next, vars, deviceVars, ReadLoop, Receive, SetTarget, Unclaimed, Confirm, Driver,
           Disconnect, Connect, Request, LoadFails, Clear, Add, Hook, Subscribe, UpdateNode,
           ReadPosition, ReadTarget, ShowPosition, ShowState, ReadLimit, ShowLimit, Handle,
           Limits, Fail, Timeout, Travel, Remote, Drop, Pulse
    <3> QED BY <3>1, <3>2
  <2>4. ASSUME NEW h \in Handlers, Send(h), Accept(h), cmd[h].is \notin {"ON", "OFF"},
               order' # "none"
        PROVE  /\ order' = "OPEN" => goal' = PositionOpen
               /\ order' = "CLOSE" => goal' = PositionClosed
    <3>1. /\ goal' = IF cmd[h].to = Current THEN at ELSE Allowed(cmd[h].to)
          /\ order' = cmd[h].is /\ cmd[h].is \in {"OPEN", "CLOSE"} /\ ~limited
      BY <2>4 DEF Accept
    <3>2. cmd[h].to # Current
      BY <1>2, <3>1 DEF PositionOpen, PositionClosed, Current
    <3> QED BY <1>2, <3>1, <3>2 DEF Allowed
  <2> QED BY <2>1, <2>2, <2>3, <2>4
<1> HIDE DEF Apt
<1>5. \A h \in Handlers : /\ cmd'[h].is = "OPEN" => cmd'[h].to = PositionOpen
                          /\ cmd'[h].is = "CLOSE" => cmd'[h].to = PositionClosed
  BY <1>3 DEF Apt
<1> QED BY <1>1, <1>4, <1>5 DEF OrderIsKept

-----------------------------------------------------------------------------

LEMMA InitIInv == Init => IInv
<1> SUFFICES ASSUME Init PROVE IInv
  OBVIOUS
<1> USE Names DEF Init
<1>1. TypeOK
  <2>1. Nothing \in Nodes /\ NoCommand \in Command
    BY Values DEF Nothing, NoCommand, Nodes, Command
  <2>2. wire \in Seq(Frames)
    OBVIOUS
  <2>3. /\ pc \in [Threads -> Labels] /\ on \in [Threads -> {0} \cup Loads]
        /\ seen \in [Threads -> Nodes] /\ cmd \in [Handlers -> Command]
        /\ node \in [Loads -> Nodes]
    BY <2>1 DEF Labels
  <2>4. /\ pulled \in [pos : Readings, target : Readings]
        /\ shown \in [position : Stops, state : States, keepopen : {"on", "off"}]
    BY Values DEF States
  <2> QED BY <2>2, <2>3, <2>4 DEF TypeOK
<1>2. Places /\ Session /\ LoopIsCurrent
  BY DEF Places, Session, LoopIsCurrent
<1>3. Collection
  BY DEF Collection, Updating, Inside
<1>4. Faithful /\ NodeIsRight /\ ShownIsRight /\ KeepOpenIsRight
  BY DEF Faithful, NodeIsRight, ShownIsRight, KeepOpenIsRight
<1>5. Alone
  BY DEF Alone, Inside
<1>6. OrderIsKept
  BY DEF OrderIsKept, NoCommand
<1> QED BY <1>1, <1>2, <1>3, <1>4, <1>5, <1>6 DEF IInv

LEMMA StepIInv == IInv /\ [Next]_vars => IInv'
<1> SUFFICES ASSUME IInv, [Next]_vars PROVE IInv'
  OBVIOUS
<1>1. TypeOK /\ Control
  BY DEF IInv, Control
<1>2. TypeOK' /\ Control'
  BY <1>1, TypeStep, ControlStep DEF IInv, Control
<1>3. Faithful' /\ NodeIsRight' /\ Alone' /\ ShownIsRight' /\ KeepOpenIsRight' /\ OrderIsKept'
  BY <1>1, FaithfulStep, NodeStep, AloneStep, ShownStep, KeepOpenStep, OrderStep DEF IInv
<1> QED BY <1>2, <1>3 DEF IInv, Control

LEMMA Inductive == SafetySpec => []IInv
BY InitIInv, StepIInv, PTL DEF SafetySpec

(* Every variable of the model keeps its type: what is shown of a position *)
(* is a position, never a sentinel (cover.go, PublishPosition), and every  *)
(* thread works on a node that was loaded.                                 *)
THEOREM TypesHold == SafetySpec => []TypeOK
<1>1. IInv => TypeOK
  BY DEF IInv
<1> QED BY <1>1, Inductive, PTL

(* When nothing is under way, the retained topics of a device that is no   *)
(* blind are its position, its movement and the limit of its node          *)
(* (UpdateNode in cover.go), unless the last UpdateNode began beside       *)
(* another or for a node that a reload has replaced, or the last report    *)
(* fell between the answer to a load and the Add of the new node.  Nothing *)
(* else in the interplay of read loop, command handlers, reloads, losses   *)
(* and the remote control can make the topics wrong.                       *)
THEOREM BrokerStaysCurrent == SafetySpec => []BrokerIsCurrent
BY IsCurrent, Inductive, PTL

(* Under the same exceptions, what an OPEN or a CLOSE of Home Assistant    *)
(* did (openFunc and closeFunc in cover.go) is what the state and position *)
(* topics then say in Home Assistant's terms, also for an inverted cover.  *)
THEOREM CommandsKeepTheirMeaning == SafetySpec => []CommandsMeanWhatTheySay
BY Meaning, Inductive, PTL
=============================================================================
