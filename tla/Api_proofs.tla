--------------------------- MODULE Api_proofs ---------------------------
(***************************************************************************)
(* Proofs about Api, for every number of callers, nodes and scenes and     *)
(* every scenario.                                                         *)
(*                                                                         *)
(* QuietOperation speaks of the steps of an operation only.  Its induction *)
(* needs what the heartbeat goroutine does outside of one: it has a call   *)
(* under way only inside a pulse, and a pulse begins only in the loop that *)
(* Stop waits for (Pulsing).                                               *)
(*                                                                         *)
(* ResultsAreTrue speaks of calls that are over.  Its induction needs what *)
(* every answer that is still open says of the call it belongs to: at most *)
(* one of them concerns the call, it tells of the verdict on this request, *)
(* and of a list it holds exactly what the call has not collected yet      *)
(* (Exchanges).  AuthenticatedFirst and LoadIsExact follow from it because *)
(* the driver alone logs in and loads, and leaves no answer behind on a    *)
(* new connection (Undisturbed).                                           *)
(***************************************************************************)
EXTENDS Api, Exchange_proofs, FiniteSetTheorems

Pulsing ==
  /\ at \in [Callers -> {"idle", "wait", "done", "lost"}]
  /\ beat \in {"off", "timer", "state", "status"}
  /\ beat \in {"off", "timer"} => at[Pulse] = "idle"
  /\ driver \notin {"serve", "pause"} => beat = "off"

LEMMA PulsingInit == Init => Pulsing
BY DEF Init, Pulsing, Callers

(* A step on a call of another caller leaves that of the heartbeat alone.  *)
LEMMA OtherCalls ==
  ASSUME Pulsing, NEW c \in Callers, c # Pulse,
         \/ \E op, node, wait : Request(c, op, node, wait)
         \/ Works(c) \/ Fails(c)
  PROVE  /\ at' \in [Callers -> {"idle", "wait", "done", "lost"}]
         /\ at'[Pulse] = at[Pulse]
BY DEF Pulsing, Request, Works, Fails, Leaves, Callers

LEMMA PulsingStep ==
  ASSUME Pulsing, [Next]_vars
  PROVE  Pulsing'
<1> USE ApiAssumption DEF Pulsing
<1>0. Pulse \in Callers /\ Driver \in Callers /\ Driver # Pulse
  BY DEF Callers, Pulse, Driver
<1>1. CASE Answer
  BY <1>1, <1>0 DEF Answer, beatVars
<1>2. CASE Drop \/ Disconnect
  BY <1>2, <1>0 DEF Drop, Disconnect, Hangup, Goto, beatVars
<1>3. CASE StopHeartbeat \/ Stopped \/ Connect \/ StartHeartbeat
  BY <1>3 DEF StopHeartbeat, Stopped, Connect, StartHeartbeat, Goto, callVars, beatVars
<1>4. ASSUME NEW step \in {"reboot", "password", "clock", "monitor", "load"},
             NEW op, Calls(step, op)
      PROVE  Pulsing'
  BY <1>4, <1>0, OtherCalls DEF Calls, beatVars
<1>5. CASE Rebooted \/ Authenticate \/ BestEffort \/ LoadNodes
  BY <1>5, <1>0, OtherCalls DEF Rebooted, Authenticate, BestEffort, LoadNodes, Goto, beatVars
<1>6. CASE TimerFires \/ LoopEnds \/ PulseEnds
  BY <1>6 DEF TimerFires, LoopEnds, PulseEnds, callVars
<1>7. CASE PulseBegins \/ AskStatus
  <2>1. at' \in [Callers -> {"idle", "wait", "done", "lost"}]
    BY <1>7, <1>0 DEF PulseBegins, AskStatus, Request
  <2>2. beat \in {"timer", "status"} /\ beat' \in {"state", "status"} /\ driver' = driver
    BY <1>7 DEF PulseBegins, AskStatus
  <2> QED BY <2>1, <2>2
<1>8. CASE StateKnown \/ StatusKnown
  <2>1. /\ at' \in [Callers -> {"idle", "wait", "done", "lost"}]
        /\ at'[Pulse] = "idle"
    BY <1>8, <1>0 DEF StateKnown, StatusKnown, Works, Fails, Leaves
  <2>2. beat \in {"state", "status"} /\ beat' \in {"status", "timer"} /\ driver' = driver
    BY <1>8 DEF StateKnown, StatusKnown, beatVars
  <2> QED BY <2>1, <2>2
<1>9. ASSUME NEW c \in Others, Other(c) PROVE Pulsing'
  <2>1. c \in Callers /\ c # Pulse
    BY DEF Callers
  <2> QED BY <1>9, <2>1, OtherCalls DEF Other, Ask, Told, beatVars
<1>10. ASSUME NEW c \in Callers, Timeout(c) PROVE Pulsing'
  BY <1>10, <1>0 DEF Timeout, beatVars
<1>11. CASE UNCHANGED vars
  BY <1>11 DEF vars, callVars, beatVars
<1> QED
  BY <1>1, <1>2, <1>3, <1>4, <1>5, <1>6, <1>7, <1>8, <1>9, <1>10, <1>11
     DEF Next, Operation, Loop

(* Heartbeat.Stop has waited for the goroutine: while an operation takes   *)
(* the connection down and up again no call of a pulse is under way, and   *)
(* none begins (heartbeat.go:79-91).                                       *)
THEOREM QuietTheorem == Spec => []QuietOperation
<1>1. Pulsing => QuietOperation
  BY DEF Pulsing, QuietOperation
<1> QED BY PulsingInit, PulsingStep, <1>1, PTL DEF Spec

-----------------------------------------------------------------------------
(* The truth of the results.                                               *)

(* What comes of a call is the truth if its answer can be told from the    *)
(* others.                                                                 *)
Believed(c) == at[c] \in {"wait", "done"} /\ (call[c].op \in Correlated \/ alone[c])

Opened ==
  /\ connected \in BOOLEAN /\ authed \in BOOLEAN
  /\ ~connected => owed = <<>> /\ ~authed
  /\ owed \in Seq(Answers) /\ Len(owed) <= MaxOwed
  /\ \A i \in DOMAIN owed : Shaped(owed[i]) /\ owed[i].frames[1].sid <= MaxSid

Asked ==
  /\ at \in [Callers -> {"idle", "wait", "done", "lost"}]
  /\ call \in [Callers -> CallRecords]
  /\ verdict \in [Callers -> Statuses]
  /\ alone \in [Callers -> BOOLEAN]
  /\ \A c \in Callers : Proper(call[c]) /\ call[c].sid <= MaxSid

Ours(c) == {i \in DOMAIN owed : Concerns(call[c], owed[i])}

Answered(c) ==
  Believed(c) =>
    /\ verdict[c] \in Verdicts(call[c].op)
    /\ Truthful(call[c], verdict[c])
    /\ \A i \in Ours(c) : RestOf(call[c], verdict[c], owed[i])
    /\ \A i, j \in Ours(c) : i = j
    /\ at[c] = "done" /\ call[c].op \in Lists =>
         verdict[c] = "accepted" /\ call[c].collected = Source(call[c].op)
    /\ at[c] = "done" /\ (call[c].op \in Lists \/ call[c].wait) => Ours(c) = {}

Exchanges == Opened /\ Asked /\ \A c \in Callers : Answered(c)

(* The steps of the driver that call, and what they ask.                   *)
Asks == [reboot |-> "Reboot", password |-> "PasswordEnter", clock |-> "SetUTC",
         monitor |-> "HouseStatusMonitorEnable", load |-> "GetAllNodes"]

Driving ==
  /\ scenario \in Scenarios /\ driver \in Steps
  /\ ~scenario.busy => driver = "serve"
  /\ driver = "connect" => ~connected
  /\ at[Driver] # "idle" => driver \in DOMAIN Asks /\ call[Driver].op = Asks[driver]

(* While the application runs, nobody but the driver logs in or loads, so  *)
(* its password and its list are the only ones that the gateway knows of.  *)
Undisturbed ==
  scenario.busy =>
    /\ \A c \in Callers \ {Driver} : call[c].op \notin {"PasswordEnter", "GetAllNodes"}
    /\ driver \in {"password", "load"} /\ at[Driver] \in {"wait", "done"} => alone[Driver]
    /\ driver = "password" /\ at[Driver] = "idle" => ~Pending("PasswordEnter")
    /\ driver \in {"password", "clock", "monitor"} \/ (driver = "load" /\ at[Driver] = "idle")
         => ~Pending("GetAllNodes")

Admitted ==
  /\ driver = "password" /\ at[Driver] \in {"wait", "done"} /\ connected =>
       (authed <=> verdict[Driver] = "accepted")
  /\ AuthenticatedFirst

Known ==
  /\ todo \subseteq Blinds /\ todo \subseteq NodeIds /\ nodes \subseteq NodeIds
  /\ beat \in {"off", "timer", "state", "status"} /\ stopping \in BOOLEAN /\ due \in BOOLEAN
  /\ LoadIsExact

IInv == Exchanges /\ Driving /\ Undisturbed /\ Admitted /\ Known

LEMMA Lists0 == System \in Seq(Nat) /\ SceneList \in Seq(Nat)
BY ApiAssumption

(* There are more session ids than exchanges.                              *)
LEMMA SomeSidIsFree ==
  ASSUME Opened, Asked
  PROVE  FreshSid \in 1 .. MaxSid /\ ~SidInUse(FreshSid)
<1> DEFINE h == [c \in Callers |-> call[c].sid]
           k == [i \in DOMAIN owed |-> owed[i].frames[1].sid]
           U == Range(h)
           V == Range(k)
<1>1. IsFiniteSet(Callers) /\ Cardinality(Callers) \in Nat
  <2>1. IsFiniteSet({Driver, Pulse})
    <3>1. IsFiniteSet({Driver}) /\ IsFiniteSet({Pulse})
      BY FS_Singleton
    <3>2. {Driver, Pulse} = {Driver} \cup {Pulse}
      OBVIOUS
    <3> QED BY <3>1, <3>2, FS_Union
  <2>2. IsFiniteSet({Driver, Pulse} \cup Others)
    BY <2>1, FS_Union, ApiAssumption
  <2> QED BY <2>2, FS_CardinalityType DEF Callers
<1>2. Len(owed) \in 0 .. MaxOwed /\ DOMAIN owed = 1 .. Len(owed)
  BY ApiAssumption DEF Opened
<1>3. IsFiniteSet(DOMAIN owed) /\ Cardinality(DOMAIN owed) = Len(owed)
  <2>1. IsFiniteSet(1 .. Len(owed)) /\ Cardinality(1 .. Len(owed)) = IF 1 > Len(owed) THEN 0 ELSE Len(owed) - 1 + 1
    <3>1. 1 \in Int /\ Len(owed) \in Int
      BY <1>2, ApiAssumption
    <3> QED BY <3>1, FS_Interval
  <2> QED BY <1>2, <2>1, ApiAssumption
<1>4. IsFiniteSet(U) /\ Cardinality(U) <= Cardinality(Callers)
  <2>1. h \in Surjection(Callers, U)
    BY DEF Surjection, Range
  <2> QED BY <1>1, <2>1, FS_Surjection
<1>5. IsFiniteSet(V) /\ Cardinality(V) <= Len(owed)
  <2>1. k \in Surjection(DOMAIN owed, V)
    BY DEF Surjection, Range
  <2> QED BY <1>3, <2>1, FS_Surjection
<1>6. IsFiniteSet(U \cup V) /\ Cardinality(U \cup V) < MaxSid
  <2>1. /\ Cardinality(U) \in Nat /\ Cardinality(V) \in Nat /\ Cardinality(U \cap V) \in Nat
    <3>1. IsFiniteSet(U \cap V)
      BY <1>4, FS_Subset
    <3> QED BY <1>4, <1>5, <3>1, FS_CardinalityType
  <2>2. /\ IsFiniteSet(U \cup V)
        /\ Cardinality(U \cup V) = Cardinality(U) + Cardinality(V) - Cardinality(U \cap V)
    BY <1>4, <1>5, FS_Union
  <2> HIDE DEF U, V
  <2> QED BY <1>1, <1>2, <1>4, <1>5, <2>1, <2>2, ApiAssumption
<1>7. PICK s \in 1 .. MaxSid : s \notin U \cup V
  <2>1. Cardinality(1 .. MaxSid) = MaxSid
    BY FS_Interval, ApiAssumption
  <2>2. ~(1 .. MaxSid \subseteq U \cup V)
    <3> SUFFICES ASSUME 1 .. MaxSid \subseteq U \cup V PROVE FALSE
      OBVIOUS
    <3> HIDE DEF U, V
    <3>1. Cardinality(1 .. MaxSid) <= Cardinality(U \cup V)
      BY <1>6, FS_Subset
    <3>2. Cardinality(U \cup V) \in Nat
      BY <1>6, FS_CardinalityType
    <3> QED BY <1>6, <2>1, <3>1, <3>2, ApiAssumption
  <2> QED BY <2>2
<1>8. ~SidInUse(s)
  <2>1. \A c \in Callers : call[c].sid # s
    BY <1>7 DEF Range
  <2>2. \A i \in DOMAIN owed : owed[i].frames[1].sid # s
    BY <1>7 DEF Range
  <2>3. \A i \in DOMAIN owed : \A j \in DOMAIN owed[i].frames :
          owed[i].frames[j].sid = owed[i].frames[1].sid
    BY DEF Opened, Shaped, Belongs
  <2> QED BY <2>1, <2>2, <2>3 DEF SidInUse
<1> QED BY <1>8 DEF FreshSid

(* The answers that are open when the first frame of one has gone.         *)
Without(q, i) ==
  IF Tail(q[i].frames) = <<>> THEN SubSeq(q, 1, i - 1) \o SubSeq(q, i + 1, Len(q))
  ELSE [q EXCEPT ![i].frames = Tail(q[i].frames)]

\* An answer that is open now is at g[k] before.
ComesFrom(q, i, r, g) ==
  /\ \A k, l \in DOMAIN r : g[k] = g[l] => k = l
  /\ \A k \in DOMAIN r :
       \/ g[k] # i /\ r[k] = q[g[k]]
       \/ /\ g[k] = i /\ Len(q[i].frames) > 1
          /\ r[k].of = q[i].of /\ r[k].frames = Tail(q[i].frames)

(* One frame has gone: every answer that is open now was open before, and  *)
(* only the one that the frame was of is shorter.                          *)
LEMMA Dispatched ==
  ASSUME NEW q \in Seq(Answers), NEW i \in DOMAIN q, Shaped(q[i]),
         NEW r, r = Without(q, i)
  PROVE  /\ r \in Seq(Answers) /\ Len(r) <= Len(q)
         /\ \E g \in [DOMAIN r -> DOMAIN q] : ComesFrom(q, i, r, g)
<1> DEFINE n == Len(q)
           t == Tail(q[i].frames)
<1>1. n \in Nat /\ DOMAIN q = 1 .. n /\ i \in 1 .. n
  OBVIOUS
<1>2. /\ t \in Seq(Frames) /\ Len(t) = Len(q[i].frames) - 1 /\ Len(q[i].frames) \in Nat
      /\ q[i] \in Answers
  <2>1. q[i].frames \in Seq(Frames) /\ q[i].frames # <<>> /\ q[i] \in Answers
    BY DEF Shaped, Answers
  <2> QED BY <2>1, HeadTailProperties
<1> HIDE DEF t
<1>3. CASE t = <<>>
  <2> DEFINE g == [k \in 1 .. n - 1 |-> IF k < i THEN k ELSE k + 1]
  <2>1. /\ r \in Seq(Answers) /\ Len(r) = n - 1
        /\ \A x \in 1 .. n - 1 : r[x] = q[IF x < i THEN x ELSE x + 1]
    <3>1. r = SubSeq(q, 1, i - 1) \o SubSeq(q, i + 1, n)
      BY <1>3 DEF t, Without
    <3> DEFINE a == SubSeq(q, 1, i - 1) \o SubSeq(q, i + 1, n)
    <3>2. /\ a \in Seq(Answers) /\ Len(a) = n - 1
          /\ \A x \in 1 .. n - 1 : a[x] = q[IF x < i THEN x ELSE x + 1]
      BY <1>1, Removed
    <3> HIDE DEF a
    <3>3. r = a
      BY <3>1 DEF a
    <3> QED BY <3>2, <3>3
  <2> HIDE DEF n
  <2>2. DOMAIN r = 1 .. n - 1 /\ n - 1 <= n
    BY <1>1, <2>1
  <2>3. /\ g \in [DOMAIN r -> DOMAIN q]
        /\ \A k, l \in DOMAIN r : g[k] = g[l] => k = l
        /\ \A k \in DOMAIN r : g[k] # i
    <3>1. \A k \in 1 .. n - 1 : g[k] \in 1 .. n /\ g[k] # i
      BY <1>1
    <3>2. \A k, l \in 1 .. n - 1 : g[k] = g[l] => k = l
      BY <1>1
    <3> QED BY <1>1, <2>2, <3>1, <3>2
  <2>4. \A k \in DOMAIN r : r[k] = q[g[k]]
    BY <2>1, <2>2
  <2> HIDE DEF g
  <2>5. \A k \in DOMAIN r : g[k] # i /\ r[k] = q[g[k]]
    BY <2>3, <2>4
  <2>6. r \in Seq(Answers) /\ Len(r) <= n
    BY <2>1, <2>2
  <2>7. ComesFrom(q, i, r, g)
    BY <2>3, <2>5 DEF ComesFrom
  <2> QED BY <2>3, <2>6, <2>7 DEF n
<1>4. CASE t # <<>>
  <2> DEFINE e == [q[i] EXCEPT !.frames = t]
             g == [k \in DOMAIN q |-> k]
  <2>1. e \in Answers /\ e.of = q[i].of /\ e.frames = t
    BY <1>2 DEF Answers
  <2>2. r = [q EXCEPT ![i] = e]
    BY <1>4 DEF t, Without
  <2> HIDE DEF e
  <2>3. /\ r \in Seq(Answers) /\ Len(r) = n
        /\ \A j \in 1 .. n : r[j] = IF j = i THEN e ELSE q[j]
    <3>1. i \in 1 .. Len(q) /\ n = Len(q)
      BY <1>1
    <3> HIDE DEF n
    <3>2. /\ [q EXCEPT ![i] = e] \in Seq(Answers) /\ Len([q EXCEPT ![i] = e]) = Len(q)
          /\ \A j \in 1 .. Len(q) : [q EXCEPT ![i] = e][j] = IF j = i THEN e ELSE q[j]
      BY <2>1, <3>1, ExceptSeq
    <3> QED BY <2>2, <3>1, <3>2
  <2> HIDE DEF n
  <2>4. DOMAIN r = 1 .. n /\ DOMAIN r = DOMAIN q
    BY <1>1, <2>3
  <2>5. Len(q[i].frames) > 1
    <3>1. Len(t) \in Nat \ {0}
      BY <1>2, <1>4, EmptySeq
    <3> DEFINE m == Len(q[i].frames)
    <3>2. Len(t) = m - 1 /\ m \in Nat
      BY <1>2
    <3> HIDE DEF m
    <3>3. m > 1
      BY <3>1, <3>2
    <3> QED BY <3>3 DEF m
  <2>6. /\ g \in [DOMAIN r -> DOMAIN q]
        /\ \A k \in DOMAIN r : g[k] = k
    BY <2>4
  <2> HIDE DEF g
  <2>7. \A k \in DOMAIN r : \/ g[k] # i /\ r[k] = q[g[k]]
                            \/ g[k] = i /\ Len(q[i].frames) > 1 /\ r[k].of = q[i].of /\ r[k].frames = t
    BY <2>1, <2>3, <2>4, <2>5, <2>6
  <2>8. Len(r) <= n
    BY <1>1, <2>3
  <2>9. \A k, l \in DOMAIN r : g[k] = g[l] => k = l
    BY <2>6
  <2>10. r \in Seq(Answers)
    BY <2>3
  <2>11. ComesFrom(q, i, r, g)
    BY <2>7, <2>9 DEF ComesFrom, t
  <2> QED BY <2>6, <2>8, <2>10, <2>11 DEF n
<1> QED BY <1>3, <1>4

(* What a step on the exchanges leaves as it is, for the driver: whose     *)
(* calls there are and whose answers.                                      *)
KeepsKinds ==
  /\ \A c \in Callers : call'[c].op = call[c].op
  /\ \A k \in DOMAIN owed' : \E i \in DOMAIN owed : owed'[k].of = owed[i].of

(* One frame is dispatched.                                                *)
LEMMA AnswerStep ==
  ASSUME Exchanges, Answer
  PROVE  /\ Exchanges' /\ KeepsKinds
         /\ \A c \in Callers : /\ at'[c] = "idle" <=> at[c] = "idle"
                               /\ at'[c] \in {"wait", "done"} <=> at[c] \in {"wait", "done"}
<1> USE Lists0
<1>1. PICK i \in DOMAIN owed :
        /\ owed' = Without(owed, i)
        /\ call' = [c \in Callers |-> IF at[c] \in {"wait", "done"}
                                      THEN Notes(call[c], Head(owed[i].frames)) ELSE call[c]]
        /\ at' = [c \in Callers |-> IF at[c] = "wait" /\ Ends(call[c], Head(owed[i].frames))
                                    THEN "done" ELSE at[c]]
  BY DEF Answer, Without
<1> DEFINE e == owed[i]
           f == e.frames[1]
<1>2. /\ Opened /\ Asked /\ owed \in Seq(Answers) /\ Shaped(e) /\ e.frames[1].sid <= MaxSid
      /\ \A c \in Callers : Answered(c)
  BY DEF Exchanges, Opened
<1>3. Head(owed[i].frames) = f
  BY <1>2 DEF Shaped, Answers
<1>4. /\ owed' \in Seq(Answers) /\ Len(owed') <= Len(owed)
      /\ \E g \in [DOMAIN owed' -> DOMAIN owed] : ComesFrom(owed, i, owed', g)
  <2> HIDE Lists0
  <2>1. owed \in Seq(Answers) /\ Shaped(owed[i]) /\ owed' = Without(owed, i)
    BY <1>1, <1>2
  <2> HIDE DEF e, f
  <2> QED BY <2>1, Dispatched
<1>5. PICK g \in [DOMAIN owed' -> DOMAIN owed] :
           /\ \A k, l \in DOMAIN owed' : g[k] = g[l] => k = l
           /\ \A k \in DOMAIN owed' :
                \/ g[k] # i /\ owed'[k] = owed[g[k]]
                \/ /\ g[k] = i /\ Len(e.frames) > 1
                   /\ owed'[k].of = e.of /\ owed'[k].frames = Tail(e.frames)
  BY <1>4 DEF ComesFrom
<1>6. UNCHANGED <<connected, authed, verdict, alone>>
  BY DEF Answer
<1>7. \A c \in Callers :
        /\ call'[c] = IF at[c] \in {"wait", "done"} THEN Notes(call[c], f) ELSE call[c]
        /\ at'[c] = IF at[c] = "wait" /\ Ends(call[c], f) THEN "done" ELSE at[c]
        /\ call[c] \in CallRecords /\ Proper(call[c]) /\ call[c].sid <= MaxSid
        /\ at[c] \in {"idle", "wait", "done", "lost"}
  BY <1>1, <1>2, <1>3 DEF Asked
<1>8. /\ call' = [c \in Callers |-> call'[c]] /\ at' = [c \in Callers |-> at'[c]]
  BY <1>1
<1>9. \A k \in DOMAIN owed' : owed'[k] \in Answers
  BY <1>4
<1> HIDE DEF e, f
<1>10. ASSUME NEW c \in Callers
       PROVE  /\ call'[c] \in CallRecords /\ Proper(call'[c])
              /\ call'[c].op = call[c].op /\ call'[c].sid = call[c].sid
              /\ call'[c].node = call[c].node /\ call'[c].wait = call[c].wait
              /\ at'[c] \in {"idle", "wait", "done", "lost"}
              /\ at'[c] \in {"wait", "done"} <=> at[c] \in {"wait", "done"}
  <2>1. Notes(call[c], f) \in CallRecords /\ Proper(Notes(call[c], f)) /\ f \in Frames
    BY <1>2, <1>7, NotesProper DEF f
  <2>2. /\ Notes(call[c], f).op = call[c].op /\ Notes(call[c], f).sid = call[c].sid
        /\ Notes(call[c], f).node = call[c].node /\ Notes(call[c], f).wait = call[c].wait
    BY <1>7, <2>1, NotesKeep
  <2> QED BY <1>7, <2>1, <2>2
<1>11. ASSUME NEW k \in DOMAIN owed'
       PROVE  /\ Shaped(owed'[k]) /\ owed'[k].of = owed[g[k]].of
              /\ owed'[k].frames[1].sid = owed[g[k]].frames[1].sid
              /\ owed'[k].frames[1].sid <= MaxSid
  <2>1. CASE g[k] # i
    BY <1>2, <1>5, <2>1 DEF Opened
  <2>2. CASE g[k] = i
    <3>1. /\ Len(e.frames) > 1 /\ owed'[k].of = e.of /\ owed'[k].frames = Tail(e.frames)
          /\ owed'[k] \in Answers
      BY <1>5, <1>9, <2>2
    <3>2. Shaped(owed'[k]) /\ owed'[k].frames[1].sid = e.frames[1].sid
      BY <1>2, <3>1, Remainder
    <3> QED BY <1>2, <2>2, <3>1, <3>2 DEF e
  <2> QED BY <2>1, <2>2
<1>12. Opened'
  <2>1. Len(owed') <= MaxOwed
    <3>1. Len(owed') \in Nat /\ Len(owed) \in Nat /\ Len(owed) <= MaxOwed /\ MaxOwed \in Nat
      BY <1>2, <1>4, ApiAssumption DEF Opened
    <3> QED BY <1>4, <3>1
  <2>2. connected
    <3>1. owed # <<>>
      BY <1>2
    <3> QED BY <1>2, <3>1 DEF Opened
  <2> QED BY <1>2, <1>4, <1>6, <1>11, <2>1, <2>2 DEF Opened
<1>13. Asked'
  <2>1. call' \in [Callers -> CallRecords] /\ at' \in [Callers -> {"idle", "wait", "done", "lost"}]
    BY <1>8, <1>10
  <2>2. \A c \in Callers : Proper(call'[c]) /\ call'[c].sid <= MaxSid
    BY <1>7, <1>10
  <2> QED BY <1>2, <1>6, <2>1, <2>2 DEF Asked
<1>14. ASSUME NEW c \in Callers, Believed(c)' PROVE Answered(c)'
  <2>1. Believed(c)
    BY <1>6, <1>10, <1>14 DEF Believed
  <2>2. /\ verdict[c] \in Verdicts(call[c].op) /\ Truthful(call[c], verdict[c])
        /\ \A x \in Ours(c) : RestOf(call[c], verdict[c], owed[x])
        /\ \A x, y \in Ours(c) : x = y
        /\ at[c] = "done" /\ call[c].op \in Lists =>
             verdict[c] = "accepted" /\ call[c].collected = Source(call[c].op)
        /\ at[c] = "done" /\ (call[c].op \in Lists \/ call[c].wait) => Ours(c) = {}
    BY <1>2, <2>1 DEF Answered
  <2>3. \A k \in Ours(c)' : k \in DOMAIN owed' /\ g[k] \in Ours(c)
    BY <1>5, <1>10, <1>11 DEF Ours, Concerns
  <2>4. \A k, l \in Ours(c)' : k = l
    BY <1>5, <2>2, <2>3
  <2>5. CASE ~Concerns(call[c], e)
    <3>1. Notes(call[c], f) = call[c] /\ ~Ends(call[c], f)
      BY <1>2, <1>7, <2>5, HearsNothing DEF f
    <3>2. call'[c] = call[c] /\ at'[c] = at[c] /\ verdict'[c] = verdict[c]
      BY <1>6, <1>7, <3>1
    <3>3. \A k \in Ours(c)' : owed'[k] = owed[g[k]]
      BY <1>5, <2>3, <2>5 DEF Ours, e
    <3>4. \A k \in Ours(c)' : RestOf(call[c], verdict[c], owed'[k])
      BY <2>2, <2>3, <3>3
    <3>5. Ours(c) = {} => Ours(c)' = {}
      BY <2>3
    <3> QED BY <2>2, <2>4, <3>2, <3>4, <3>5 DEF Answered
  <2>6. CASE Concerns(call[c], e)
    <3>1. i \in Ours(c) /\ RestOf(call[c], verdict[c], e)
      BY <2>2, <2>6 DEF Ours, e
    <3>2. \A k \in Ours(c)' : g[k] = i /\ k \in DOMAIN owed'
      BY <2>2, <2>3, <3>1
    <3>3. /\ Truthful(Notes(call[c], f), verdict[c])
          /\ call[c].op \in Lists /\ Ends(call[c], f) =>
               verdict[c] = "accepted" /\ Notes(call[c], f).collected = Source(call[c].op)
          /\ (call[c].op \in Lists \/ call[c].wait) /\ Ends(call[c], f) => Len(e.frames) = 1
          /\ \A d \in Answers : Len(e.frames) > 1 /\ d.of = e.of /\ d.frames = Tail(e.frames) =>
               Concerns(Notes(call[c], f), d) /\ RestOf(Notes(call[c], f), verdict[c], d)
      BY <1>2, <1>7, <2>2, <2>6, <3>1, Hears DEF f
    <3>4. call'[c] = Notes(call[c], f) /\ verdict'[c] = verdict[c]
      BY <1>6, <1>7, <2>1 DEF Believed
    <3>5. \A k \in Ours(c)' : RestOf(call'[c], verdict'[c], owed'[k])
      BY <1>5, <1>9, <3>2, <3>3, <3>4
    <3>6. at'[c] = "done" /\ (call[c].op \in Lists \/ call[c].wait) => Ends(call[c], f)
      BY <1>7, <2>2, <3>1
    <3>7. at'[c] = "done" /\ (call[c].op \in Lists \/ call[c].wait) => Ours(c)' = {}
      <4>1. \A k \in Ours(c)' : Len(e.frames) > 1
        BY <1>5, <3>2
      <4>2. Len(e.frames) > 1 => Len(e.frames) # 1
        <5> DEFINE m == Len(e.frames)
        <5>1. m \in Nat
          BY <1>2 DEF Shaped, Answers
        <5> HIDE DEF m
        <5>2. m > 1 => m # 1
          BY <5>1
        <5> QED BY <5>2 DEF m
      <4> QED BY <3>3, <3>6, <4>1, <4>2
    <3> QED BY <1>10, <2>2, <2>4, <3>3, <3>4, <3>5, <3>6, <3>7 DEF Answered
  <2> QED BY <2>5, <2>6
<1>15. \A c \in Callers : Answered(c)'
  BY <1>14 DEF Answered
<1>16. KeepsKinds
  BY <1>5, <1>10, <1>11 DEF KeepsKinds
<1> QED BY <1>7, <1>10, <1>12, <1>13, <1>15, <1>16 DEF Exchanges

(* A request.                                                              *)
LEMMA NewCallProper ==
  ASSUME NEW r \in CallRecords, r.collected = <<>>, r.wait => r.op \in Moves,
         r.op \in Reads \cup {"LoadNode"} => r.node \in NodeIds,
         r.op \in Correlated => r.sid # 0,
         r.op \in Lists \cup {"LoadNode"} => r.sid = 0
  PROVE  Proper(r)
BY DEF Proper, NodeIds

LEMMA NoCallIs ==
  NoCall \in CallRecords /\ NoCall.op = "GetState" /\ NoCall.sid = 0 /\ Proper(NoCall)
<1>1. "GetState" \in Ops /\ "GetState" \notin Correlated \cup Lists \cup {"LoadNode"}
  BY DEF Ops, Ungraded, GetState, Correlated, Moves, Reads, Lists
<1>2. /\ NoCall \in CallRecords /\ NoCall.op = "GetState" /\ NoCall.sid = 0
      /\ NoCall.wait = FALSE /\ NoCall.collected = <<>>
  BY <1>1 DEF NoCall, NewCall, CallRecords, Numbers
<1> QED BY <1>1, <1>2, NewCallProper DEF Correlated

(* What a request of c does, and to whom.                                  *)
Requested(c, op) ==
  /\ call'[c].op = op /\ at[c] = "idle" /\ at'[c] # "idle"
  /\ at'[c] \in {"wait", "done"} => connected
  /\ alone'[c] <=> Similar(op) = {} /\ ~Pending(op)
  /\ op \in PasswordEnter /\ connected => (authed' <=> verdict'[c] = "accepted")
  /\ op \notin PasswordEnter => authed' = authed
  /\ \A d \in Callers \ {c} :
       /\ call'[d] = call[d] /\ at'[d] = at[d] /\ verdict'[d] = verdict[d]
       /\ alone'[d] <=> alone[d] /\ d \notin Similar(op)
  /\ \A o \in Ops : o # op /\ ~Pending(o) => ~Pending(o)'
  /\ connected' = connected

(* A request of another caller disturbs no call whose answer can be told   *)
(* from its own.                                                           *)
LEMMA RequestStep ==
  ASSUME Exchanges, NEW c \in Callers, NEW op \in Ops, NEW node \in Nat, NEW wait \in BOOLEAN,
         wait => op \in Moves, op \in Reads \cup {"LoadNode"} => node \in NodeIds,
         Request(c, op, node, wait)
  PROVE  Exchanges' /\ Requested(c, op)
<1> USE Lists0
<1> DEFINE sid == IF op \in Correlated \cup {"SetLimitation"} THEN FreshSid ELSE 0
           new == NewCall(op, sid, node, wait)
<1>1. /\ Opened /\ Asked /\ \A d \in Callers : Answered(d)
      /\ FreshSid \in 1 .. MaxSid /\ ~SidInUse(FreshSid)
  BY SomeSidIsFree DEF Exchanges
<1>2. sid \in Nat /\ sid <= MaxSid /\ (op \in Correlated => sid # 0 /\ ~SidInUse(sid))
      /\ (op \in Lists \cup {"LoadNode"} => sid = 0)
      /\ (sid # 0 => ~SidInUse(sid))
  <2>1. op \in Lists \cup {"LoadNode"} => op \notin Correlated \cup {"SetLimitation"}
    BY Kinds DEF Lists
  <2> QED BY <1>1, <2>1, ApiAssumption
<1> HIDE DEF sid
<1>3. /\ new \in CallRecords /\ new.op = op /\ new.sid = sid /\ new.node = node
      /\ new.wait = wait /\ new.success = FALSE /\ new.collected = <<>>
  BY <1>2 DEF NewCall, CallRecords, Numbers
<1>4. /\ call' = [call EXCEPT ![c] = new] /\ at[c] = "idle"
      /\ at' = [at EXCEPT ![c] = IF connected THEN "wait" ELSE "lost"]
      /\ alone' = [d \in Callers |-> IF d = c THEN Similar(op) = {} /\ ~Pending(op)
                                     ELSE alone[d] /\ d \notin Similar(op)]
      /\ connected' = connected
  BY DEF Request, sid
<1>5. PICK v \in Verdicts(op) :
        /\ verdict' = [verdict EXCEPT ![c] = v]
        /\ authed' = IF connected /\ op \in PasswordEnter THEN v = "accepted" ELSE authed
        /\ owed' = IF connected /\ Len(owed) < MaxOwed
                   THEN Append(owed, [of |-> op, frames |-> Replies(new, v)]) ELSE owed
  BY Zenon DEF Request, sid
<1> HIDE DEF new
<1>6. Proper(new)
  BY <1>2, <1>3, NewCallProper
<1> DEFINE e == [of |-> new.op, frames |-> Replies(new, v)]
<1>7. /\ Shaped(e) /\ e.frames[1].sid = sid /\ e.of = op
      /\ Concerns(new, e) /\ RestOf(new, v, e) /\ e \in Answers
  <2>1. Shaped(e) /\ e.frames[1].sid = new.sid /\ Concerns(new, e) /\ RestOf(new, v, e)
    BY <1>3, <1>6, NewAnswer
  <2> QED BY <1>3, <2>1 DEF Shaped
<1>8. owed' = owed \/ (connected /\ Len(owed) < MaxOwed /\ owed' = Append(owed, e))
  BY <1>3, <1>5
<1> HIDE DEF e
<1>9. /\ owed \in Seq(Answers) /\ Len(owed) \in Nat /\ DOMAIN owed = 1 .. Len(owed)
      /\ Len(owed) <= MaxOwed
  BY <1>1 DEF Opened
<1>10. \/ owed' = owed
       \/ /\ connected /\ owed' \in Seq(Answers) /\ Len(owed') <= MaxOwed
          /\ DOMAIN owed' = DOMAIN owed \cup {Len(owed) + 1}
          /\ owed'[Len(owed) + 1] = e /\ \A i \in DOMAIN owed : owed'[i] = owed[i]
  <2>1. CASE owed' = Append(owed, e) /\ connected /\ Len(owed) < MaxOwed
    <3>1. /\ Append(owed, e) \in Seq(Answers) /\ Len(Append(owed, e)) = Len(owed) + 1
          /\ \A i \in 1 .. Len(owed) : Append(owed, e)[i] = owed[i]
          /\ Append(owed, e)[Len(owed) + 1] = e
      BY <1>7, <1>9, AppendProperties
    <3> DEFINE q == owed'
               n == Len(owed)
    <3>2. q \in Seq(Answers) /\ Len(q) = n + 1 /\ n \in Nat /\ n < MaxOwed
      BY <1>9, <2>1, <3>1
    <3> HIDE DEF q, n
    <3>3. DOMAIN q = 1 .. n \cup {n + 1} /\ Len(q) <= MaxOwed
      BY <3>2, ApiAssumption
    <3> QED BY <1>9, <2>1, <3>1, <3>2, <3>3 DEF q, n
  <2> QED BY <1>8, <2>1
<1>11. ASSUME NEW k \in DOMAIN owed' PROVE (k \in DOMAIN owed /\ owed'[k] = owed[k]) \/ owed'[k] = e
  BY <1>10
<1>12. v \in Statuses /\ v \in Verdicts(new.op)
  BY <1>3 DEF Verdicts, Statuses
<1>13. /\ call'[c] = new /\ at'[c] = (IF connected THEN "wait" ELSE "lost") /\ verdict'[c] = v
       /\ alone'[c] <=> Similar(op) = {} /\ ~Pending(op)
       /\ \A d \in Callers \ {c} :
            /\ call'[d] = call[d] /\ at'[d] = at[d] /\ verdict'[d] = verdict[d]
            /\ alone'[d] <=> alone[d] /\ d \notin Similar(op)
  <2>1. /\ at \in [Callers -> {"idle", "wait", "done", "lost"}]
        /\ call \in [Callers -> CallRecords] /\ verdict \in [Callers -> Statuses]
    BY <1>1 DEF Asked
  <2> QED BY <1>4, <1>5, <2>1
<1>14. Asked'
  <2>1. at' \in [Callers -> {"idle", "wait", "done", "lost"}]
    BY <1>1, <1>4 DEF Asked
  <2>2. call' \in [Callers -> CallRecords]
    BY <1>1, <1>3, <1>4 DEF Asked
  <2>3. verdict' \in [Callers -> Statuses]
    BY <1>1, <1>5, <1>12 DEF Asked
  <2>4. alone' \in [Callers -> BOOLEAN]
    BY <1>4, Zenon
  <2>5. \A d \in Callers : Proper(call'[d]) /\ call'[d].sid <= MaxSid
    BY <1>1, <1>2, <1>3, <1>6, <1>13 DEF Asked
  <2> QED BY <2>1, <2>2, <2>3, <2>4, <2>5 DEF Asked
<1>15. Opened'
  <2>1. owed' \in Seq(Answers) /\ Len(owed') <= MaxOwed
    BY <1>9, <1>10
  <2>2. \A i \in DOMAIN owed' : Shaped(owed'[i]) /\ owed'[i].frames[1].sid <= MaxSid
    BY <1>1, <1>2, <1>7, <1>11 DEF Opened
  <2>3. ~connected => owed' = <<>> /\ ~authed'
    BY <1>1, <1>5, <1>8 DEF Opened
  <2>4. authed' \in BOOLEAN /\ connected' \in BOOLEAN
    BY <1>1, <1>4, <1>5, Zenon DEF Opened
  <2> QED BY <1>4, <2>1, <2>2, <2>3, <2>4 DEF Opened
<1>16. ASSUME NEW d \in Callers \ {c}, Believed(d)' PROVE Answered(d)'
  <2>1. /\ Believed(d) /\ call'[d] = call[d] /\ at'[d] = at[d] /\ verdict'[d] = verdict[d]
        /\ call[d].op \in Correlated \/ d \notin Similar(op)
    BY <1>13, <1>16 DEF Believed
  <2>2. ~Concerns(call[d], e)
    <3>1. CASE call[d].op \in Correlated
      <4>1. call[d].sid # 0 /\ SidInUse(call[d].sid)
        BY <1>1, <2>1, <3>1 DEF Asked, Proper, SidInUse, Believed
      <4> QED BY <1>2, <1>7, <3>1, <4>1 DEF Concerns
    <3>2. CASE call[d].op \notin Correlated
      <4>1. call[d].op # op
        BY <2>1, <3>2 DEF Similar, Believed
      <4> QED BY <1>7, <3>2, <4>1 DEF Concerns
    <3> QED BY <3>1, <3>2
  <2>3. Answered(d)
    BY <1>1
  <2>4. \A k \in Ours(d)' : k \in Ours(d) /\ owed'[k] = owed[k]
    BY <1>11, <2>1, <2>2 DEF Ours
  <2>5. Ours(d) = {} => Ours(d)' = {}
    BY <2>4
  <2> QED BY <2>1, <2>3, <2>4, <2>5 DEF Answered
<1>17. ASSUME Believed(c)' PROVE Answered(c)'
  <2>1. at'[c] = "wait" /\ (op \in Correlated \/ ~Pending(op))
    BY <1>3, <1>13, <1>17 DEF Believed
  <2>2. \A k \in DOMAIN owed : ~Concerns(new, owed[k])
    <3> TAKE k \in DOMAIN owed
    <3>1. CASE op \in Correlated
      <4>1. 1 \in DOMAIN owed[k].frames
        <5>1. Shaped(owed[k])
          BY <1>1 DEF Opened
        <5>2. owed[k].frames \in Seq(Frames) /\ Len(owed[k].frames) > 0
          BY <5>1 DEF Shaped, Answers
        <5> QED BY <5>2
      <4>2. owed[k].frames[1].sid # sid
        BY <1>2, <3>1, <4>1 DEF SidInUse
      <4> QED BY <1>3, <3>1, <4>2 DEF Concerns
    <3>2. CASE op \notin Correlated
      BY <1>3, <2>1, <3>2 DEF Concerns, Pending
    <3> QED BY <3>1, <3>2
  <2>3. \A k \in Ours(c)' : owed'[k] = e /\ k \notin DOMAIN owed
    BY <1>10, <1>13, <2>2 DEF Ours
  <2>4. \A k, l \in Ours(c)' : k = l
    BY <1>10, <2>3 DEF Ours
  <2>5. Truthful(new, v)
    BY <1>3 DEF Truthful
  <2>6. \A k \in Ours(c)' : RestOf(new, v, owed'[k])
    BY <1>7, <2>3
  <2> QED BY <1>12, <1>13, <2>1, <2>4, <2>5, <2>6 DEF Answered
<1>18. Exchanges'
  BY <1>14, <1>15, <1>16, <1>17 DEF Exchanges, Answered
<1>19. \A o \in Ops : o # op /\ ~Pending(o) => ~Pending(o)'
  BY <1>7, <1>11 DEF Pending
<1>20. /\ op \in PasswordEnter /\ connected => (authed' <=> verdict'[c] = "accepted")
       /\ op \notin PasswordEnter => authed' = authed
  BY <1>5, <1>13
<1> QED BY <1>3, <1>4, <1>13, <1>18, <1>19, <1>20 DEF Requested

\* Most calls do not wait for the end of a movement.
LEMMA WithoutWaiting ==
  ASSUME NEW c, NEW op, NEW node, Request(c, op, node, FALSE)
  PROVE  \E wait \in BOOLEAN : (wait => op \in Moves) /\ Request(c, op, node, wait)
<1> WITNESS FALSE \in BOOLEAN
<1> QED BY Zenon

(* The connection is gone.                                                 *)
LEMMA HangupStep ==
  ASSUME Exchanges, Hangup, UNCHANGED <<call, verdict, alone>>
  PROVE  /\ Exchanges' /\ KeepsKinds
         /\ \A c \in Callers : /\ at'[c] = IF at[c] = "wait" THEN "lost" ELSE at[c]
                               /\ call'[c] = call[c] /\ verdict'[c] = verdict[c]
<1>1. Opened /\ Asked /\ \A c \in Callers : Answered(c)
  BY DEF Exchanges
<1>2. /\ connected' = FALSE /\ authed' = FALSE /\ owed' = <<>>
      /\ at' = [c \in Callers |-> IF at[c] = "wait" THEN "lost" ELSE at[c]]
      /\ \A c \in Callers : at'[c] = IF at[c] = "wait" THEN "lost" ELSE at[c]
  BY DEF Hangup
<1>3. DOMAIN owed' = {} /\ owed' \in Seq(Answers) /\ Len(owed') = 0
  BY <1>2
<1>4. Opened'
  <2>1. Len(owed') <= MaxOwed
    BY <1>3, ApiAssumption
  <2>2. connected' \in BOOLEAN /\ authed' \in BOOLEAN /\ ~authed'
    BY <1>2, Zenon
  <2> QED BY <1>2, <1>3, <2>1, <2>2 DEF Opened
<1>5. Asked'
  BY <1>1, <1>2 DEF Asked
<1>6. \A c \in Callers : Ours(c)' = {}
  BY <1>3 DEF Ours
<1>7. \A c \in Callers : Answered(c)'
  BY <1>1, <1>2, <1>6 DEF Answered, Believed
<1> QED BY <1>2, <1>3, <1>4, <1>5, <1>7 DEF Exchanges, KeepsKinds

(* A call returns, or gives up.                                            *)
LEMMA LeavesStep ==
  ASSUME Exchanges, NEW c \in Callers, Leaves(c)
  PROVE  /\ Exchanges' /\ UNCHANGED gateway
         /\ at'[c] = "idle" /\ call'[c].op = "GetState"
         /\ \A d \in Callers \ {c} : /\ call'[d] = call[d] /\ at'[d] = at[d]
                                     /\ verdict'[d] = verdict[d] /\ alone'[d] = alone[d]
<1>1. Opened /\ Asked /\ \A d \in Callers : Answered(d)
  BY DEF Exchanges
<1>2. /\ at' = [at EXCEPT ![c] = "idle"] /\ call' = [call EXCEPT ![c] = NoCall]
      /\ verdict' = [verdict EXCEPT ![c] = "rejected"]
      /\ alone' = [alone EXCEPT ![c] = TRUE] /\ UNCHANGED gateway
  BY DEF Leaves
<1>3. NoCall \in CallRecords /\ NoCall.op = "GetState" /\ NoCall.sid = 0 /\ Proper(NoCall)
  BY NoCallIs
<1>4. /\ at'[c] = "idle" /\ call'[c] = NoCall
      /\ \A d \in Callers \ {c} : /\ call'[d] = call[d] /\ at'[d] = at[d]
                                  /\ verdict'[d] = verdict[d] /\ alone'[d] = alone[d]
  BY <1>1, <1>2 DEF Asked
<1>5. Asked'
  <2>1. /\ at' \in [Callers -> {"idle", "wait", "done", "lost"}]
        /\ call' \in [Callers -> CallRecords]
        /\ verdict' \in [Callers -> Statuses]
    BY <1>1, <1>2, <1>3 DEF Asked, Statuses
  <2>2. alone' \in [Callers -> BOOLEAN]
    BY <1>1, <1>2 DEF Asked
  <2>3. \A d \in Callers : Proper(call'[d]) /\ call'[d].sid <= MaxSid
    BY <1>1, <1>3, <1>4, ApiAssumption DEF Asked
  <2> QED BY <2>1, <2>2, <2>3 DEF Asked
<1>6. Opened'
  BY <1>1, <1>2 DEF Opened, gateway
<1>7. \A d \in Callers : Answered(d)'
  <2> TAKE d \in Callers
  <2>1. CASE d = c
    BY <1>4, <2>1 DEF Answered, Believed
  <2>2. CASE d # c
    <3>1. UNCHANGED <<call[d], at[d], verdict[d], alone[d], owed>>
      BY <1>2, <1>4, <2>2 DEF gateway
    <3>2. Ours(d)' = Ours(d) /\ Believed(d)' = Believed(d)
      BY <3>1 DEF Ours, Believed
    <3> QED BY <1>1, <3>1, <3>2 DEF Answered
  <2> QED BY <2>1, <2>2
<1> QED BY <1>2, <1>3, <1>4, <1>5, <1>6, <1>7 DEF Exchanges

LEMMA TimeoutStep ==
  ASSUME Exchanges, NEW c \in Callers, Timeout(c)
  PROVE  /\ Exchanges' /\ KeepsKinds
         /\ at[c] = "wait" /\ at'[c] = "lost" /\ \A d \in Callers \ {c} : at'[d] = at[d]
<1>1. Opened /\ Asked /\ \A d \in Callers : Answered(d)
  BY DEF Exchanges
<1>2. /\ at[c] = "wait" /\ at' = [at EXCEPT ![c] = "lost"]
      /\ UNCHANGED <<connected, authed, owed, call, verdict, alone>>
  BY DEF Timeout, gateway
<1>3. at'[c] = "lost" /\ \A d \in Callers \ {c} : at'[d] = at[d]
  BY <1>1, <1>2 DEF Asked
<1>4. Opened' /\ Asked'
  BY <1>1, <1>2 DEF Opened, Asked
<1>5. \A d \in Callers : Ours(d)' = Ours(d)
  BY <1>2 DEF Ours
<1>6. \A d \in Callers : Answered(d)'
  BY <1>1, <1>2, <1>3, <1>5 DEF Answered, Believed
<1> QED BY <1>2, <1>3, <1>4, <1>6 DEF Exchanges, KeepsKinds

(* Nothing happens to the exchanges, except that there may be a new        *)
(* connection.                                                             *)
LEMMA QuietStep ==
  ASSUME Exchanges, UNCHANGED <<authed, owed, callVars>>,
         connected' = connected \/ connected' = TRUE
  PROVE  Exchanges' /\ KeepsKinds
<1>1. UNCHANGED <<authed, owed, at, call, verdict, alone>>
  BY DEF callVars
<1>2. Opened' /\ Asked'
  <2>1. connected' \in BOOLEAN /\ (~connected' => ~connected)
    <3>1. connected \in BOOLEAN
      BY DEF Exchanges, Opened
    <3>2. CASE connected' = connected
      BY <3>1, <3>2
    <3>3. CASE connected' = TRUE
      BY <3>3, Zenon
    <3> QED BY <3>2, <3>3
  <2> QED BY <1>1, <2>1 DEF Exchanges, Opened, Asked
<1>3. \A c \in Callers : Ours(c)' = Ours(c) /\ Answered(c)
  BY <1>1 DEF Exchanges, Ours
<1>4. \A c \in Callers : Answered(c)'
  BY <1>1, <1>3 DEF Answered, Believed
<1> QED BY <1>1, <1>2, <1>4 DEF Exchanges, KeepsKinds

-----------------------------------------------------------------------------
(* The driver.                                                             *)

DriverFacts == Driving /\ Undisturbed /\ Admitted

LEMMA Persons == Driver \in Callers /\ Pulse \in Callers /\ Driver # Pulse
                 /\ Others \subseteq Callers \ {Driver, Pulse}
BY ApiAssumption DEF Callers, Driver, Pulse

LEMMA Scenes ==
  ASSUME Driving
  PROVE  /\ scenario.ops \subseteq Ops /\ scenario.busy \in BOOLEAN
         /\ scenario.busy => \A op \in scenario.ops : op \notin {"PasswordEnter", "GetAllNodes"}
BY ApiAssumption DEF Driving

LEMMA AskedKinds ==
  /\ DOMAIN Asks = {"reboot", "password", "clock", "monitor", "load"}
  /\ Asks["reboot"] = "Reboot" /\ Asks["password"] = "PasswordEnter" /\ Asks["clock"] = "SetUTC"
  /\ Asks["monitor"] = "HouseStatusMonitorEnable" /\ Asks["load"] = "GetAllNodes"
  /\ \A s \in DOMAIN Asks : Asks[s] \in Ops \ (Moves \cup Reads \cup {"LoadNode"})
BY DEF Asks, Ops, Graded, Ungraded, Lists, PasswordEnter, SetUTC, Resets, HouseStatusMonitor,
       Moves, Reads

(* Nothing that the driver does, nor a request of others.                  *)
LEMMA CalmStep ==
  ASSUME DriverFacts, KeepsKinds, UNCHANGED <<scenario, driver, alone>>,
         at'[Driver] = "idle" <=> at[Driver] = "idle",
         at'[Driver] \in {"wait", "done"} => at[Driver] \in {"wait", "done"},
         connected' => connected /\ authed' = authed /\ verdict'[Driver] = verdict[Driver]
  PROVE  DriverFacts'
<1>1. \A op : ~Pending(op) => ~Pending(op)'
  BY DEF KeepsKinds, Pending
<1>2. \A c \in Callers : call'[c].op = call[c].op
  BY DEF KeepsKinds
<1>3. scenario' = scenario /\ driver' = driver /\ alone' = alone
  OBVIOUS
<1>4. Driving'
  BY <1>2, <1>3, Persons DEF DriverFacts, Driving
<1>5. Undisturbed'
  BY <1>1, <1>2, <1>3 DEF DriverFacts, Undisturbed
<1>6. Admitted'
  BY <1>3 DEF DriverFacts, Admitted, AuthenticatedFirst
<1> QED BY <1>4, <1>5, <1>6 DEF DriverFacts

(* A request of another caller.                                            *)
LEMMA OthersRequest ==
  ASSUME Exchanges, DriverFacts, NEW c \in Callers \ {Driver},
         NEW op \in Ops, NEW node \in Nat, NEW wait \in BOOLEAN,
         wait => op \in Moves, op \in Reads \cup {"LoadNode"} => node \in NodeIds,
         scenario.busy => op \notin {"PasswordEnter", "GetAllNodes"},
         Request(c, op, node, wait), UNCHANGED <<scenario, driver>>
  PROVE  Exchanges' /\ DriverFacts'
<1>1. /\ Exchanges'
      /\ call'[c].op = op
      /\ op \notin PasswordEnter => authed' = authed
      /\ \A d \in Callers \ {c} :
           /\ call'[d] = call[d] /\ at'[d] = at[d] /\ verdict'[d] = verdict[d]
           /\ alone'[d] <=> alone[d] /\ d \notin Similar(op)
      /\ \A o \in Ops : o # op /\ ~Pending(o) => ~Pending(o)'
      /\ connected' = connected
  BY RequestStep DEF Requested
<1>2. Driver \in Callers \ {c}
  BY Persons
<1>3. /\ call'[Driver] = call[Driver] /\ at'[Driver] = at[Driver]
      /\ verdict'[Driver] = verdict[Driver]
      /\ alone'[Driver] <=> alone[Driver] /\ Driver \notin Similar(op)
  BY <1>1, <1>2
<1>4. Driving'
  BY <1>1, <1>3 DEF DriverFacts, Driving
<1>5. Undisturbed'
  <2> SUFFICES ASSUME scenario.busy PROVE Undisturbed'
    BY DEF Undisturbed
  <2>1. op # "PasswordEnter" /\ op # "GetAllNodes"
    OBVIOUS
  <2>2. \A d \in Callers \ {Driver} : call'[d].op \notin {"PasswordEnter", "GetAllNodes"}
    BY <1>1, <2>1 DEF DriverFacts, Undisturbed
  <2>3. /\ ~Pending("PasswordEnter") => ~Pending("PasswordEnter")'
        /\ ~Pending("GetAllNodes") => ~Pending("GetAllNodes")'
    BY <1>1, <2>1, AskedKinds
  <2>4. driver \in {"password", "load"} /\ at[Driver] \in {"wait", "done"} => Driver \notin Similar(op)
    <3>1. driver \in {"password", "load"} /\ at[Driver] \in {"wait", "done"} =>
            call[Driver].op \in {"PasswordEnter", "GetAllNodes"}
      BY AskedKinds DEF DriverFacts, Driving
    <3> QED BY <2>1, <3>1 DEF Similar
  <2> QED BY <1>3, <2>2, <2>3, <2>4 DEF DriverFacts, Undisturbed
<1>6. Admitted'
  <2>1. CASE scenario.busy
    BY <1>1, <1>3, <2>1 DEF DriverFacts, Admitted, AuthenticatedFirst, PasswordEnter
  <2>2. CASE ~scenario.busy
    <3>1. driver' = "serve"
      BY <2>2 DEF DriverFacts, Driving
    <3> QED BY <3>1 DEF Admitted, AuthenticatedFirst
  <2> QED BY <2>1, <2>2
<1> QED BY <1>1, <1>4, <1>5, <1>6 DEF DriverFacts

(* The call of another caller returns.                                     *)
LEMMA OthersReturn ==
  ASSUME Exchanges, DriverFacts, NEW c \in Callers \ {Driver},
         Works(c) \/ Fails(c), UNCHANGED <<scenario, driver>>
  PROVE  Exchanges' /\ DriverFacts'
<1>1. /\ Exchanges' /\ UNCHANGED gateway /\ call'[c].op = "GetState"
      /\ \A d \in Callers \ {c} : /\ call'[d] = call[d] /\ at'[d] = at[d]
                                  /\ verdict'[d] = verdict[d] /\ alone'[d] = alone[d]
  BY LeavesStep DEF Works, Fails
<1>2. Driver \in Callers \ {c}
  BY Persons
<1>3. /\ call'[Driver] = call[Driver] /\ at'[Driver] = at[Driver]
      /\ verdict'[Driver] = verdict[Driver] /\ alone'[Driver] = alone[Driver]
  BY <1>1, <1>2
<1>4. UNCHANGED <<connected, authed, owed>> /\ \A op : Pending(op)' = Pending(op)
  BY <1>1 DEF gateway, Pending
<1>5. Driving'
  BY <1>3, <1>4 DEF DriverFacts, Driving
<1>6. \A d \in Callers \ {Driver} : call'[d].op = "GetState" \/ call'[d] = call[d]
  BY <1>1
<1>7. Undisturbed'
  BY <1>3, <1>4, <1>6 DEF DriverFacts, Undisturbed
<1>8. Admitted'
  BY <1>3, <1>4 DEF DriverFacts, Admitted, AuthenticatedFirst
<1> QED BY <1>1, <1>5, <1>7, <1>8 DEF DriverFacts

(* A request of the driver: on its connection it is the only one of its    *)
(* kind, as far as logging in and loading go.                              *)
LEMMA DriverRequest ==
  ASSUME Exchanges, DriverFacts, NEW step \in DOMAIN Asks, Calls(step, Asks[step])
  PROVE  Exchanges' /\ DriverFacts'
<1> DEFINE op == Asks[step]
<1>0. op \in Ops /\ op \notin Moves \cup Reads \cup {"LoadNode"}
  BY AskedKinds
<1>1. driver = step /\ Request(Driver, op, 0, FALSE) /\ UNCHANGED <<scenario, driver>>
  BY DEF Calls
<1> HIDE DEF op
<1>2. /\ Exchanges'
      /\ call'[Driver].op = op /\ at[Driver] = "idle" /\ at'[Driver] # "idle"
      /\ at'[Driver] \in {"wait", "done"} => connected
      /\ alone'[Driver] <=> Similar(op) = {} /\ ~Pending(op)
      /\ op \in PasswordEnter /\ connected => (authed' <=> verdict'[Driver] = "accepted")
      /\ op \notin PasswordEnter => authed' = authed
      /\ \A d \in Callers \ {Driver} :
           /\ call'[d] = call[d] /\ at'[d] = at[d] /\ verdict'[d] = verdict[d]
           /\ alone'[d] <=> alone[d] /\ d \notin Similar(op)
      /\ \A o \in Ops : o # op /\ ~Pending(o) => ~Pending(o)'
  <2>1. PICK wait \in BOOLEAN : (wait => op \in Moves) /\ Request(Driver, op, 0, wait)
    BY <1>1, WithoutWaiting
  <2>2. Driver \in Callers /\ 0 \in Nat /\ (op \in Reads \cup {"LoadNode"} => 0 \in NodeIds)
    BY <1>0, Persons
  <2> QED BY <1>0, <2>1, <2>2, RequestStep DEF Requested
<1>3. connected' = connected
  BY <1>1 DEF Request
<1>4. scenario.busy
  BY <1>1, AskedKinds DEF DriverFacts, Driving
<1>5. Driving'
  BY <1>1, <1>2, <1>3 DEF DriverFacts, Driving, op
<1>6. step \in {"password", "load"} => Similar(op) = {} /\ ~Pending(op)
  <2>1. step \in {"password", "load"} => op \in {"PasswordEnter", "GetAllNodes"}
    BY AskedKinds DEF op
  <2>2. step \in {"password", "load"} => Similar(op) = {}
    <3>1. \A d \in Callers \ {Driver} : call[d].op \notin {"PasswordEnter", "GetAllNodes"}
      BY <1>4 DEF DriverFacts, Undisturbed
    <3> QED BY <1>2, <2>1, <3>1 DEF Similar
  <2>3. step \in {"password", "load"} => ~Pending(op)
    BY <1>1, <1>2, <1>4, AskedKinds DEF DriverFacts, Undisturbed, op
  <2> QED BY <2>2, <2>3
<1>7. Undisturbed'
  <2>1. \A d \in Callers \ {Driver} : call'[d].op \notin {"PasswordEnter", "GetAllNodes"}
    BY <1>2, <1>4 DEF DriverFacts, Undisturbed
  <2>2. driver' \in {"password", "load"} => alone'[Driver]
    BY <1>1, <1>2, <1>6
  <2>3. driver' \in {"password", "clock", "monitor"} => ~Pending("GetAllNodes")'
    <3>1. driver \in {"password", "clock", "monitor"} => ~Pending("GetAllNodes") /\ op # "GetAllNodes"
      BY <1>1, <1>4, AskedKinds DEF DriverFacts, Undisturbed, op
    <3>2. "GetAllNodes" \in Ops
      BY DEF Ops, Lists
    <3> QED BY <1>1, <1>2, <3>1, <3>2
  <2> QED BY <1>2, <2>1, <2>2, <2>3 DEF Undisturbed
<1>8. Admitted'
  <2>1. CASE step = "password"
    <3>1. op \in PasswordEnter
      BY <2>1, AskedKinds DEF op, PasswordEnter
    <3>2. driver' = "password"
      BY <1>1, <2>1
    <3> QED BY <1>2, <3>1, <3>2 DEF Admitted, AuthenticatedFirst
  <2>2. CASE step # "password"
    <3>1. op \notin PasswordEnter /\ driver' # "password"
      BY <1>1, <2>2, AskedKinds DEF op, PasswordEnter
    <3> QED BY <1>1, <1>2, <1>3, <3>1 DEF DriverFacts, Admitted, AuthenticatedFirst
  <2> QED BY <2>1, <2>2
<1> QED BY <1>2, <1>5, <1>7, <1>8 DEF DriverFacts

(* A call of the driver that worked has the truth, if it is a password or  *)
(* a list.                                                                 *)
LEMMA DriverWorks ==
  ASSUME Exchanges, DriverFacts, scenario.busy, driver \in {"password", "load"}, Works(Driver)
  PROVE  /\ verdict[Driver] = "accepted"
         /\ driver = "load" => call[Driver].collected = System
<1>1. at[Driver] = "done" /\ Succeeds(call[Driver])
  BY DEF Works
<1>2. call[Driver].op = Asks[driver] /\ alone[Driver]
  BY <1>1 DEF DriverFacts, Driving, Undisturbed
<1>3. /\ Truthful(call[Driver], verdict[Driver])
      /\ call[Driver].op \in Lists =>
           verdict[Driver] = "accepted" /\ call[Driver].collected = Source(call[Driver].op)
  BY <1>1, <1>2, Persons DEF Exchanges, Answered, Believed
<1>4. CASE driver = "password"
  <2>1. call[Driver].op = "PasswordEnter"
    BY <1>2, <1>4, AskedKinds
  <2>2. call[Driver].op \notin Lists /\ call[Driver].success
    BY <1>1, <2>1 DEF Lists, Succeeds
  <2> QED BY <1>3, <1>4, <2>2 DEF Truthful
<1>5. CASE driver = "load"
  <2>1. call[Driver].op = "GetAllNodes"
    BY <1>2, <1>5, AskedKinds
  <2> QED BY <1>3, <2>1 DEF Lists, Source
<1> QED BY <1>4, <1>5

(* A call of the driver returns and the driver goes on.                    *)
LEMMA DriverReturn ==
  ASSUME Exchanges, DriverFacts, Works(Driver) \/ Fails(Driver), UNCHANGED scenario,
         Rebooted \/ Authenticate \/ BestEffort \/ LoadNodes
  PROVE  Exchanges' /\ DriverFacts'
<1>1. /\ Exchanges' /\ UNCHANGED gateway /\ at'[Driver] = "idle"
      /\ \A d \in Callers \ {Driver} : /\ call'[d] = call[d] /\ at'[d] = at[d]
                                       /\ verdict'[d] = verdict[d] /\ alone'[d] = alone[d]
  BY LeavesStep, Persons DEF Works, Fails
<1>2. UNCHANGED <<connected, authed, owed>> /\ \A op : Pending(op)' = Pending(op)
  BY <1>1 DEF gateway, Pending
<1>3. \/ driver \in {"reboot", "password", "load"} /\ driver' = "disconnect"
      \/ driver = "password" /\ driver' = "clock" /\ Works(Driver)
      \/ driver = "clock" /\ driver' = "monitor"
      \/ driver = "monitor" /\ driver' = "load"
      \/ driver = "load" /\ driver' = "register"
  BY DEF Rebooted, Authenticate, BestEffort, LoadNodes, Goto
<1>4. scenario.busy
  BY <1>3 DEF DriverFacts, Driving
<1>5. Driving'
  BY <1>1, <1>3, <1>4 DEF DriverFacts, Driving, Steps
<1>6. Undisturbed'
  BY <1>1, <1>2, <1>3, <1>4 DEF DriverFacts, Undisturbed
<1>7. Admitted'
  <2>1. CASE driver' = "disconnect"
    BY <2>1 DEF Admitted, AuthenticatedFirst
  <2>2. CASE driver = "password" /\ driver' = "clock" /\ Works(Driver)
    <3>1. verdict[Driver] = "accepted" /\ at[Driver] = "done"
      BY <1>4, <2>2, DriverWorks DEF Works
    <3> QED BY <1>2, <2>2, <3>1 DEF DriverFacts, Admitted, AuthenticatedFirst
  <2>3. CASE driver \in {"clock", "monitor", "load"} /\ driver' \in {"monitor", "load", "register"}
    BY <1>2, <2>3 DEF DriverFacts, Admitted, AuthenticatedFirst
  <2> QED BY <1>3, <2>1, <2>2, <2>3
<1> QED BY <1>1, <1>5, <1>6, <1>7 DEF DriverFacts

(* The steps of the driver that ask nothing.                               *)
LEMMA DriverMoves ==
  ASSUME Exchanges, DriverFacts, StopHeartbeat \/ Stopped \/ Disconnect \/ Connect \/ StartHeartbeat
  PROVE  Exchanges' /\ DriverFacts'
<1>1. CASE StopHeartbeat \/ Stopped \/ StartHeartbeat
  <2>1. /\ UNCHANGED <<scenario, connected, authed, owed, callVars>>
        /\ UNCHANGED <<at, call, verdict, alone>>
        /\ \/ driver = "serve" /\ driver' = "pause" /\ scenario.busy
           \/ driver = "pause" /\ driver' = "reboot"
           \/ driver = "register" /\ driver' = "serve"
    BY <1>1 DEF StopHeartbeat, Stopped, StartHeartbeat, Goto, gateway, callVars
  <2>2. Exchanges'
    BY <2>1, QuietStep
  <2>3. at[Driver] = "idle" /\ scenario.busy
    BY <2>1, AskedKinds DEF DriverFacts, Driving
  <2>4. Driving'
    BY <2>1, <2>3 DEF DriverFacts, Driving, Steps
  <2>5. Undisturbed'
    BY <2>1, <2>3 DEF DriverFacts, Undisturbed
  <2>6. Admitted'
    BY <2>1 DEF Admitted, AuthenticatedFirst
  <2> QED BY <2>2, <2>4, <2>5, <2>6 DEF DriverFacts
<1>2. CASE Disconnect
  <2>1. /\ driver = "disconnect" /\ driver' = "connect" /\ Hangup
        /\ UNCHANGED <<scenario, call, verdict, alone>>
    BY <1>2 DEF Disconnect, Goto
  <2>2. /\ Exchanges' /\ KeepsKinds
        /\ \A c \in Callers : at'[c] = IF at[c] = "wait" THEN "lost" ELSE at[c]
    BY <2>1, HangupStep
  <2>3. at[Driver] = "idle" /\ scenario.busy
    BY <2>1, AskedKinds DEF DriverFacts, Driving
  <2>4. at'[Driver] = "idle" /\ ~connected'
    BY <2>1, <2>2, <2>3, Persons DEF Hangup
  <2>5. Driving'
    BY <2>1, <2>3, <2>4 DEF DriverFacts, Driving, Steps
  <2>6. Undisturbed'
    BY <2>1, <2>2, <2>3 DEF DriverFacts, Undisturbed, KeepsKinds
  <2>7. Admitted'
    BY <2>1 DEF Admitted, AuthenticatedFirst
  <2> QED BY <2>2, <2>5, <2>6, <2>7 DEF DriverFacts
<1>3. CASE Connect
  <2>1. /\ driver = "connect" /\ driver' = "password" /\ connected' = TRUE
        /\ UNCHANGED <<scenario, authed, owed, callVars>>
        /\ UNCHANGED <<at, call, verdict, alone>>
    BY <1>3 DEF Connect, Goto, callVars
  <2>2. Exchanges'
    BY <2>1, QuietStep
  <2>3. at[Driver] = "idle" /\ scenario.busy /\ ~connected
    BY <2>1, AskedKinds DEF DriverFacts, Driving
  <2>4. \A op : ~Pending(op)'
    BY <2>1, <2>3 DEF Exchanges, Opened, Pending
  <2>5. Driving'
    BY <2>1, <2>3 DEF DriverFacts, Driving, Steps
  <2>6. Undisturbed'
    BY <2>1, <2>3, <2>4 DEF DriverFacts, Undisturbed
  <2>7. Admitted'
    BY <2>1, <2>3 DEF Admitted, AuthenticatedFirst
  <2> QED BY <2>2, <2>5, <2>6, <2>7 DEF DriverFacts
<1> QED BY <1>1, <1>2, <1>3

-----------------------------------------------------------------------------
(* All steps.                                                              *)

LEMMA InitIInv == Init => IInv
<1> SUFFICES ASSUME Init PROVE IInv
  OBVIOUS
<1> USE Lists0, Persons
<1>1. /\ owed = <<>> /\ DOMAIN owed = {} /\ owed \in Seq(Answers) /\ Len(owed) = 0
      /\ at = [c \in Callers |-> "idle"] /\ call = [c \in Callers |-> NoCall]
      /\ verdict = [c \in Callers |-> "rejected"] /\ alone = [c \in Callers |-> TRUE]
      /\ scenario \in Scenarios /\ nodes = {} /\ todo = {} /\ beat = "off"
      /\ stopping = FALSE /\ due = FALSE
      /\ driver = IF scenario.busy THEN "connect" ELSE "serve"
  BY DEF Init
<1>2. scenario.busy \in BOOLEAN
  BY <1>1, ApiAssumption
<1>3. connected \in BOOLEAN /\ authed \in BOOLEAN /\ (~connected => ~authed)
      /\ (driver = "connect" => ~connected)
  BY <1>2 DEF Init
<1>4. NoCall \in CallRecords /\ NoCall.op = "GetState" /\ NoCall.sid = 0 /\ Proper(NoCall)
  BY NoCallIs
<1>5. Exchanges
  <2>1. Opened
    <3>1. Len(owed) <= MaxOwed
      BY <1>1, ApiAssumption
    <3> QED BY <1>1, <1>3, <3>1 DEF Opened
  <2>2. Asked
    <3>1. /\ at \in [Callers -> {"idle", "wait", "done", "lost"}]
          /\ call \in [Callers -> CallRecords] /\ verdict \in [Callers -> Statuses]
      BY <1>1, <1>4 DEF Statuses
    <3>2. alone \in [Callers -> BOOLEAN]
      BY <1>1, Zenon
    <3>3. \A c \in Callers : Proper(call[c]) /\ call[c].sid <= MaxSid
      BY <1>1, <1>4, ApiAssumption
    <3> QED BY <3>1, <3>2, <3>3 DEF Asked
  <2>3. \A c \in Callers : Answered(c)
    BY <1>1 DEF Answered, Believed
  <2> QED BY <2>1, <2>2, <2>3 DEF Exchanges
<1>6. DriverFacts
  <2>1. at[Driver] = "idle" /\ \A op : ~Pending(op)
    BY <1>1 DEF Pending
  <2>2. Driving
    BY <1>1, <1>2, <1>3, <2>1 DEF Driving, Steps
  <2>3. \A c \in Callers : call[c].op = "GetState"
    BY <1>1, <1>4
  <2>4. Undisturbed
    BY <2>1, <2>3 DEF Undisturbed
  <2>5. Admitted
    BY <1>1, <1>2 DEF Admitted, AuthenticatedFirst
  <2> QED BY <2>2, <2>4, <2>5 DEF DriverFacts
<1>7. Known
  <2>1. stopping \in BOOLEAN /\ due \in BOOLEAN
    BY <1>1, Zenon
  <2>2. driver # "register"
    BY <1>1, <1>2
  <2> QED BY <1>1, <2>1, <2>2 DEF Known, LoadIsExact
<1> QED BY <1>5, <1>6, <1>7 DEF IInv, DriverFacts

(* The calls and the driver.                                               *)
LEMMA CallsStep ==
  ASSUME Exchanges, DriverFacts, Known, [Next]_vars
  PROVE  Exchanges' /\ DriverFacts'
<1> USE Persons
<1>0. NodeIds \subseteq Nat /\ 0 \in Nat
  <2>1. \A i \in DOMAIN System : System[i] \in Nat
    BY Lists0
  <2> QED BY <2>1 DEF NodeIds, Range
<1>1. CASE Answer
  <2>1. /\ Exchanges' /\ KeepsKinds
        /\ \A c \in Callers : /\ at'[c] = "idle" <=> at[c] = "idle"
                              /\ at'[c] \in {"wait", "done"} <=> at[c] \in {"wait", "done"}
    BY <1>1, AnswerStep
  <2>2. UNCHANGED <<scenario, driver, alone, connected, authed, verdict>>
    BY <1>1 DEF Answer
  <2> QED BY <2>1, <2>2, CalmStep
<1>2. CASE Drop
  <2>1. Hangup /\ UNCHANGED <<scenario, driver, call, verdict, alone>>
    BY <1>2 DEF Drop
  <2>2. /\ Exchanges' /\ KeepsKinds
        /\ \A c \in Callers : at'[c] = IF at[c] = "wait" THEN "lost" ELSE at[c]
    BY <2>1, HangupStep
  <2>3. ~connected'
    BY <2>1 DEF Hangup
  <2> QED BY <2>1, <2>2, <2>3, CalmStep
<1>3. ASSUME NEW c \in Callers, Timeout(c) PROVE Exchanges' /\ DriverFacts'
  <2>1. /\ Exchanges' /\ KeepsKinds
        /\ at[c] = "wait" /\ at'[c] = "lost" /\ \A d \in Callers \ {c} : at'[d] = at[d]
    BY <1>3, TimeoutStep
  <2>2. UNCHANGED <<scenario, driver, alone, connected, authed, verdict>>
    BY <1>3 DEF Timeout, gateway
  <2>3. at'[Driver] = at[Driver] \/ (at[Driver] = "wait" /\ at'[Driver] = "lost")
    BY <2>1
  <2> QED BY <2>1, <2>2, <2>3, CalmStep
<1>4. CASE UNCHANGED vars \/ TimerFires \/ LoopEnds \/ PulseEnds
  <2>1. UNCHANGED <<scenario, driver, connected, authed, owed, callVars, at, alone, verdict>>
    BY <1>4 DEF vars, TimerFires, LoopEnds, PulseEnds, gateway, callVars
  <2>2. Exchanges' /\ KeepsKinds
    BY <2>1, QuietStep
  <2> QED BY <2>1, <2>2, CalmStep
<1>5. CASE StopHeartbeat \/ Stopped \/ Disconnect \/ Connect \/ StartHeartbeat
  BY <1>5, DriverMoves
<1>6. CASE Rebooted \/ Authenticate \/ BestEffort \/ LoadNodes
  <2>1. (Works(Driver) \/ Fails(Driver)) /\ UNCHANGED scenario
    BY <1>6 DEF Rebooted, Authenticate, BestEffort, LoadNodes
  <2> QED BY <1>6, <2>1, DriverReturn
<1>7. ASSUME NEW step \in DOMAIN Asks, Calls(step, Asks[step]) PROVE Exchanges' /\ DriverFacts'
  BY <1>7, DriverRequest
<1>8. CASE PulseBegins
  <2>1. Request(Pulse, "GetState", 0, FALSE) /\ UNCHANGED <<scenario, driver>>
    BY <1>8 DEF PulseBegins
  <2>2. PICK wait \in BOOLEAN : (wait => "GetState" \in Moves) /\ Request(Pulse, "GetState", 0, wait)
    BY <2>1, WithoutWaiting
  <2>3. "GetState" \in Ops /\ "GetState" \notin Reads \cup {"LoadNode"}
    BY DEF Ops, Ungraded, GetState, Reads
  <2> QED BY <1>0, <2>1, <2>2, <2>3, OthersRequest
<1>9. CASE AskStatus
  <2>1. PICK n \in todo : Request(Pulse, "StatusRequest", n, FALSE)
    BY <1>9 DEF AskStatus
  <2>2. PICK wait \in BOOLEAN :
          (wait => "StatusRequest" \in Moves) /\ Request(Pulse, "StatusRequest", n, wait)
    BY <2>1, WithoutWaiting
  <2>3. n \in NodeIds /\ n \in Nat /\ UNCHANGED <<scenario, driver>>
    BY <1>0, <1>9 DEF Known, AskStatus
  <2>4. "StatusRequest" \in Ops
    BY DEF Ops, Correlated, Reads
  <2> QED BY <2>2, <2>3, <2>4, OthersRequest
<1>10. CASE StateKnown \/ StatusKnown
  <2>1. (Works(Pulse) \/ Fails(Pulse)) /\ UNCHANGED <<scenario, driver>>
    BY <1>10 DEF StateKnown, StatusKnown
  <2> QED BY <2>1, OthersReturn
<1>11. ASSUME NEW c \in Others, Other(c) PROVE Exchanges' /\ DriverFacts'
  <2>1. c \in Callers \ {Driver} /\ UNCHANGED <<scenario, driver>>
    BY <1>11 DEF Other, Ask, Told
  <2>2. CASE Told(c)
    BY <2>1, <2>2, OthersReturn DEF Told
  <2>3. CASE Ask(c)
    <3>1. PICK op \in scenario.ops : \E n \in Targets(op), wait \in BOOLEAN :
            /\ wait => op \in Moves /\ ~scenario.busy
            /\ Request(c, op, n, wait)
      BY <2>3 DEF Ask
    <3>2. PICK n \in Targets(op), wait \in BOOLEAN :
            /\ wait => op \in Moves /\ ~scenario.busy
            /\ Request(c, op, n, wait)
      BY <3>1
    <3>3. op \in Ops /\ (scenario.busy => op \notin {"PasswordEnter", "GetAllNodes"})
      BY Scenes DEF DriverFacts
    <3>4. n \in Nat /\ (op \in Reads \cup {"LoadNode"} => n \in NodeIds)
      BY <1>0 DEF Targets
    <3> QED BY <2>1, <3>2, <3>3, <3>4, OthersRequest
  <2> QED BY <1>11, <2>2, <2>3 DEF Other
<1> QED
  <2>1. CASE Operation
    <3>1. ASSUME NEW step \in DOMAIN Asks, NEW op, op = Asks[step], Calls(step, op)
          PROVE  Exchanges' /\ DriverFacts'
      BY <1>7, <3>1
    <3> QED BY <1>5, <1>6, <2>1, <3>1, AskedKinds DEF Operation
  <2>2. CASE Loop
    BY <1>4, <1>8, <1>9, <1>10, <2>2 DEF Loop
  <2> QED BY <1>1, <1>2, <1>3, <1>4, <1>5, <1>11, <2>1, <2>2 DEF Next

(* What the application knows of the nodes.                                *)
LEMMA KnownStep ==
  ASSUME Exchanges, DriverFacts, Known, [Next]_vars
  PROVE  Known'
<1> USE Persons, Lists0
<1> DEFINE Flags == /\ beat \in {"off", "timer", "state", "status"}
                    /\ stopping \in BOOLEAN /\ due \in BOOLEAN
           Asked2 == todo \subseteq Blinds /\ todo \subseteq NodeIds
<1>0. Flags /\ Asked2 /\ nodes \subseteq NodeIds /\ LoadIsExact
  BY DEF Known
<1>1. Flags'
  <2>1. CASE UNCHANGED beatVars
    BY <1>0, <2>1 DEF beatVars
  <2>2. CASE StopHeartbeat \/ Stopped \/ StartHeartbeat
    BY <1>0, <2>2, Zenon DEF StopHeartbeat, Stopped, StartHeartbeat
  <2>3. CASE TimerFires \/ LoopEnds \/ PulseBegins \/ AskStatus \/ PulseEnds
    BY <1>0, <2>3, Zenon DEF TimerFires, LoopEnds, PulseBegins, AskStatus, PulseEnds
  <2>4. CASE StateKnown
    BY <1>0, <2>4, Zenon DEF StateKnown
  <2>5. \/ UNCHANGED beatVars \/ StopHeartbeat \/ Stopped \/ StartHeartbeat
        \/ TimerFires \/ LoopEnds \/ PulseBegins \/ AskStatus \/ PulseEnds \/ StateKnown
    <3>1. Answer \/ Drop \/ Rebooted \/ Disconnect \/ Connect \/ Authenticate \/ BestEffort
          \/ LoadNodes \/ StatusKnown => UNCHANGED beatVars
      BY Zenon DEF Answer, Drop, Rebooted, Disconnect, Connect, Authenticate, BestEffort,
         LoadNodes, StatusKnown
    <3>2. \A s, o : Calls(s, o) => UNCHANGED beatVars
      BY DEF Calls
    <3>3. \A c : Other(c) \/ Timeout(c) => UNCHANGED beatVars
      BY Zenon DEF Other, Ask, Told, Timeout
    <3>4. UNCHANGED vars => UNCHANGED beatVars
      BY DEF vars
    <3> QED BY <3>1, <3>2, <3>3, <3>4, Zenon DEF Next, Operation, Loop
  <2> QED BY <2>1, <2>2, <2>3, <2>4, <2>5
<1>2. Asked2'
  <2>1. todo' \subseteq todo \/ todo' = Blinds \cap nodes
    <3>1. CASE UNCHANGED todo
      BY <3>1
    <3>2. CASE AskStatus
      BY <3>2 DEF AskStatus
    <3>3. CASE StateKnown
      BY <3>3 DEF StateKnown
    <3>4. UNCHANGED todo \/ AskStatus \/ StateKnown
      <4>1. Answer \/ Drop \/ Rebooted \/ Disconnect \/ Connect \/ Authenticate \/ BestEffort
            \/ LoadNodes \/ StatusKnown \/ StopHeartbeat \/ Stopped \/ StartHeartbeat
            \/ TimerFires \/ LoopEnds \/ PulseBegins \/ PulseEnds => UNCHANGED todo
        BY Zenon DEF Answer, Drop, Rebooted, Disconnect, Connect, Authenticate, BestEffort,
           LoadNodes, StatusKnown, beatVars, StopHeartbeat, Stopped, StartHeartbeat,
           TimerFires, LoopEnds, PulseBegins, PulseEnds
      <4>2. \A s, o : Calls(s, o) => UNCHANGED todo
        BY DEF Calls, beatVars
      <4>3. \A c : Other(c) \/ Timeout(c) => UNCHANGED todo
        BY Zenon DEF Other, Ask, Told, Timeout, beatVars
      <4>4. UNCHANGED vars => UNCHANGED todo
        BY DEF vars, beatVars
      <4> QED BY <4>1, <4>2, <4>3, <4>4, Zenon DEF Next, Operation, Loop
    <3> QED BY <3>1, <3>2, <3>3, <3>4
  <2> QED BY <1>0, <2>1
<1>3. \/ UNCHANGED nodes /\ driver' # "register"
      \/ UNCHANGED nodes /\ driver' = driver
      \/ LoadNodes /\ Works(Driver) /\ nodes' = Range(call[Driver].collected)
      \/ LoadNodes /\ UNCHANGED nodes /\ driver' = "disconnect"
      \/ UNCHANGED driver /\ \E c \in Others : nodes' = Upsert(c)
  <2>1. Answer \/ Drop \/ TimerFires \/ LoopEnds \/ PulseBegins \/ StateKnown \/ AskStatus
        \/ StatusKnown \/ PulseEnds => UNCHANGED <<nodes, driver>>
    BY Zenon DEF Answer, Drop, TimerFires, LoopEnds, PulseBegins, StateKnown, AskStatus,
       StatusKnown, PulseEnds
  <2>2. StopHeartbeat \/ Stopped \/ Rebooted \/ Disconnect \/ Connect \/ Authenticate
        \/ BestEffort \/ StartHeartbeat => UNCHANGED nodes /\ driver' # "register"
    BY DEF StopHeartbeat, Stopped, Rebooted, Disconnect, Connect, Authenticate, BestEffort,
       StartHeartbeat, Goto
  <2>3. \A s, o : Calls(s, o) => UNCHANGED <<nodes, driver>>
    BY DEF Calls
  <2>4. \A c : Timeout(c) \/ Ask(c) => UNCHANGED <<nodes, driver>>
    BY Zenon DEF Timeout, Ask
  <2>5. \A c \in Others : Told(c) => UNCHANGED driver /\ (UNCHANGED nodes \/ nodes' = Upsert(c))
    BY Zenon DEF Told
  <2>6. UNCHANGED vars => UNCHANGED <<nodes, driver>>
    BY DEF vars
  <2>7. LoadNodes => \/ Works(Driver) /\ nodes' = Range(call[Driver].collected)
                     \/ UNCHANGED nodes /\ driver' = "disconnect"
    BY DEF LoadNodes, Goto
  <2> QED BY <2>1, <2>2, <2>3, <2>4, <2>5, <2>6, <2>7, Zenon DEF Next, Operation, Loop, Other
<1>4. nodes' \subseteq NodeIds /\ LoadIsExact'
  <2>1. CASE LoadNodes /\ Works(Driver) /\ nodes' = Range(call[Driver].collected)
    <3>1. driver = "load" /\ scenario.busy
      BY <2>1 DEF LoadNodes, Goto, DriverFacts, Driving
    <3>2. call[Driver].collected = System
      BY <2>1, <3>1, DriverWorks
    <3> QED BY <2>1, <3>2 DEF NodeIds, LoadIsExact
  <2>2. CASE UNCHANGED driver /\ \E c \in Others : nodes' = Upsert(c)
    <3>1. PICK c \in Others : nodes' = Upsert(c)
      BY <2>2
    <3>2. nodes' = nodes \/ (call[c].op = "LoadNode" /\ nodes' = nodes \cup {call[c].node})
      BY <3>1 DEF Upsert
    <3>3. call[c].op = "LoadNode" => call[c].node \in NodeIds
      BY DEF Exchanges, Asked, Proper, NodeIds
    <3> QED BY <1>0, <2>2, <3>2, <3>3 DEF LoadIsExact
  <2> QED BY <1>0, <1>3, <2>1, <2>2 DEF LoadIsExact
<1> HIDE DEF Asked2, Flags
<1> QED BY <1>1, <1>2, <1>4 DEF Known, Asked2, Flags

LEMMA Inductive == Spec => []IInv
<1>1. IInv /\ [Next]_vars => IInv'
  BY CallsStep, KnownStep DEF IInv, DriverFacts
<1> QED BY InitIInv, <1>1, PTL DEF Spec

(* Types: sessions stay within the ids there are, and what a call has      *)
(* collected are nodes and scenes of the gateway.                          *)
THEOREM TypesHold == Spec => []TypeOK
<1>1. IInv => TypeOK
  <2> SUFFICES ASSUME IInv PROVE TypeOK
    OBVIOUS
  <2>1. Opened /\ Asked /\ Driving /\ Known
    BY DEF IInv, Exchanges
  <2>2. \A i \in DOMAIN owed : owed[i].of \in Ops /\ Len(owed[i].frames) > 0
    BY <2>1 DEF Opened, Shaped, Answers
  <2>3. ASSUME NEW c \in Callers
        PROVE  /\ call[c].op \in Ops /\ call[c].sid \in 0 .. MaxSid
               /\ call[c].expected >= -1 /\ Range(call[c].collected) \subseteq Items
    <3>1. call[c] \in CallRecords /\ Proper(call[c]) /\ call[c].sid <= MaxSid
      BY <2>1 DEF Asked
    <3>2. call[c].op \in Ops /\ call[c].sid \in Nat /\ call[c].expected \in Nat \cup {-1}
      BY <3>1 DEF CallRecords, Numbers
    <3>3. About(call[c].op) \subseteq Items
      BY DEF About, Items, NodeIds
    <3>4. \A x \in DOMAIN call[c].collected : call[c].collected[x] \in Items
      BY <3>1, <3>3 DEF Proper
    <3>5. Range(call[c].collected) \subseteq Items
      BY <3>4 DEF Range
    <3> QED BY <3>1, <3>2, <3>5, ApiAssumption
  <2>4. at \in [Callers -> {"idle", "wait", "done", "lost"}] /\ verdict \in [Callers -> Statuses]
        /\ alone \in [Callers -> BOOLEAN]
    BY <2>1 DEF Asked
  <2>5. Len(owed) <= MaxOwed /\ connected \in BOOLEAN /\ authed \in BOOLEAN
    BY <2>1 DEF Opened
  <2>6. scenario \in Scenarios /\ driver \in Steps
    BY <2>1 DEF Driving
  <2> QED BY <2>1, <2>2, <2>3, <2>4, <2>5, <2>6 DEF TypeOK, Known
<1> QED BY Inductive, <1>1, PTL

(* A call that reports success reports the truth: the gateway accepted     *)
(* this request, listed every item and has ended the movement the call     *)
(* waits for.  A call that compares session ids does so in any company,    *)
(* one that takes any frame of a type does so if it is the only one of its *)
(* kind (command.go:30-153, limitation.go:46-129, scenes.go:46-107,         *)
(* 187-236, node_loading.go:39-128).                                        *)
THEOREM TrueResults == Spec => []ResultsAreTrue
<1>1. IInv => ResultsAreTrue
  <2> SUFFICES ASSUME IInv, NEW c \in Callers, at[c] = "done", Succeeds(call[c]),
                      call[c].op \in Correlated \/ alone[c]
               PROVE  verdict[c] = "accepted" /\ EverythingCollected(call[c]) /\ Over(call[c])
    BY DEF ResultsAreTrue
  <2>1. Opened /\ call[c] \in CallRecords /\ Proper(call[c])
    BY DEF IInv, Exchanges, Asked
  <2>2. Answered(c) /\ Believed(c)
    BY DEF IInv, Exchanges, Believed
  <2>3. /\ Truthful(call[c], verdict[c])
        /\ call[c].op \in Lists => verdict[c] = "accepted" /\ call[c].collected = Source(call[c].op)
        /\ call[c].wait => Ours(c) = {}
    BY <2>2 DEF Answered
  <2>4. call[c].op \in Lists \/ call[c].success
    BY DEF Succeeds, Lists
  <2>5. verdict[c] = "accepted"
    BY <2>3, <2>4 DEF Truthful
  <2>6. EverythingCollected(call[c])
    <3>1. call[c].op \in Reads \cup {"LoadNode"} => call[c].op \notin Lists
      BY Kinds
    <3> QED BY <2>3, <2>4, <3>1 DEF EverythingCollected, Truthful, Lists, Source
  <2>7. Over(call[c])
    <3>1. SUFFICES ASSUME call[c].wait, NEW i \in DOMAIN owed, NEW j \in DOMAIN owed[i].frames
                   PROVE  owed[i].frames[j].sid # call[c].sid
      BY DEF Over
    <3>2. call[c].op \in Correlated
      BY <2>1, <3>1, Kinds DEF Proper
    <3>3. owed[i].frames[1].sid # call[c].sid
      BY <2>3, <3>1, <3>2 DEF Ours, Concerns
    <3>4. owed[i].frames[j].sid = owed[i].frames[1].sid
      BY <2>1, <3>1 DEF Opened, Shaped, Belongs
    <3> QED BY <3>3, <3>4
  <2> QED BY <2>5, <2>6, <2>7
<1> QED BY Inductive, <1>1, PTL

(* connectAndLoad goes on to register the covers of every node of the      *)
(* gateway or of none, although the list is ended by any end of a list,    *)
(* and a short one is not an error (node_loading.go:39-75, app.go:235-275).*)
THEOREM NodesAreComplete == Spec => []LoadIsExact
<1>1. IInv => LoadIsExact
  BY DEF IInv, Known
<1> QED BY Inductive, <1>1, PTL

(* The clock, the monitor and the nodes are asked of a gateway that has    *)
(* accepted the password on this connection, whatever confirmation is      *)
(* still on its way (auth_system.go:21-45, app.go:248-265).                *)
THEOREM PasswordFirst == Spec => []AuthenticatedFirst
<1>1. IInv => AuthenticatedFirst
  BY DEF IInv, Admitted
<1> QED BY Inductive, <1>1, PTL
=============================================================================
