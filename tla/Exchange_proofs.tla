--------------------------- MODULE Exchange_proofs ---------------------------
(***************************************************************************)
(* Facts about the exchanges, for every list of nodes and scenes: what a   *)
(* call of each kind takes from a frame, what it ignores, and what the     *)
(* gateway's answers look like.  Module Api_proofs rests on them.          *)
(***************************************************************************)
EXTENDS Exchange, SequenceTheorems, TLAPS

Numbers == Nat \cup {-1}

CallRecords == [op : Ops, sid : Nat, node : Nat, wait : BOOLEAN,
          success : BOOLEAN, expected : Numbers, collected : Seq(Nat)]

Parts == {"cfm", "ntf", "finished"}
Frames == [of : Ops \cup {"Session"}, part : Parts, sid : Nat, status : Statuses,
           number : Nat, items : Seq(Nat)]

LEMMA Kinds ==
  /\ Moves \subseteq Ops /\ Reads \subseteq Ops /\ Lists \subseteq Ops
  /\ Graded \subseteq Ops /\ Ungraded \subseteq Ops
  /\ Correlated = Moves \cup Reads
  /\ Ops = Graded \cup Ungraded \cup Moves \cup Reads \cup Lists \cup {"SetLimitation", "LoadNode"}
  /\ "Session" \notin Ops
  /\ \A op \in Moves : op \notin Reads \cup Lists \cup Graded \cup Ungraded \cup {"SetLimitation", "LoadNode"}
  /\ \A op \in Reads : op \notin Lists \cup Graded \cup Ungraded \cup {"SetLimitation", "LoadNode"}
  /\ \A op \in Lists : op \notin Graded \cup Ungraded \cup {"SetLimitation", "LoadNode"}
  /\ \A op \in Graded \cup Ungraded : op \notin {"SetLimitation", "LoadNode"}
  /\ \A op \in Graded : op \notin Ungraded
BY DEF Ops, Graded, Ungraded, Correlated, Lists, Moves, Reads, PasswordEnter, Queries, SetUTC,
       GetState, LeaveLearnState, Resets, SetNodeName, HouseStatusMonitor

-----------------------------------------------------------------------------
(* What a call takes from a frame.                                         *)

(* The status is looked at when the call has ended.                        *)
LEMMA ConfirmationIs ==
  ASSUME NEW c, NEW f
  PROVE  \E b \in BOOLEAN :
           /\ b <=> (c.op \in Graded => f.status = "accepted")
           /\ NotesConfirmation(c, f) = IF c.op \in Graded \cup Ungraded /\ IsCfm(c, f)
                                        THEN [c EXCEPT !.success = b] ELSE c
<1> WITNESS (c.op \in Graded => f.status = "accepted") \in BOOLEAN
<1> QED BY Zenon DEF NotesConfirmation

(* One part of Notes is about the call, the others leave it as it is.      *)
LEMMA NotesByKind ==
  ASSUME NEW c \in CallRecords, NEW f
  PROVE  /\ c.op \in Moves => Notes(c, f) = NotesSession(c, f)
         /\ c.op = "SetLimitation" => Notes(c, f) = NotesLimitation(c, f)
         /\ c.op \in Graded \cup Ungraded => Notes(c, f) = NotesConfirmation(c, f)
         /\ c.op \in Reads \cup {"LoadNode"} => Notes(c, f) = NotesResult(c, f)
         /\ c.op \in Lists => Notes(c, f) = NotesList(c, f)
<1>1. \A d : /\ d.op \notin Moves => NotesSession(d, f) = d
             /\ d.op # "SetLimitation" => NotesLimitation(d, f) = d
             /\ d.op \notin Graded \cup Ungraded => NotesConfirmation(d, f) = d
             /\ d.op \notin Reads \cup {"LoadNode"} => NotesResult(d, f) = d
             /\ d.op \notin Lists => NotesList(d, f) = d
  BY Zenon DEF NotesSession, NotesLimitation, NotesConfirmation, NotesResult, NotesList, LoadNodeEnds
<1>2. /\ NotesSession(c, f).op = c.op /\ NotesLimitation(c, f).op = c.op
      /\ NotesConfirmation(c, f).op = c.op /\ NotesResult(c, f).op = c.op
  <2>1. NotesConfirmation(c, f).op = c.op
    BY ConfirmationIs DEF CallRecords
  <2> QED BY <2>1 DEF NotesSession, NotesLimitation, NotesResult, CallRecords
<1>3. c.op \in Ops
  BY DEF CallRecords
<1> HIDE DEF CallRecords
<1> QED BY <1>1, <1>2, <1>3, Kinds DEF Notes

(* What a call keeps of its request.                                       *)
LEMMA NotesKeep ==
  ASSUME NEW c \in CallRecords, NEW f \in Frames
  PROVE  /\ Notes(c, f) \in CallRecords
         /\ Notes(c, f).op = c.op /\ Notes(c, f).sid = c.sid
         /\ Notes(c, f).node = c.node /\ Notes(c, f).wait = c.wait
<1> DEFINE Same(d) == d \in CallRecords /\ d.op = c.op /\ d.sid = c.sid /\ d.node = c.node /\ d.wait = c.wait
<1>0. f.items \in Seq(Nat) /\ f.number \in Numbers /\ c.collected \o f.items \in Seq(Nat)
  BY DEF CallRecords, Frames, Numbers
<1>1. Same(NotesSession(c, f))
  BY DEF NotesSession, CallRecords
<1>2. Same(NotesLimitation(c, f))
  BY DEF NotesLimitation, CallRecords
<1>3. Same(NotesConfirmation(c, f))
  BY ConfirmationIs DEF CallRecords
<1>4. Same(NotesResult(c, f))
  BY <1>0 DEF NotesResult, CallRecords
<1>5. Same(NotesList(c, f))
  BY <1>0 DEF NotesList, CallRecords
<1>6. c.op \in Ops
  BY DEF CallRecords
<1>7. \/ Notes(c, f) = NotesSession(c, f) \/ Notes(c, f) = NotesLimitation(c, f)
      \/ Notes(c, f) = NotesConfirmation(c, f) \/ Notes(c, f) = NotesResult(c, f)
      \/ Notes(c, f) = NotesList(c, f)
  BY <1>6, NotesByKind, Kinds
<1> HIDE DEF Same
<1>8. Same(Notes(c, f))
  BY <1>1, <1>2, <1>3, <1>4, <1>5, <1>7
<1> QED BY <1>8 DEF Same

LEMMA NotesMoves ==
  ASSUME NEW c \in CallRecords, NEW f \in Frames, c.op \in Moves
  PROVE  Notes(c, f).success <=> c.success \/ (IsCfm(c, f) /\ Own(c, f) /\ f.status = "accepted")
BY NotesByKind DEF NotesSession, CallRecords

LEMMA NotesSetLimitation ==
  ASSUME NEW c \in CallRecords, NEW f \in Frames, c.op = "SetLimitation"
  PROVE  Notes(c, f).success <=> c.success \/ (IsCfm(c, f) /\ f.status # "rejected")
BY NotesByKind DEF NotesLimitation, CallRecords

LEMMA NotesConfirmed ==
  ASSUME NEW c \in CallRecords, NEW f \in Frames, c.op \in Graded \cup Ungraded
  PROVE  /\ IsCfm(c, f) => (Notes(c, f).success <=> (c.op \in Graded => f.status = "accepted"))
         /\ ~IsCfm(c, f) => Notes(c, f) = c
BY NotesByKind, ConfirmationIs DEF CallRecords

LEMMA NotesRead ==
  ASSUME NEW c \in CallRecords, NEW f \in Frames, c.op \in Reads \cup {"LoadNode"}
  PROVE  LET mine == IsNtf(c, f) /\ IF c.op = "LoadNode" THEN f.items = <<c.node>> ELSE Own(c, f)
         IN  /\ mine => Notes(c, f).success /\ Notes(c, f).collected = f.items
             /\ ~mine => Notes(c, f) = c
<1>1. c.op = "LoadNode" => c.op \notin Reads
  BY Kinds
<1> QED BY <1>1, NotesByKind DEF NotesResult, LoadNodeEnds, CallRecords

LEMMA NotesListed ==
  ASSUME NEW c \in CallRecords, NEW f \in Frames, c.op \in Lists
  PROVE  /\ IsCfm(c, f) => Notes(c, f).collected = c.collected
         /\ IsNtf(c, f) => Notes(c, f).collected = c.collected \o f.items
         /\ ~IsCfm(c, f) /\ ~IsNtf(c, f) => Notes(c, f) = c
<1>1. IsNtf(c, f) => ~IsCfm(c, f)
  BY DEF IsNtf, IsCfm
<1> QED BY <1>1, NotesByKind DEF NotesList, CallRecords

(* A frame of other exchanges: a call does not hear it.                    *)
LEMMA NotesNothing ==
  ASSUME NEW c \in CallRecords, NEW f \in Frames,
         IF c.op \in Correlated THEN f.sid # c.sid ELSE f.of # c.op
  PROVE  Notes(c, f) = c /\ ~Ends(c, f)
<1>0. c.op \in Ops
  BY DEF CallRecords
<1>1. CASE c.op \in Correlated
  <2>1. ~Own(c, f)
    BY <1>1 DEF Own
  <2>2. ~Ends(c, f)
    BY <1>1, <2>1, Kinds DEF Ends, CommandSendEnds, SceneRunEnds, StatusRequestEnds,
       GetLimitationEnds, SetLimitationEnds, ConfirmationEnds, LoadAllNodesEnds, LoadNodeEnds,
       SceneListEnds, Concludes, Reads, Moves
  <2>3. Notes(c, f) = c
    <3>1. CASE c.op \in Moves
      BY <2>1, <3>1, NotesByKind DEF NotesSession
    <3>2. CASE c.op \in Reads
      BY <2>1, <3>2, NotesRead, Kinds
    <3> QED BY <1>1, <3>1, <3>2, Kinds
  <2> QED BY <2>2, <2>3
<1>2. CASE c.op \notin Correlated
  <2>1. f.of # c.op /\ ~IsCfm(c, f) /\ ~IsNtf(c, f)
    BY <1>2 DEF IsCfm, IsNtf
  <2>2. ~Ends(c, f)
    BY <1>2, <2>1, Kinds DEF Ends, CommandSendEnds, SceneRunEnds, StatusRequestEnds,
       GetLimitationEnds, SetLimitationEnds, ConfirmationEnds, LoadAllNodesEnds, LoadNodeEnds,
       SceneListEnds, Reads, Moves
  <2>3. Notes(c, f) = c
    <3>1. CASE c.op = "SetLimitation"
      BY <2>1, <3>1, NotesByKind DEF NotesLimitation
    <3>2. CASE c.op \in Graded \cup Ungraded
      BY <2>1, <3>2, NotesConfirmed
    <3>3. CASE c.op = "LoadNode"
      BY <2>1, <3>3, NotesRead
    <3>4. CASE c.op \in Lists
      BY <2>1, <3>4, NotesListed
    <3> QED BY <1>0, <1>2, <3>1, <3>2, <3>3, <3>4, Kinds
  <2> QED BY <2>2, <2>3
<1> QED BY <1>1, <1>2

-----------------------------------------------------------------------------
(* Which frame ends a call, by the kind of call.                           *)

LEMMA EndsByKind ==
  ASSUME NEW c \in CallRecords, NEW f
  PROVE  /\ c.op \in Moves =>
              (Ends(c, f) <=> /\ Own(c, f)
                              /\ \/ IsCfm(c, f) /\ ~c.wait
                                 \/ f.of = "Session" /\ f.part = "finished")
         /\ c.op \in Reads => (Ends(c, f) <=> IsNtf(c, f) /\ Own(c, f))
         /\ c.op \in Graded \cup Ungraded \cup {"SetLimitation"} => (Ends(c, f) <=> IsCfm(c, f))
         /\ c.op = "GetAllNodes" => (Ends(c, f) <=> f.of = c.op /\ f.part = "finished")
         /\ c.op = "LoadNode" => (Ends(c, f) <=> IsNtf(c, f) /\ f.items = <<c.node>>)
         /\ c.op = "GetSceneList" =>
              (Ends(c, f) <=> f.number = 0 /\ (IsCfm(c, f) \/ IsNtf(c, f)))
<1> USE DEF Ends, CommandSendEnds, SceneRunEnds, StatusRequestEnds, GetLimitationEnds,
            SetLimitationEnds, ConfirmationEnds, LoadAllNodesEnds, LoadNodeEnds, SceneListEnds
<1>1. CASE c.op \in Moves
  <2>1. c.op \in {"CommandSend", "ActivateScene"} /\ c.op \notin Graded \cup Ungraded
    BY <1>1, Kinds DEF Moves
  <2> QED BY <1>1, <2>1, Kinds DEF Concludes
<1>2. CASE c.op \in Reads
  <2>1. c.op \in {"StatusRequest", "GetLimitation"} /\ c.op \notin Graded \cup Ungraded
    BY <1>2, Kinds DEF Reads
  <2> QED BY <1>2, <2>1, Kinds
<1>3. CASE c.op \in Graded \cup Ungraded
  <2>1. c.op \notin Moves \cup Reads \cup Lists \cup {"SetLimitation", "LoadNode"}
    BY <1>3, Kinds
  <2> QED BY <1>3, <2>1 DEF Moves, Reads, Lists
<1>4. CASE c.op \in Lists \cup {"SetLimitation", "LoadNode"}
  <2>1. /\ c.op \in {"GetAllNodes", "GetSceneList", "SetLimitation", "LoadNode"}
        /\ c.op \notin Graded \cup Ungraded
    BY <1>4, Kinds DEF Lists
  <2> QED BY <2>1 DEF Moves, Reads
<1>5. c.op \in Ops
  BY DEF CallRecords
<1> HIDE DEF Ends, CommandSendEnds, SceneRunEnds, StatusRequestEnds, GetLimitationEnds,
            SetLimitationEnds, ConfirmationEnds, LoadAllNodesEnds, LoadNodeEnds, SceneListEnds
<1> QED BY <1>1, <1>2, <1>3, <1>4, <1>5, Kinds DEF Lists

-----------------------------------------------------------------------------
(* The answers of the gateway.                                             *)

(* A list, from its announcement to its end.                               *)
Source(op) == IF op = "GetAllNodes" THEN System ELSE SceneList
Listing(op) == Replies(NewCall(op, 0, 0, FALSE), "accepted")

(* What the items of an answer to c may be.                                *)
Subjects(c) ==
  IF c.op \in Lists THEN {Source(c.op)[i] : i \in DOMAIN Source(c.op)}
  ELSE IF c.op \in Reads \cup {"LoadNode"} THEN {c.node} ELSE {}

LEMMA FrameTypes ==
  ASSUME NEW op \in Ops, NEW sid \in Nat, NEW s \in Statuses, NEW n \in Nat, NEW w \in Seq(Nat)
  PROVE  /\ Cfm(op, sid, s, n) \in Frames /\ Ntf(op, sid, n, w) \in Frames
         /\ Finished(op, sid) \in Frames /\ Finished("Session", sid) \in Frames
BY DEF Cfm, Ntf, Finished, Frames, Parts, Statuses

LEMMA Prefixed ==
  ASSUME NEW S, NEW a \in Seq(S), NEW b \in Seq(S), Len(a) = 1, NEW n \in Nat, Len(b) = n
  PROVE  /\ a \o b \in Seq(S) /\ Len(a \o b) = n + 1 /\ (a \o b)[1] = a[1]
         /\ \A j \in 1 .. n : (a \o b)[1 + j] = b[j]
<1> DEFINE ab == a \o b
<1>1. /\ ab \in Seq(S) /\ Len(ab) = Len(a) + Len(b)
      /\ \A i \in 1 .. Len(a) + Len(b) : ab[i] = IF i <= Len(a) THEN a[i] ELSE b[i - Len(a)]
  BY ConcatProperties
<1> HIDE DEF ab
<1>2. /\ ab \in Seq(S) /\ Len(ab) = n + 1 /\ ab[1] = a[1]
      /\ \A j \in 1 .. n : ab[1 + j] = b[j]
  BY <1>1
<1> QED BY <1>2 DEF ab

LEMMA Suffixed ==
  ASSUME NEW S, NEW a \in Seq(S), NEW b \in Seq(S), Len(b) = 1, NEW m \in Nat, Len(a) = m
  PROVE  /\ a \o b \in Seq(S) /\ Len(a \o b) = m + 1 /\ (a \o b)[m + 1] = b[1]
         /\ \A i \in 1 .. m : (a \o b)[i] = a[i]
<1> DEFINE ab == a \o b
<1>1. /\ ab \in Seq(S) /\ Len(ab) = Len(a) + Len(b)
      /\ \A i \in 1 .. Len(a) + Len(b) : ab[i] = IF i <= Len(a) THEN a[i] ELSE b[i - Len(a)]
  BY ConcatProperties
<1> HIDE DEF ab
<1>2. /\ ab \in Seq(S) /\ Len(ab) = m + 1 /\ ab[m + 1] = b[1]
      /\ \A i \in 1 .. m : ab[i] = a[i]
  BY <1>1
<1> QED BY <1>2 DEF ab

(* The entries in front of one, and behind it.                             *)
LEMMA Front ==
  ASSUME NEW S, NEW q \in Seq(S), NEW n \in Nat, Len(q) = n, NEW i \in 1 .. n
  PROVE  /\ SubSeq(q, 1, i - 1) \in Seq(S) /\ Len(SubSeq(q, 1, i - 1)) = i - 1
         /\ \A x \in 1 .. i - 1 : SubSeq(q, 1, i - 1)[x] = q[x]
<1>1. \A x \in 1 .. i - 1 : q[x] \in S
  OBVIOUS
<1>2. SubSeq(q, 1, i - 1) \in Seq(S) /\ Len(SubSeq(q, 1, i - 1)) = i - 1
  BY <1>1
<1>3. ASSUME NEW x \in 1 .. i - 1 PROVE SubSeq(q, 1, i - 1)[x] = q[x]
  OBVIOUS
<1> QED BY <1>2, <1>3

LEMMA Back ==
  ASSUME NEW S, NEW q \in Seq(S), NEW n \in Nat, Len(q) = n, NEW i \in 1 .. n
  PROVE  /\ SubSeq(q, i + 1, n) \in Seq(S) /\ Len(SubSeq(q, i + 1, n)) = n - i
         /\ \A x \in 1 .. n - i : SubSeq(q, i + 1, n)[x] = q[i + x]
<1>1. \A x \in i + 1 .. n : q[x] \in S
  OBVIOUS
<1>2. SubSeq(q, i + 1, n) \in Seq(S) /\ Len(SubSeq(q, i + 1, n)) = n - i
  BY <1>1
<1>3. ASSUME NEW x \in 1 .. n - i PROVE SubSeq(q, i + 1, n)[x] = q[i + x]
  OBVIOUS
<1> QED BY <1>2, <1>3

(* One entry is taken out: those behind it move up.                        *)
LEMMA Removed ==
  ASSUME NEW S, NEW q \in Seq(S), NEW n \in Nat, Len(q) = n, NEW i \in 1 .. n
  PROVE  LET r == SubSeq(q, 1, i - 1) \o SubSeq(q, i + 1, n)
         IN  /\ r \in Seq(S) /\ Len(r) = n - 1
             /\ \A x \in 1 .. n - 1 : r[x] = q[IF x < i THEN x ELSE x + 1]
<1> DEFINE a == SubSeq(q, 1, i - 1)
           b == SubSeq(q, i + 1, n)
           r == a \o b
           m == i - 1
<1>0. m \in Nat /\ i = m + 1 /\ n - i \in Nat
  OBVIOUS
<1>1. a \in Seq(S) /\ Len(a) = m /\ \A x \in 1 .. m : a[x] = q[x]
  BY Front
<1>2. b \in Seq(S) /\ Len(b) = n - i /\ \A x \in 1 .. n - i : b[x] = q[i + x]
  BY Back
<1> HIDE DEF a, b
<1>3. /\ r \in Seq(S) /\ Len(r) = Len(a) + Len(b)
      /\ \A x \in 1 .. Len(a) + Len(b) : r[x] = IF x <= Len(a) THEN a[x] ELSE b[x - Len(a)]
  BY <1>1, <1>2, ConcatProperties
<1> HIDE DEF r
<1>4. Len(r) = n - 1
  BY <1>0, <1>1, <1>2, <1>3
<1>5. ASSUME NEW x \in 1 .. n - 1 PROVE r[x] = q[IF x < i THEN x ELSE x + 1]
  <2>0. x \in 1 .. Len(a) + Len(b) /\ Len(a) = m
    BY <1>0, <1>1, <1>2
  <2>1. CASE x < i
    <3>1. x \in 1 .. m /\ x <= Len(a)
      BY <1>0, <2>0, <2>1
    <3> QED BY <1>1, <1>3, <2>0, <2>1, <3>1
  <2>2. CASE ~(x < i)
    <3>1. ~(x <= Len(a)) /\ x - m \in 1 .. n - i /\ i + (x - m) = x + 1
      BY <1>0, <2>0, <2>2
    <3>2. r[x] = b[x - m]
      BY <1>3, <2>0, <3>1
    <3>3. b[x - m] = q[x + 1]
      BY <1>2, <3>1
    <3> QED BY <2>2, <3>2, <3>3
  <2> QED BY <2>1, <2>2
<1> QED BY <1>3, <1>4, <1>5 DEF r, a, b

LEMMA Enumerated ==
  ASSUME NEW S, NEW n \in Nat, NEW b \in [1 .. n -> S]
  PROVE  b \in Seq(S) /\ Len(b) = n
OBVIOUS

LEMMA Narrowed ==
  ASSUME NEW S, NEW T, NEW s \in Seq(S), \A x \in DOMAIN s : s[x] \in T
  PROVE  s \in Seq(T)
<1>1. /\ s = [i \in 1 .. Len(s) |-> s[i]] /\ Len(s) \in Nat /\ DOMAIN s = 1 .. Len(s)
  BY LenProperties
<1> QED BY <1>1, IsASeq

LEMMA ListingNodes ==
  ASSUME System \in Seq(Nat)
  PROVE  LET r == Listing("GetAllNodes")
             n == Len(System)
         IN  /\ n \in Nat /\ r \in Seq(Frames) /\ Len(r) = n + 2
             /\ r[1] = Cfm("GetAllNodes", 0, "accepted", n)
             /\ \A j \in 1 .. n : r[j + 1] = Ntf("GetAllNodes", 0, 0, <<System[j]>>)
             /\ r[n + 2] = Finished("GetAllNodes", 0)
             /\ \A c : c.op = "GetAllNodes" => Replies(c, "accepted") = r
<1> DEFINE n == Len(System)
           a == <<Cfm("GetAllNodes", 0, "accepted", n)>>
           b == [i \in DOMAIN System |-> Ntf("GetAllNodes", 0, 0, <<System[i]>>)]
           z == <<Finished("GetAllNodes", 0)>>
<1>1. "GetAllNodes" \in Ops /\ "GetAllNodes" \notin Moves \cup Reads
  BY DEF Ops, Lists, Moves, Reads
<1>2. \A c : c.op = "GetAllNodes" => Replies(c, "accepted") = a \o b \o z
  BY <1>1 DEF Replies
<1>3. Listing("GetAllNodes") = a \o b \o z
  BY <1>2 DEF Listing, NewCall
<1>4. n \in Nat /\ DOMAIN System = 1 .. n
  OBVIOUS
<1>5. a \in Seq(Frames) /\ z \in Seq(Frames) /\ Len(a) = 1 /\ Len(z) = 1
      /\ a[1] = Cfm("GetAllNodes", 0, "accepted", n) /\ z[1] = Finished("GetAllNodes", 0)
  BY <1>1, <1>4, FrameTypes DEF Statuses
<1>6. b \in Seq(Frames) /\ Len(b) = n /\ \A j \in 1 .. n : b[j] = Ntf("GetAllNodes", 0, 0, <<System[j]>>)
  <2>1. ASSUME NEW j \in 1 .. n PROVE Ntf("GetAllNodes", 0, 0, <<System[j]>>) \in Frames
    <3>1. <<System[j]>> \in Seq(Nat)
      BY <1>4
    <3> QED BY <1>1, <3>1, FrameTypes DEF Statuses
  <2>2. b = [i \in 1 .. n |-> Ntf("GetAllNodes", 0, 0, <<System[i]>>)]
    BY <1>4
  <2>3. b \in [1 .. n -> Frames]
    BY <2>1, <2>2
  <2>4. b \in Seq(Frames) /\ Len(b) = n
    BY <1>4, <2>3, Enumerated
  <2> QED BY <2>2, <2>4
<1> HIDE DEF a, b, z
<1>7. /\ a \o b \o z \in Seq(Frames) /\ Len(a \o b \o z) = n + 2
      /\ (a \o b \o z)[1] = a[1] /\ (a \o b \o z)[n + 2] = z[1]
      /\ \A j \in 1 .. n : (a \o b \o z)[j + 1] = b[j]
  <2>1. /\ a \o b \in Seq(Frames) /\ Len(a \o b) = n + 1 /\ (a \o b)[1] = a[1]
        /\ \A j \in 1 .. n : (a \o b)[1 + j] = b[j]
    BY <1>4, <1>5, <1>6, Prefixed
  <2> DEFINE ab == a \o b
  <2>2. /\ ab \in Seq(Frames) /\ Len(ab) = n + 1 /\ ab[1] = a[1]
        /\ \A j \in 1 .. n : ab[j + 1] = b[j]
    BY <2>1
  <2> HIDE DEF ab
  <2>3. /\ ab \o z \in Seq(Frames) /\ Len(ab \o z) = n + 1 + 1
        /\ \A i \in 1 .. n + 1 : (ab \o z)[i] = ab[i]
        /\ (ab \o z)[n + 1 + 1] = z[1]
    BY <1>4, <1>5, <2>2, Suffixed
  <2>4. n + 1 + 1 = n + 2 /\ 1 \in 1 .. n + 1 /\ \A j \in 1 .. n : j + 1 \in 1 .. n + 1
    BY <1>4
  <2>5. /\ ab \o z \in Seq(Frames) /\ Len(ab \o z) = n + 2
        /\ (ab \o z)[1] = a[1] /\ (ab \o z)[n + 2] = z[1]
        /\ \A j \in 1 .. n : (ab \o z)[j + 1] = b[j]
    BY <2>2, <2>3, <2>4
  <2> QED BY <2>5 DEF ab
<1> QED BY <1>2, <1>3, <1>4, <1>5, <1>6, <1>7

LEMMA ListingScenes ==
  ASSUME SceneList \in Seq(Nat)
  PROVE  LET r == Listing("GetSceneList")
             n == Len(SceneList)
         IN  /\ n \in Nat /\ r \in Seq(Frames) /\ Len(r) = n + 1
             /\ r[1] = Cfm("GetSceneList", 0, "accepted", n)
             /\ \A j \in 1 .. n : r[j + 1] = Ntf("GetSceneList", 0, n - j, <<SceneList[j]>>)
             /\ \A c : c.op = "GetSceneList" => Replies(c, "accepted") = r
<1> DEFINE n == Len(SceneList)
           a == <<Cfm("GetSceneList", 0, "accepted", n)>>
           b == [i \in DOMAIN SceneList |-> Ntf("GetSceneList", 0, n - i, <<SceneList[i]>>)]
<1>1. "GetSceneList" \in Ops /\ "GetSceneList" \notin Moves \cup Reads
  BY DEF Ops, Lists, Moves, Reads
<1>2. \A c : c.op = "GetSceneList" => Replies(c, "accepted") = a \o b
  BY <1>1 DEF Replies
<1>3. Listing("GetSceneList") = a \o b
  BY <1>2 DEF Listing, NewCall
<1>4. n \in Nat /\ DOMAIN SceneList = 1 .. n
  OBVIOUS
<1>5. a \in Seq(Frames) /\ Len(a) = 1 /\ a[1] = Cfm("GetSceneList", 0, "accepted", n)
  BY <1>1, <1>4, FrameTypes DEF Statuses
<1>6. /\ b \in Seq(Frames) /\ Len(b) = n
      /\ \A j \in 1 .. n : b[j] = Ntf("GetSceneList", 0, n - j, <<SceneList[j]>>)
  <2>1. \A j \in 1 .. n : Ntf("GetSceneList", 0, n - j, <<SceneList[j]>>) \in Frames
    <3>1. ASSUME NEW j \in 1 .. n PROVE n - j \in Nat /\ <<SceneList[j]>> \in Seq(Nat)
      BY <1>4
    <3> QED BY <1>1, <1>4, <3>1, FrameTypes DEF Statuses
  <2>2. b = [i \in 1 .. n |-> Ntf("GetSceneList", 0, n - i, <<SceneList[i]>>)]
    BY <1>4
  <2>3. b \in [1 .. n -> Frames]
    BY <2>1, <2>2
  <2>4. b \in Seq(Frames) /\ Len(b) = n
    BY <1>4, <2>3, Enumerated
  <2> QED BY <2>2, <2>4
<1> HIDE DEF a, b
<1>7. /\ a \o b \in Seq(Frames) /\ Len(a \o b) = n + 1 /\ (a \o b)[1] = a[1]
      /\ \A j \in 1 .. n : (a \o b)[j + 1] = b[j]
  <2>1. /\ a \o b \in Seq(Frames) /\ Len(a \o b) = n + 1 /\ (a \o b)[1] = a[1]
        /\ \A j \in 1 .. n : (a \o b)[1 + j] = b[j]
    BY <1>4, <1>5, <1>6, Prefixed
  <2> QED BY <1>4, <2>1
<1> QED BY <1>2, <1>3, <1>4, <1>5, <1>6, <1>7

(* Every frame of an answer is about the call, carries its session id, and *)
(* tells of the gateway's verdict.                                         *)
Fits(c, v, f) ==
  /\ f.of = c.op \/ (c.op \in Moves /\ f.of = "Session" /\ f.part = "finished")
  /\ f.sid = c.sid
  /\ f.part = "cfm" => f.status = v
  /\ f.part # "cfm" => v = "accepted"
  /\ c.op \in Reads /\ f.part = "ntf" => f.items = <<c.node>>
  /\ \A x \in DOMAIN f.items : f.items[x] \in Subjects(c)

LEMMA RepliesFit ==
  ASSUME System \in Seq(Nat), SceneList \in Seq(Nat),
         NEW c \in CallRecords, NEW v \in Verdicts(c.op), c.op \in Lists \cup {"LoadNode"} => c.sid = 0,
         NEW r, r = Replies(c, v)
  PROVE  /\ r \in Seq(Frames) /\ Len(r) > 0
         /\ \A j \in DOMAIN r : Fits(c, v, r[j])
         /\ c.op \in Moves => \A j \in DOMAIN r : r[j].part = "finished" => j = Len(r)
         /\ c.op \in Lists /\ v = "accepted" => r = Listing(c.op)
<1>0. /\ c.op \in Ops /\ c.sid \in Nat /\ c.node \in Nat /\ v \in Statuses
      /\ <<c.node>> \in Seq(Nat) /\ <<>> \in Seq(Nat)
      /\ c.op \in Moves => c.op \notin Reads \cup Lists
      /\ c.op \in Reads => c.op \notin Lists
  BY Kinds DEF CallRecords, Verdicts, Statuses
<1>1. CASE v = "rejected"
  <2>1. r = <<Cfm(c.op, c.sid, "rejected", 0)>>
    BY <1>1 DEF Replies
  <2>2. Cfm(c.op, c.sid, "rejected", 0) \in Frames
    BY <1>0, FrameTypes DEF Statuses
  <2>3. Fits(c, v, Cfm(c.op, c.sid, "rejected", 0))
    BY <1>0, <1>1 DEF Fits, Cfm
  <2>4. r \in Seq(Frames) /\ Len(r) = 1 /\ DOMAIN r = 1 .. 1 /\ r[1] = Cfm(c.op, c.sid, "rejected", 0)
    BY <2>1, <2>2
  <2>5. Len(r) > 0
    BY <2>4
  <2>6. \A j \in DOMAIN r : j = 1 /\ j = Len(r)
    BY <2>4
  <2> QED BY <1>1, <2>3, <2>4, <2>5, <2>6
<1>2. CASE v = "accepted" /\ c.op \in Moves
  <2>1. r = <<Cfm(c.op, c.sid, "accepted", 0), Finished("Session", c.sid)>>
    <3>1. c.op \notin Reads \cup {"GetAllNodes", "GetSceneList", "LoadNode"}
      BY <1>2, Kinds DEF Lists
    <3> QED BY <1>2, <3>1, Zenon DEF Replies
  <2>2. Cfm(c.op, c.sid, "accepted", 0) \in Frames /\ Finished("Session", c.sid) \in Frames
    BY <1>0, FrameTypes DEF Statuses
  <2>3. Fits(c, v, Cfm(c.op, c.sid, "accepted", 0)) /\ Fits(c, v, Finished("Session", c.sid))
        /\ Cfm(c.op, c.sid, "accepted", 0).part # "finished"
    BY <1>0, <1>2 DEF Fits, Cfm, Finished
  <2>4. r \in Seq(Frames) /\ Len(r) = 2 /\ DOMAIN r = 1 .. 2
        /\ r[1] = Cfm(c.op, c.sid, "accepted", 0) /\ r[2] = Finished("Session", c.sid)
    BY <2>1, <2>2
  <2>5. Len(r) > 0
    BY <2>4
  <2>6. \A j \in DOMAIN r : j = 1 \/ j = 2
    BY <2>4
  <2> QED BY <1>0, <1>2, <2>3, <2>4, <2>5, <2>6
<1>3. CASE v = "accepted" /\ c.op \in Reads \cup {"LoadNode"}
  <2>1. r = <<Cfm(c.op, c.sid, "accepted", 0), Ntf(c.op, c.sid, 0, <<c.node>>)>>
    <3>1. CASE c.op \in Reads
      <4>1. c.op \notin Moves \cup {"GetAllNodes", "GetSceneList", "LoadNode"}
        BY <3>1, Kinds DEF Lists
      <4> QED BY <1>3, <3>1, <4>1, Zenon DEF Replies
    <3>2. CASE c.op = "LoadNode"
      <4>1. c.sid = 0 /\ c.op \notin Moves \cup Reads
        BY <3>2, Kinds
      <4> QED BY <1>3, <3>2, <4>1, Zenon DEF Replies
    <3> QED BY <1>3, <3>1, <3>2
  <2>2. Cfm(c.op, c.sid, "accepted", 0) \in Frames /\ Ntf(c.op, c.sid, 0, <<c.node>>) \in Frames
    BY <1>0, FrameTypes DEF Statuses
  <2>3. Fits(c, v, Cfm(c.op, c.sid, "accepted", 0)) /\ Fits(c, v, Ntf(c.op, c.sid, 0, <<c.node>>))
    <3>1. c.op \notin Lists
      BY <1>3, Kinds
    <3>2. \A x \in DOMAIN <<c.node>> : <<c.node>>[x] = c.node
      OBVIOUS
    <3> QED BY <1>0, <1>3, <3>1, <3>2 DEF Fits, Cfm, Ntf, Subjects
  <2>4. r \in Seq(Frames) /\ Len(r) = 2 /\ DOMAIN r = 1 .. 2
        /\ r[1] = Cfm(c.op, c.sid, "accepted", 0) /\ r[2] = Ntf(c.op, c.sid, 0, <<c.node>>)
    BY <2>1, <2>2
  <2>5. Len(r) > 0
    BY <2>4
  <2>6. \A j \in DOMAIN r : j = 1 \/ j = 2
    BY <2>4
  <2>7. c.op \notin Moves \cup Lists
    BY <1>3, Kinds
  <2> QED BY <2>3, <2>4, <2>5, <2>6, <2>7
<1>4. CASE v = "accepted" /\ c.op = "GetAllNodes"
  <2> DEFINE n == Len(System)
  <2>1. /\ n \in Nat /\ r \in Seq(Frames) /\ Len(r) = n + 2 /\ r = Listing(c.op)
        /\ r[1] = Cfm("GetAllNodes", 0, "accepted", n)
        /\ \A j \in 1 .. n : r[j + 1] = Ntf("GetAllNodes", 0, 0, <<System[j]>>)
        /\ r[n + 2] = Finished("GetAllNodes", 0)
    BY <1>4, ListingNodes
  <2>7. n \in Nat /\ Len(r) = n + 2 /\ DOMAIN r = 1 .. n + 2
    <3>1. n \in Nat /\ r \in Seq(Frames) /\ Len(r) = n + 2
      BY <2>1
    <3> HIDE DEF n
    <3> QED BY <3>1
  <2>2. c.sid = 0 /\ c.op \in Lists /\ c.op \notin Moves \cup Reads
    BY <1>4, Kinds DEF Lists
  <2>3. Fits(c, v, r[1]) /\ Fits(c, v, r[n + 2])
    <3> DEFINE a == Cfm("GetAllNodes", 0, "accepted", n)
               z == Finished("GetAllNodes", 0)
    <3>1. Fits(c, v, a)
      BY <1>4, <2>2 DEF Fits, Cfm
    <3>2. Fits(c, v, z)
      BY <1>4, <2>2 DEF Fits, Finished
    <3> QED BY <2>1, <3>1, <3>2
  <2>4. ASSUME NEW j \in 1 .. n PROVE Fits(c, v, r[j + 1])
    <3>1. \A x \in DOMAIN <<System[j]>> : <<System[j]>>[x] = System[j]
      OBVIOUS
    <3>2. System[j] \in Subjects(c)
      BY <1>4, <2>2 DEF Subjects, Source
    <3> DEFINE f == Ntf(c.op, 0, 0, <<System[j]>>)
    <3>3. Fits(c, v, f)
      BY <1>4, <2>2, <3>1, <3>2 DEF Fits, Ntf
    <3>4. r[j + 1] = f
      BY <1>4, <2>1
    <3> QED BY <3>3, <3>4
  <2> HIDE DEF n
  <2>5. Len(r) > 0
    BY <2>7
  <2>6. ASSUME NEW j \in DOMAIN r PROVE Fits(c, v, r[j])
    <3>1. /\ DOMAIN r = 1 .. n + 2
          /\ j = 1 \/ j = n + 2 \/ (j - 1 \in 1 .. n /\ (j - 1) + 1 = j)
      BY <2>7
    <3> QED BY <2>3, <2>4, <3>1
  <2> QED BY <2>1, <2>2, <2>5, <2>6
<1>5. CASE v = "accepted" /\ c.op = "GetSceneList"
  <2> DEFINE n == Len(SceneList)
  <2>1. /\ n \in Nat /\ r \in Seq(Frames) /\ Len(r) = n + 1 /\ r = Listing(c.op)
        /\ r[1] = Cfm("GetSceneList", 0, "accepted", n)
        /\ \A j \in 1 .. n : r[j + 1] = Ntf("GetSceneList", 0, n - j, <<SceneList[j]>>)
    BY <1>5, ListingScenes
  <2>2. c.sid = 0 /\ c.op \in Lists /\ c.op \notin Moves \cup Reads
    BY <1>5, Kinds DEF Lists
  <2>3. Fits(c, v, r[1])
    BY <1>5, <2>1, <2>2 DEF Fits, Cfm
  <2>4. ASSUME NEW j \in 1 .. n PROVE Fits(c, v, r[j + 1])
    <3>1. \A x \in DOMAIN <<SceneList[j]>> : <<SceneList[j]>>[x] = SceneList[j]
      OBVIOUS
    <3>2. SceneList[j] \in Subjects(c)
      BY <1>5, <2>2 DEF Subjects, Source
    <3> DEFINE f == Ntf(c.op, 0, n - j, <<SceneList[j]>>)
    <3>3. Fits(c, v, f)
      BY <1>5, <2>2, <3>1, <3>2 DEF Fits, Ntf
    <3>4. r[j + 1] = f
      BY <1>5, <2>1
    <3> QED BY <3>3, <3>4
  <2> HIDE DEF n
  <2>5. Len(r) > 0
    BY <2>1
  <2>6. ASSUME NEW j \in DOMAIN r PROVE Fits(c, v, r[j])
    <3>1. j = 1 \/ (j - 1 \in 1 .. n /\ (j - 1) + 1 = j)
      BY <2>1
    <3> QED BY <2>3, <2>4, <3>1
  <2> QED BY <2>1, <2>2, <2>5, <2>6
<1>6. CASE v = "accepted" /\ c.op \in Graded \cup Ungraded \cup {"SetLimitation"}
  <2>1. r = <<Cfm(c.op, c.sid, "accepted", 0)>> /\ c.op \notin Moves \cup Lists
    <3>1. c.op \notin Moves \cup Reads \cup Lists \cup {"LoadNode"}
      BY <1>6, Kinds
    <3> QED BY <1>6, <3>1 DEF Replies, Lists
  <2>2. Cfm(c.op, c.sid, "accepted", 0) \in Frames
    BY <1>0, FrameTypes DEF Statuses
  <2>3. Fits(c, v, Cfm(c.op, c.sid, "accepted", 0))
    BY <1>0, <1>6 DEF Fits, Cfm
  <2>4. r \in Seq(Frames) /\ Len(r) = 1 /\ DOMAIN r = 1 .. 1 /\ r[1] = Cfm(c.op, c.sid, "accepted", 0)
    BY <2>1, <2>2
  <2>5. Len(r) > 0
    BY <2>1
  <2> QED BY <2>1, <2>3, <2>4, <2>5
<1>7. v \in {"accepted", "rejected"}
  BY <1>0 DEF Statuses
<1> QED BY <1>0, <1>1, <1>2, <1>3, <1>4, <1>5, <1>6, <1>7, Kinds DEF Lists
-----------------------------------------------------------------------------
(* A call and the answers the gateway has open: e is an answer, the rest   *)
(* of what the gateway will send, c the record of a call, v what the       *)
(* gateway decided on it.                                                  *)

Answers == [of : Ops, frames : Seq(Frames)]

(* What the items of an answer are.                                        *)
About(op) == Range(IF op = "GetSceneList" THEN SceneList ELSE System)

Belongs(e, f) ==
  /\ f.of = e.of \/ (e.of \in Moves /\ f.of = "Session" /\ f.part = "finished")
  /\ f.sid = e.frames[1].sid
  /\ \A x \in DOMAIN f.items : f.items[x] \in About(e.of)

Shaped(e) ==
  /\ e \in Answers /\ Len(e.frames) > 0
  /\ \A j \in DOMAIN e.frames :
       /\ Belongs(e, e.frames[j])
       /\ e.of \in Moves /\ e.frames[j].part = "finished" => j = Len(e.frames)

(* A request that the application makes, and what may come of it.          *)
Proper(c) ==
  /\ c.op \in Reads \cup {"LoadNode"} => c.node \in Range(System)
  /\ c.op \in Correlated => c.sid # 0
  /\ c.op \in Lists \cup {"LoadNode"} => c.sid = 0
  /\ c.wait => c.op \in Moves
  /\ \A x \in DOMAIN c.collected : c.collected[x] \in About(c.op)

(* The answers whose frames a call hears.                                  *)
Concerns(c, e) ==
  IF c.op \in Correlated THEN e.frames[1].sid = c.sid ELSE e.of = c.op

(* The rest of the answer to c: it tells of the verdict, and what remains  *)
(* of a list is what c has not collected.                                  *)
Agrees(c, v, f) ==
  /\ f.part = "cfm" => f.status = v
  /\ f.part # "cfm" => v = "accepted"
  /\ c.op \in Reads /\ f.part = "ntf" => f.items = <<c.node>>

Heard(c, e) == Len(Listing(c.op)) - Len(e.frames)

Halfway(c, e) ==
  LET k == Heard(c, e)
  IN  /\ k >= 0
      /\ \A j \in DOMAIN e.frames : e.frames[j] = Listing(c.op)[k + j]
      /\ Len(c.collected) = IF k = 0 THEN 0 ELSE k - 1
      /\ \A x \in DOMAIN c.collected : c.collected[x] = Source(c.op)[x]

RestOf(c, v, e) ==
  /\ e.of = c.op
  /\ \A j \in DOMAIN e.frames : Agrees(c, v, e.frames[j])
  /\ c.op \in Lists /\ v = "accepted" => Halfway(c, e)

(* A call that has success has been told the truth.                        *)
Truthful(c, v) ==
  c.op \notin Lists /\ c.success =>
    v = "accepted" /\ (c.op \in Reads \cup {"LoadNode"} => c.collected = <<c.node>>)

(* What a call takes from a frame stays within the system.                 *)
LEMMA NotesProper ==
  ASSUME NEW c \in CallRecords, Proper(c), NEW e, Shaped(e), NEW f, f = e.frames[1]
  PROVE  f \in Frames /\ Belongs(e, f) /\ Notes(c, f) \in CallRecords /\ Proper(Notes(c, f))
<1> DEFINE n == Notes(c, f)
<1>1. f \in Frames /\ Belongs(e, f) /\ e.of \in Ops
  <2>1. e.of \in Ops /\ e.frames \in Seq(Frames) /\ Len(e.frames) > 0
    BY DEF Shaped, Answers
  <2>2. 1 \in DOMAIN e.frames /\ e.frames[1] \in Frames
    BY <2>1
  <2>3. Belongs(e, e.frames[1])
    BY <2>2 DEF Shaped
  <2> QED BY <2>1, <2>2, <2>3
<1>2. /\ n \in CallRecords /\ n.op = c.op /\ n.sid = c.sid /\ n.node = c.node /\ n.wait = c.wait
  BY <1>1, NotesKeep
<1>3. c.op \in Ops
  BY DEF CallRecords
<1>5. f.of = c.op => f.items \in Seq(About(c.op))
  <2>1. f.of = c.op => e.of = c.op
    BY <1>1, <1>3, Kinds DEF Belongs
  <2>2. f.items \in Seq(Nat)
    BY <1>1 DEF Frames
  <2>3. f.of = c.op => \A x \in DOMAIN f.items : f.items[x] \in About(c.op)
    BY <1>1, <2>1 DEF Belongs
  <2> QED BY <2>2, <2>3, Narrowed
<1>6. c.collected \in Seq(About(c.op))
  <2>1. c.collected \in Seq(Nat)
    BY DEF CallRecords
  <2> QED BY <2>1, Narrowed DEF Proper
<1>7. \/ n.collected = c.collected
      \/ f.of = c.op /\ n.collected \in {f.items, c.collected \o f.items}
  <2>1. CASE c.op \in Reads \cup {"LoadNode"}
    BY <1>1, <2>1, NotesRead DEF IsNtf
  <2>2. CASE c.op \in Lists
    BY <1>1, <2>2, NotesListed DEF IsNtf
  <2>3. CASE c.op \in Moves
    BY <2>3, NotesByKind DEF NotesSession, CallRecords
  <2>4. CASE c.op = "SetLimitation"
    BY <2>4, NotesByKind DEF NotesLimitation, CallRecords
  <2>5. CASE c.op \in Graded \cup Ungraded
    <3>1. NotesConfirmation(c, f).collected = c.collected
      BY ConfirmationIs DEF CallRecords
    <3> QED BY <2>5, <3>1, NotesByKind
  <2> QED BY <1>3, <2>1, <2>2, <2>3, <2>4, <2>5, Kinds
<1>8. n.collected \in Seq(About(c.op))
  <2>1. f.of = c.op => c.collected \o f.items \in Seq(About(c.op))
    BY <1>5, <1>6, ConcatProperties
  <2> QED BY <1>5, <1>6, <1>7, <2>1
<1>9. \A x \in DOMAIN n.collected : n.collected[x] \in About(n.op)
  <2> DEFINE S == About(c.op)
             s == n.collected
  <2>1. s \in Seq(S) /\ n.op = c.op
    BY <1>2, <1>8
  <2> HIDE DEF S, s
  <2>2. \A x \in DOMAIN s : s[x] \in S
    BY <2>1
  <2> QED BY <2>1, <2>2 DEF S, s
<1> HIDE DEF n
<1>10. Proper(n)
  BY <1>2, <1>9 DEF Proper
<1> QED BY <1>1, <1>2, <1>10 DEF n

LEMMA HearsNothing ==
  ASSUME NEW c \in CallRecords, Proper(c), NEW e, Shaped(e), ~Concerns(c, e),
         NEW f, f = e.frames[1]
  PROVE  Notes(c, f) = c /\ ~Ends(c, f)
<1>1. f \in Frames /\ Belongs(e, f)
  BY NotesProper
<1>2. c.op \in Ops
  BY DEF CallRecords
<1>3. IF c.op \in Correlated THEN f.sid # c.sid ELSE f.of # c.op
  BY <1>1, <1>2, Kinds DEF Concerns, Belongs
<1> QED BY <1>1, <1>3, NotesNothing

(* What is left of an answer when its first frame has gone.                *)
LEMMA Remainder ==
  ASSUME NEW e, Shaped(e), Len(e.frames) > 1,
         NEW d \in Answers, d.of = e.of, d.frames = Tail(e.frames)
  PROVE  /\ Len(d.frames) = Len(e.frames) - 1
         /\ \A j \in DOMAIN d.frames : j + 1 \in DOMAIN e.frames /\ d.frames[j] = e.frames[j + 1]
         /\ Shaped(d) /\ d.frames[1].sid = e.frames[1].sid
<1> DEFINE s == e.frames
           t == d.frames
<1>1. s \in Seq(Frames) /\ s # <<>> /\ Len(s) > 1 /\ DOMAIN s = 1 .. Len(s) /\ Len(s) \in Nat
  BY DEF Shaped, Answers
<1>2. /\ t \in Seq(Frames) /\ Len(t) = Len(s) - 1
      /\ \A j \in 1 .. Len(t) : t[j] = s[j + 1]
  BY <1>1, HeadTailProperties
<1> HIDE DEF s, t
<1>3. DOMAIN t = 1 .. Len(t) /\ Len(t) \in Nat
  BY <1>2
<1>4. \A j \in DOMAIN t : j + 1 \in DOMAIN s /\ t[j] = s[j + 1] /\ (j + 1 = Len(s) => j = Len(t))
  BY <1>1, <1>2, <1>3
<1>5. 1 \in DOMAIN t /\ 2 \in DOMAIN s /\ t[1] = s[2] /\ Len(t) > 0
  BY <1>1, <1>2, <1>3
<1>6. \A j \in DOMAIN s : /\ Belongs(e, s[j])
                          /\ e.of \in Moves /\ s[j].part = "finished" => j = Len(s)
  BY DEF Shaped, s
<1>7. t[1].sid = s[1].sid
  BY <1>5, <1>6 DEF Belongs, s
<1>8. \A j \in DOMAIN t : Belongs(d, t[j])
  BY <1>4, <1>6, <1>7 DEF Belongs, s, t
<1>9. \A j \in DOMAIN t : d.of \in Moves /\ t[j].part = "finished" => j = Len(t)
  BY <1>4, <1>6
<1>10. Shaped(d)
  BY <1>5, <1>8, <1>9 DEF Shaped, t
<1> QED BY <1>2, <1>4, <1>7, <1>10 DEF s, t

(* A list frame by frame: the announcement, one item per frame, and for    *)
(* the nodes an end of its own; only the last frame ends the call.         *)
LEMMA ListFrames ==
  ASSUME System \in Seq(Nat), SceneList \in Seq(Nat), NEW c \in CallRecords, c.op \in Lists
  PROVE  LET s == Source(c.op)
             l == Listing(c.op)
         IN  /\ s \in Seq(Nat) /\ l \in Seq(Frames)
             /\ Len(l) \in {Len(s) + 1, Len(s) + 2}
             /\ IsCfm(c, l[1]) /\ (Ends(c, l[1]) => Len(l) = 1)
             /\ \A j \in 1 .. Len(s) : /\ IsNtf(c, l[j + 1]) /\ l[j + 1].items = <<s[j]>>
                                       /\ Ends(c, l[j + 1]) => Len(l) = j + 1
             /\ Len(l) = Len(s) + 2 =>
                  ~IsCfm(c, l[Len(s) + 2]) /\ ~IsNtf(c, l[Len(s) + 2])
<1>1. CASE c.op = "GetAllNodes"
  <2> DEFINE n == Len(System)
             l == Listing("GetAllNodes")
  <2>1. /\ n \in Nat /\ l \in Seq(Frames) /\ Len(l) = n + 2
        /\ l[1] = Cfm("GetAllNodes", 0, "accepted", n)
        /\ \A j \in 1 .. n : l[j + 1] = Ntf("GetAllNodes", 0, 0, <<System[j]>>)
        /\ l[n + 2] = Finished("GetAllNodes", 0)
    BY ListingNodes
  <2> HIDE DEF l
  <2>2. IsCfm(c, l[1]) /\ ~Ends(c, l[1])
    <3>1. l[1] = Cfm("GetAllNodes", 0, "accepted", n)
      BY <2>1
    <3>2. l[1].of = "GetAllNodes" /\ l[1].part = "cfm"
      BY <3>1 DEF Cfm
    <3> QED BY <1>1, <3>2, EndsByKind DEF IsCfm
  <2>3. ~IsCfm(c, l[n + 2]) /\ ~IsNtf(c, l[n + 2])
    <3>1. l[n + 2] = Finished("GetAllNodes", 0)
      BY <2>1
    <3> QED BY <3>1 DEF Finished, IsCfm, IsNtf
  <2>4. ASSUME NEW j \in 1 .. n
        PROVE  IsNtf(c, l[j + 1]) /\ l[j + 1].items = <<System[j]>> /\ ~Ends(c, l[j + 1])
    <3>1. l[j + 1] = Ntf("GetAllNodes", 0, 0, <<System[j]>>)
      BY <2>1
    <3> QED BY <1>1, <3>1, EndsByKind DEF Ntf, IsNtf
  <2>5. Source(c.op) = System /\ Listing(c.op) = l
    BY <1>1 DEF Source, l
  <2>6. l \in Seq(Frames) /\ Len(l) = n + 2
    BY <2>1
  <2> QED BY <2>2, <2>3, <2>4, <2>5, <2>6
<1>2. CASE c.op = "GetSceneList"
  <2> DEFINE n == Len(SceneList)
             l == Listing("GetSceneList")
  <2>1. /\ n \in Nat /\ l \in Seq(Frames) /\ Len(l) = n + 1
        /\ l[1] = Cfm("GetSceneList", 0, "accepted", n)
        /\ \A j \in 1 .. n : l[j + 1] = Ntf("GetSceneList", 0, n - j, <<SceneList[j]>>)
    BY ListingScenes
  <2> HIDE DEF l
  <2>2. IsCfm(c, l[1]) /\ (Ends(c, l[1]) => Len(l) = 1)
    BY <1>2, <2>1, EndsByKind DEF Cfm, IsCfm
  <2>4. ASSUME NEW j \in 1 .. n
        PROVE  /\ IsNtf(c, l[j + 1]) /\ l[j + 1].items = <<SceneList[j]>>
               /\ Ends(c, l[j + 1]) => Len(l) = j + 1
    <3>1. l[j + 1] = Ntf("GetSceneList", 0, n - j, <<SceneList[j]>>)
      BY <2>1
    <3>2. IsNtf(c, l[j + 1]) /\ l[j + 1].items = <<SceneList[j]>> /\ l[j + 1].number = n - j
      BY <1>2, <3>1 DEF Ntf, IsNtf
    <3>3. Ends(c, l[j + 1]) => n - j = 0
      BY <1>2, <3>2, EndsByKind
    <3>4. Len(l) = n + 1 /\ n \in Nat
      BY <2>1
    <3> QED BY <3>2, <3>3, <3>4
  <2>5. Source(c.op) = SceneList /\ Listing(c.op) = l
    BY <1>2 DEF Source, l
  <2>6. n \in Nat /\ l \in Seq(Frames) /\ Len(l) = n + 1 /\ n + 1 # n + 2
    BY <2>1
  <2> QED BY <2>2, <2>4, <2>5, <2>6
<1> QED BY <1>1, <1>2 DEF Lists

(* One frame of a list.                                                    *)
LEMMA HearsList ==
  ASSUME System \in Seq(Nat), SceneList \in Seq(Nat),
         NEW c \in CallRecords, c.op \in Lists, NEW e, Shaped(e), Halfway(c, e),
         NEW f, f = e.frames[1]
  PROVE  /\ Ends(c, f) => Len(e.frames) = 1
         /\ Len(e.frames) = 1 => Notes(c, f).collected = Source(c.op)
         /\ \A d : /\ Len(e.frames) > 1 /\ Len(d.frames) = Len(e.frames) - 1
                   /\ d.frames \in Seq(Frames)
                   /\ \A j \in DOMAIN d.frames : d.frames[j] = e.frames[j + 1]
                   => Halfway(Notes(c, f), d)
<1> DEFINE s == Source(c.op)
           l == Listing(c.op)
           m == Len(e.frames)
           k == Len(l) - m
           h == c.collected
           n == Notes(c, f)
           w == n.collected
<1>1. /\ s \in Seq(Nat) /\ l \in Seq(Frames) /\ Len(s) \in Nat /\ Len(l) \in Nat
      /\ Len(l) \in {Len(s) + 1, Len(s) + 2}
      /\ IsCfm(c, l[1]) /\ (Ends(c, l[1]) => Len(l) = 1)
      /\ \A j \in 1 .. Len(s) : /\ IsNtf(c, l[j + 1]) /\ l[j + 1].items = <<s[j]>>
                                /\ Ends(c, l[j + 1]) => Len(l) = j + 1
      /\ Len(l) = Len(s) + 2 =>
           ~IsCfm(c, l[Len(s) + 2]) /\ ~IsNtf(c, l[Len(s) + 2])
  <2>1. s \in Seq(Nat) /\ l \in Seq(Frames)
    BY ListFrames
  <2>2. Len(s) \in Nat /\ Len(l) \in Nat
    BY <2>1
  <2> HIDE DEF s, l
  <2> QED BY <2>1, <2>2, ListFrames DEF s, l
<1>2. /\ e.frames \in Seq(Frames) /\ m \in Nat /\ m > 0 /\ DOMAIN e.frames = 1 .. m
      /\ 1 \in DOMAIN e.frames /\ f \in Frames
  BY DEF Shaped, Answers
<1>3. /\ k >= 0 /\ \A j \in DOMAIN e.frames : e.frames[j] = l[k + j]
      /\ Len(h) = (IF k = 0 THEN 0 ELSE k - 1) /\ \A x \in DOMAIN h : h[x] = s[x]
  BY DEF Halfway, Heard
<1>4. h \in Seq(Nat) /\ Len(h) \in Nat /\ DOMAIN h = 1 .. Len(h)
  BY DEF CallRecords
<1>5. n \in CallRecords /\ n.op = c.op /\ w \in Seq(Nat)
  BY <1>2, NotesKeep DEF CallRecords
<1>6. /\ IsCfm(c, f) => w = h
      /\ IsNtf(c, f) => w = h \o f.items
      /\ ~IsCfm(c, f) /\ ~IsNtf(c, f) => w = h
  BY <1>2, NotesListed
<1>7. f = l[k + 1]
  BY <1>2, <1>3
<1> HIDE DEF s, l, h, n, w
<1>8. k \in Nat /\ k + 1 <= Len(l) /\ (m = 1 <=> k + 1 = Len(l))
  <2>1. Len(l) \in Nat /\ m \in Nat /\ m > 0 /\ Len(l) - m >= 0
    BY <1>1, <1>2, <1>3
  <2> HIDE DEF m
  <2> QED BY <2>1
<1> HIDE DEF m, k
<1>9. /\ Ends(c, f) => m = 1
      /\ Len(w) = IF k > Len(s) THEN k - 1 ELSE k
      /\ \A x \in DOMAIN w : w[x] = s[x]
  <2>1. CASE k = 0
    <3>1. f = l[1] /\ k + 1 = 1
      BY <1>7, <2>1
    <3>2. w = h /\ Len(w) = 0
      BY <1>1, <1>3, <1>6, <2>1, <3>1
    <3>3. Ends(c, f) => m = 1
      BY <1>1, <1>8, <3>1
    <3> QED BY <1>3, <2>1, <3>2, <3>3
  <2>2. CASE k \in 1 .. Len(s)
    <3>1. IsNtf(c, f) /\ f.items = <<s[k]>> /\ (Ends(c, f) => m = 1)
      BY <1>1, <1>7, <1>8, <2>2
    <3>2. w = h \o <<s[k]>> /\ <<s[k]>> \in Seq(Nat) /\ Len(<<s[k]>>) = 1 /\ Len(h) = k - 1
      <4>1. w = h \o <<s[k]>>
        BY <1>6, <3>1
      <4>2. s[k] \in Nat
        BY <1>1, <2>2
      <4>3. Len(h) = k - 1
        BY <1>3, <2>2
      <4> QED BY <4>1, <4>2, <4>3
    <3>3. /\ Len(w) = k - 1 + 1 /\ w[k - 1 + 1] = <<s[k]>>[1]
          /\ \A i \in 1 .. k - 1 : w[i] = h[i]
      <4>1. k - 1 \in Nat
        BY <2>2
      <4> QED BY <1>4, <3>2, <4>1, Suffixed
    <3>4. Len(w) = k /\ w[k] = s[k] /\ \A i \in 1 .. k - 1 : w[i] = s[i]
      <4>1. k - 1 + 1 = k /\ <<s[k]>>[1] = s[k] /\ DOMAIN h = 1 .. k - 1
        BY <1>4, <2>2, <3>2
      <4> QED BY <1>3, <3>3, <4>1
    <3>5. DOMAIN w = 1 .. k /\ \A x \in 1 .. k : x = k \/ x \in 1 .. k - 1
      BY <1>5, <2>2, <3>4
    <3>6. ~(k > Len(s))
      BY <1>1, <2>2
    <3> QED BY <3>1, <3>4, <3>5, <3>6
  <2>3. CASE k > Len(s)
    <3>1. k = Len(s) + 1 /\ Len(l) = Len(s) + 2 /\ m = 1
      BY <1>1, <1>8, <2>3
    <3>2. f = l[Len(s) + 2]
      BY <1>1, <1>7, <3>1
    <3>3. w = h
      BY <1>1, <1>6, <3>1, <3>2
    <3>4. Len(h) = k - 1 /\ k - 1 = Len(s)
      BY <1>1, <1>3, <3>1
    <3> QED BY <1>3, <3>1, <3>3, <3>4
  <2> QED BY <1>1, <1>8, <2>1, <2>2, <2>3
<1>10. m = 1 => w = s
  <2>1. m = 1 => Len(w) = Len(s)
    <3>1. Len(l) \in {Len(s) + 1, Len(s) + 2} /\ Len(s) \in Nat
      BY <1>1
    <3> QED BY <1>8, <1>9, <3>1
  <2>2. DOMAIN w = 1 .. Len(w)
    BY <1>5
  <2> QED BY <1>1, <1>5, <1>9, <2>1, <2>2, SeqEqual
<1>11. ASSUME NEW d, m > 1, Len(d.frames) = m - 1, d.frames \in Seq(Frames),
              \A j \in DOMAIN d.frames : d.frames[j] = e.frames[j + 1]
       PROVE  Halfway(n, d)
  <2>1. Heard(n, d) = k + 1
    BY <1>1, <1>2, <1>5, <1>11 DEF Heard, k, l
  <2>2. Len(w) = k
    <3>1. Len(l) \in {Len(s) + 1, Len(s) + 2} /\ Len(s) \in Nat /\ Len(l) \in Nat
      BY <1>1
    <3>2. k + 1 < Len(l)
      BY <1>8, <1>11, <3>1
    <3> QED BY <1>8, <1>9, <3>1, <3>2
  <2>3. ASSUME NEW j \in DOMAIN d.frames PROVE d.frames[j] = l[k + 1 + j]
    <3>1. j \in Nat /\ j + 1 \in DOMAIN e.frames
      BY <1>2, <1>11
    <3>2. e.frames[j + 1] = l[k + (j + 1)]
      BY <1>3, <3>1 DEF k
    <3>3. k + (j + 1) = k + 1 + j
      BY <1>8, <3>1
    <3> QED BY <1>11, <3>2, <3>3
  <2> QED BY <1>5, <1>8, <1>9, <2>1, <2>2, <2>3 DEF Halfway, l, s, w
<1> QED BY <1>9, <1>10, <1>11 DEF n, w, s, m

(* One frame of the answer to a call: what the call then has is still the  *)
(* truth, a list or a movement ends with the last frame only, and the      *)
(* frames that are left are the rest of the same answer.                   *)
LEMMA Hears ==
  ASSUME System \in Seq(Nat), SceneList \in Seq(Nat),
         NEW c \in CallRecords, Proper(c), NEW v \in Verdicts(c.op), Truthful(c, v),
         NEW e, Shaped(e), Concerns(c, e), RestOf(c, v, e), NEW f, f = e.frames[1]
  PROVE  /\ Truthful(Notes(c, f), v)
         /\ c.op \in Lists /\ Ends(c, f) =>
              v = "accepted" /\ Notes(c, f).collected = Source(c.op)
         /\ (c.op \in Lists \/ c.wait) /\ Ends(c, f) => Len(e.frames) = 1
         /\ \A d \in Answers : Len(e.frames) > 1 /\ d.of = e.of /\ d.frames = Tail(e.frames) =>
              Concerns(Notes(c, f), d) /\ RestOf(Notes(c, f), v, d)
<1> DEFINE n == Notes(c, f)
<1>1. /\ f \in Frames /\ Belongs(e, f) /\ n \in CallRecords /\ n.op = c.op /\ n.sid = c.sid
      /\ n.node = c.node /\ n.wait = c.wait /\ c.op \in Ops
  BY NotesProper, NotesKeep DEF CallRecords
<1>2. /\ 1 \in DOMAIN e.frames /\ DOMAIN e.frames = 1 .. Len(e.frames) /\ Len(e.frames) \in Nat
      /\ Len(e.frames) > 0
  BY DEF Shaped, Answers
<1>3. e.of = c.op /\ Agrees(c, v, f) /\ v \in Statuses
  BY <1>2 DEF RestOf, Verdicts, Statuses
<1>4. Truthful(n, v)
  <2>1. CASE c.op \in Moves
    <3>1. IsCfm(c, f) /\ f.status = "accepted" => v = "accepted"
      BY <1>3 DEF Agrees, IsCfm
    <3> QED BY <1>1, <2>1, <3>1, NotesMoves, Kinds DEF Truthful
  <2>2. CASE c.op \in Reads \cup {"LoadNode"}
    <3> DEFINE mine == IsNtf(c, f) /\ IF c.op = "LoadNode" THEN f.items = <<c.node>> ELSE Own(c, f)
    <3>1. mine => v = "accepted" /\ f.items = <<c.node>>
      BY <1>3, <2>2 DEF Agrees, IsNtf
    <3>2. mine => n.success /\ n.collected = f.items
      BY <1>1, <2>2, NotesRead
    <3>3. ~mine => n = c
      BY <1>1, <2>2, NotesRead
    <3> HIDE DEF mine, n
    <3> QED BY <1>1, <2>2, <3>1, <3>2, <3>3 DEF Truthful
  <2>3. CASE c.op = "SetLimitation"
    <3>1. IsCfm(c, f) /\ f.status # "rejected" => v = "accepted"
      BY <1>3 DEF Agrees, IsCfm, Statuses
    <3> QED BY <1>1, <2>3, <3>1, NotesSetLimitation, Kinds DEF Truthful
  <2>4. CASE c.op \in Graded \cup Ungraded
    <3>1. IsCfm(c, f) => f.status = v
      BY <1>3 DEF Agrees, IsCfm
    <3>2. c.op \notin Graded => v = "accepted"
      BY <2>4 DEF Verdicts
    <3> QED BY <1>1, <2>4, <3>1, <3>2, NotesConfirmed, Kinds DEF Truthful
  <2>5. CASE c.op \in Lists
    BY <1>1, <2>5 DEF Truthful
  <2> QED BY <1>1, <2>1, <2>2, <2>3, <2>4, <2>5, Kinds
<1>5. c.op \in Lists /\ Ends(c, f) => v = "accepted"
  <2>1. CASE c.op = "GetAllNodes"
    BY <1>3, <2>1, EndsByKind DEF Agrees
  <2>2. CASE c.op = "GetSceneList"
    BY <2>2 DEF Verdicts
  <2> QED BY <2>1, <2>2 DEF Lists
<1>6. c.op \in Lists /\ v = "accepted" =>
        /\ Ends(c, f) => Len(e.frames) = 1
        /\ Len(e.frames) = 1 => n.collected = Source(c.op)
  BY HearsList DEF RestOf
<1>7. c.wait /\ Ends(c, f) => Len(e.frames) = 1
  <2>1. c.wait => c.op \in Moves
    BY DEF Proper
  <2>2. c.wait /\ Ends(c, f) => f.part = "finished"
    BY <2>1, EndsByKind
  <2> QED BY <1>2, <1>3, <2>1, <2>2 DEF Shaped
<1>8. ASSUME NEW d \in Answers, Len(e.frames) > 1, d.of = e.of, d.frames = Tail(e.frames)
      PROVE  Concerns(n, d) /\ RestOf(n, v, d)
  <2>1. /\ Len(d.frames) = Len(e.frames) - 1 /\ d.frames[1].sid = e.frames[1].sid
        /\ \A j \in DOMAIN d.frames : j + 1 \in DOMAIN e.frames /\ d.frames[j] = e.frames[j + 1]
        /\ d.frames \in Seq(Frames)
    BY <1>8, Remainder DEF Answers
  <2> HIDE DEF n
  <2>2. Concerns(n, d)
    BY <1>1, <1>8, <2>1 DEF Concerns
  <2>3. \A j \in DOMAIN d.frames : Agrees(n, v, d.frames[j])
    <3>1. \A j \in DOMAIN e.frames : Agrees(c, v, e.frames[j])
      BY DEF RestOf
    <3> QED BY <1>1, <2>1, <3>1 DEF Agrees
  <2>4. c.op \in Lists /\ v = "accepted" => Halfway(n, d)
    <3> SUFFICES ASSUME c.op \in Lists, v = "accepted" PROVE Halfway(n, d)
      OBVIOUS
    <3>1. Halfway(c, e)
      BY DEF RestOf
    <3>2. \A x : /\ Len(e.frames) > 1 /\ Len(x.frames) = Len(e.frames) - 1
                 /\ x.frames \in Seq(Frames)
                 /\ \A j \in DOMAIN x.frames : x.frames[j] = e.frames[j + 1]
                 => Halfway(Notes(c, f), x)
      BY <3>1, HearsList
    <3>3. \A j \in DOMAIN d.frames : d.frames[j] = e.frames[j + 1]
      BY <2>1
    <3>4. Len(e.frames) > 1 /\ Len(d.frames) = Len(e.frames) - 1 /\ d.frames \in Seq(Frames)
      BY <1>8, <2>1
    <3> QED BY <3>2, <3>3, <3>4 DEF n
  <2> QED BY <1>1, <1>3, <1>8, <2>2, <2>3, <2>4 DEF RestOf
<1> QED BY <1>4, <1>5, <1>6, <1>7, <1>8

(* The answer to a new call.                                               *)
LEMMA NewAnswer ==
  ASSUME System \in Seq(Nat), SceneList \in Seq(Nat),
         NEW c \in CallRecords, Proper(c), c.collected = <<>>, NEW v \in Verdicts(c.op),
         NEW e, e = [of |-> c.op, frames |-> Replies(c, v)]
  PROVE  /\ Shaped(e) /\ e.frames[1].sid = c.sid
         /\ Concerns(c, e) /\ RestOf(c, v, e)
<1> DEFINE r == Replies(c, v)
<1>1. c.op \in Ops /\ (c.op \in Lists \cup {"LoadNode"} => c.sid = 0)
  BY DEF CallRecords, Proper
<1>2. /\ r \in Seq(Frames) /\ Len(r) > 0
      /\ \A j \in DOMAIN r : Fits(c, v, r[j])
      /\ c.op \in Moves => \A j \in DOMAIN r : r[j].part = "finished" => j = Len(r)
      /\ c.op \in Lists /\ v = "accepted" => r = Listing(c.op)
  BY <1>1, RepliesFit
<1> HIDE DEF r
<1>3. e.of = c.op /\ e.frames = r /\ e \in Answers /\ 1 \in DOMAIN r
  BY <1>1, <1>2 DEF Answers, r
<1>4. r[1].sid = c.sid
  BY <1>2, <1>3 DEF Fits
<1>5. Subjects(c) \subseteq About(c.op)
  <2>1. c.op \in Reads \cup {"LoadNode"} => c.node \in Range(System) /\ c.op # "GetSceneList"
    BY Kinds DEF Proper, Lists
  <2>2. \A s : Range(s) = {s[i] : i \in DOMAIN s}
    BY DEF Range
  <2> QED BY <2>1, <2>2, Kinds DEF Subjects, About, Source, Lists
<1>6. \A j \in DOMAIN r : Belongs(e, r[j])
  BY <1>2, <1>3, <1>4, <1>5 DEF Fits, Belongs
<1>7. Shaped(e)
  BY <1>2, <1>3, <1>6 DEF Shaped
<1>8. Concerns(c, e)
  BY <1>3, <1>4 DEF Concerns
<1>9. \A j \in DOMAIN r : Agrees(c, v, r[j])
  BY <1>2 DEF Fits, Agrees
<1>10. c.op \in Lists /\ v = "accepted" => Halfway(c, e)
  <2> SUFFICES ASSUME c.op \in Lists, v = "accepted" PROVE Halfway(c, e)
    OBVIOUS
  <2>1. e.frames = Listing(c.op) /\ Len(Listing(c.op)) \in Nat /\ DOMAIN Listing(c.op) \subseteq Nat
    BY <1>2, <1>3
  <2>2. Heard(c, e) = 0
    BY <2>1 DEF Heard
  <2>3. \A j \in DOMAIN e.frames : e.frames[j] = Listing(c.op)[0 + j]
    BY <2>1
  <2>4. Len(c.collected) = 0 /\ DOMAIN c.collected = {}
    OBVIOUS
  <2> QED BY <2>2, <2>3, <2>4 DEF Halfway
<1> QED BY <1>3, <1>4, <1>7, <1>8, <1>9, <1>10 DEF RestOf
=============================================================================
