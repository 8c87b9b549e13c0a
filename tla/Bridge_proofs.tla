---------------------------- MODULE Bridge_proofs ----------------------------
(***************************************************************************)
(* Proofs about Bridge, for every set of covers and updaters and every     *)
(* bound on what happens.                                                  *)
(*                                                                         *)
(* MapIsExclusive is about three goroutines and a map without a lock.  Its *)
(* induction needs where a write may stand: only in the step lists of a    *)
(* registration (Placed), which a loop has only with resetMu (Holders) and *)
(* main only while it starts, when the loops rest (Stages).                *)
(*                                                                         *)
(* The others are about the last word on a topic.  Their induction needs   *)
(* that who waits for the broker waits for the head of its list, and that  *)
(* nothing given up is on its way while the broker is there (Waiting); the *)
(* order within a list (Ordered); and, for every topic, that it shows the  *)
(* right thing, that this is on its way, or that it is owed by one whose   *)
(* list still has it (Settles, Owes: Marks, Powered, Discovery and         *)
(* Withdrawal).                                                            *)
(***************************************************************************)
EXTENDS Bridge, SequenceTheorems, FiniteSetTheorems, TLAPS

(* The steps a task consists of.                                           *)
Online  == {Publish(t, "online") : t \in AvailabilityTopics}
Offline == {Publish(t, "offline") : t \in AvailabilityTopics}
Configs == {Publish(t, "config") : t \in DiscoveryTopics}
Clears  == {Publish(t, "") : t \in DiscoveryTopics}
Plugs   == {Publish(PlugTopic, "OFF"), Publish(PlugTopic, "ON")}
Records == {Record(t) : t \in DiscoveryTopics}
Hooks   == {Hook(c) : c \in Covers}
Puts    == {Put(c) : c \in Covers}
Publishes == Online \cup Offline \cup Configs \cup Clears \cup Plugs

StepsOf(task) ==
  CASE task = "register" -> Configs \cup Records \cup Hooks \cup Online \cup Puts
    [] task = "cycle" -> Plugs
    [] task \in {"down", "close"} -> Offline
    [] task \in {"up", "update"} -> Online
    [] task = "clean" -> Clears
    [] OTHER -> {}

StepLists(task) == Seq(StepsOf(task))

(* Every list holds the steps of its task, on the topics of the covers.    *)
Placed ==
  /\ doing \in [Publishers -> Tasks]
  /\ DOMAIN left = Publishers /\ DOMAIN job = Publishers
  /\ \A p \in Publishers :
       /\ job[p] \in StepLists(doing[p])
       /\ \A steps \in left[p] : steps \in StepLists(doing[p])

Has(steps, step) == \E i \in DOMAIN steps : steps[i] = step
Owes(p, step) == Has(job[p], step) \/ \E steps \in left[p] : Has(steps, step)

(* The order within a list: the configs of a registration before their     *)
(* records, OFF before ON, and one cover per update.                       *)
RecordsFollow(steps) ==
  \A t \in DiscoveryTopics : \A i \in DOMAIN steps :
    steps[i] = Publish(t, "config") => \E j \in DOMAIN steps : j > i /\ steps[j] = Record(t)

OneCover(steps) == \A i, j \in DOMAIN steps : steps[i].topic[1] = steps[j].topic[1]

OffOn  == <<Publish(PlugTopic, "OFF"), Publish(PlugTopic, "ON")>>
OnOnly == <<Publish(PlugTopic, "ON")>>

Ordered ==
  \A p \in Publishers :
    /\ RecordsFollow(job[p]) /\ \A steps \in left[p] : RecordsFollow(steps)
    /\ doing[p] = "cycle" => job[p] \in {<<>>, OffOn, OnOnly} /\ left[p] \subseteq {OffOn}
    /\ doing[p] = "update" => OneCover(job[p]) /\ left[p] \subseteq {UpdateNode(c) : c \in Covers}

Contents ==
  /\ covers \subseteq Covers /\ hooked \subseteq Covers /\ spoke \subseteq Covers
  /\ discovered \subseteq DiscoveryTopics
  /\ wedged \in BOOLEAN
  /\ jobs \in 0 .. MaxJobs

Messages == [topic : Topics, payload : Payloads, by : Publishers \cup {Nobody}]

(* Who waits for the broker has its publish at the head of the list, and   *)
(* nobody gives up while the broker is there.                              *)
Waiting ==
  /\ flight \subseteq Messages
  /\ \A m \in flight :
       /\ Publish(m.topic, m.payload) \in Publishes
       /\ m.by # Nobody => job[m.by] # <<>> /\ Head(job[m.by]) = Publish(m.topic, m.payload)
       /\ m.by = Nobody => ~online
  /\ \A m, n \in flight : m.by = n.by /\ m.by # Nobody => m = n

Shows ==
  /\ shown \in [Topics -> Payloads \cup {"none"}]
  /\ \A t \in Topics : Publish(t, shown[t]) \in Publishes \/ (shown[t] = "none" /\ t # PlugTopic)
  /\ mixed \subseteq Topics /\ online \in BOOLEAN /\ outages \in 0 .. MaxOutages

(* A loop registers, or cycles the plug, with resetMu.                     *)
Holders ==
  /\ \A p \in Loops : doing[p] \in Locked => lock = p
  /\ stage # "crashed" => \A p \in Loops : lock = p => doing[p] \in Locked
  /\ doing["periodic"] \in {"rest", "cycle", "register"}
  /\ doing["health"] \in {"rest", "cycle", "register", "down", "up"}
  /\ doing["health"] = "down" => wedged
  /\ \A u \in Updaters : doing[u] \in {"rest", "update"}

(* main and the loops are never at the map together.                       *)
Stages ==
  /\ stage \in {"starting", "running", "stopping", "closing", "closed", "exited", "crashed"}
  /\ doing["main"] \in {"rest", "register", "close", "clean"}
  /\ doing["main"] = "register" <=> stage = "starting"
  /\ doing["main"] \in {"close", "clean"} <=> stage = "closing"
  /\ stage \notin {"running", "stopping"} => \A p \in Loops : doing[p] = "rest"

IInv == Placed /\ Ordered /\ Contents /\ Waiting /\ Shows /\ Holders /\ Stages

-----------------------------------------------------------------------------
(* What a topic will show.                                                 *)

(* The messages on their way, or else what it shows, are in G.             *)
Settles(t, G) ==
  \/ \E m \in flight : m.topic = t /\ m.payload \in G
  \/ (\A m \in flight : m.topic # t) /\ (shown[t] \in G \/ t \in mixed)

Serving == stage \in {"starting", "running", "stopping"}

(* Offline comes from the health check only, for covers of the map; when   *)
(* the flag goes down online is owed to every one of them.                 *)
Marks ==
  /\ \A t \in AvailabilityTopics :
       shown[t] = "offline" \/ OnItsWay(t, "offline") => t[1] \in covers
  /\ \A p \in Publishers : \A t \in AvailabilityTopics :
       Owes(p, Publish(t, "offline")) => t[1] \in covers
  /\ Serving =>
       \A t \in AvailabilityTopics :
         \/ wedged \/ Settles(t, {"online", "none"})
         \/ doing["health"] = "up" /\ Owes("health", Publish(t, "online"))

(* ON is still to come while a power cycle is in its list.                 *)
Powered ==
  Alive => \/ Settles(PlugTopic, {"ON"})
           \/ \E p \in Publishers : doing[p] = "cycle" /\ job[p] # <<>>

(* Every config is recorded, or will be before its registration ends; and  *)
(* what was recorded is cleared.                                           *)
Recorded ==
  \A t \in DiscoveryTopics :
    shown[t] = "config" \/ OnItsWay(t, "config") =>
      t \in discovered \/ \E p \in Publishers : Has(job[p], Record(t))

Cleared ==
  \A t \in DiscoveryTopics : Settles(t, {"", "none"}) \/ Owes("main", Publish(t, ""))

Discovery ==
  /\ Serving \/ doing["main"] = "close" => Recorded
  /\ doing["main"] = "clean" \/ stage = "closed" => Cleared
  /\ DiscoveryIsCleared

(* While main withdraws the covers, an update speaks for its own only.     *)
SpokenFor ==
  \A u \in Updaters : \A t \in AvailabilityTopics :
    Owes(u, Publish(t, "online")) => t[1] \in spoke

Withdrawn ==
  \A t \in AvailabilityTopics :
    t[1] \in covers \ spoke => Settles(t, {"offline"}) \/ Owes("main", Publish(t, "offline"))

Withdrawal ==
  /\ stage \in {"closing", "closed"} => SpokenFor /\ Withdrawn
  /\ AvailabilityIsWithdrawn

Fates == Marks /\ Powered /\ Discovery /\ Withdrawal

-----------------------------------------------------------------------------

LEMMA Names ==
  /\ "main" \in Publishers /\ Loops \subseteq Publishers /\ Updaters \subseteq Publishers
  /\ Publishers = {"main", "health", "periodic"} \cup Updaters
  /\ Loops = {"health", "periodic"}
  /\ Nobody \notin Publishers
  /\ Updaters \cap {"main", "health", "periodic"} = {}
BY BridgeAssumption DEF Publishers, Loops, Nobody

LEMMA KindsOfTopics ==
  /\ Topics = DiscoveryTopics \cup AvailabilityTopics \cup {PlugTopic}
  /\ PlugTopic \notin DiscoveryTopics \cup AvailabilityTopics
  /\ DiscoveryTopics \cap AvailabilityTopics = {}
  /\ \A c \in Covers : /\ <<c, "cover/config">> \in DiscoveryTopics
                       /\ <<c, "switch/config">> \in DiscoveryTopics
                       /\ <<c, "available">> \in AvailabilityTopics
                       /\ <<c, "keepopen/available">> \in AvailabilityTopics
  /\ \A t \in AvailabilityTopics : /\ t[1] \in Covers
                                   /\ t = <<t[1], "available">> \/ t = <<t[1], "keepopen/available">>
BY DEF Topics, DiscoveryTopics, AvailabilityTopics, PlugTopic

(* Who publishes what, and who records.                                    *)
LEMMA WhoSays ==
  ASSUME NEW task, NEW t \in Topics, NEW x, Publish(t, x) \in StepsOf(task)
  PROVE  /\ Publish(t, x) \in Publishes
         /\ \/ task = "register" /\ t \in DiscoveryTopics /\ x = "config"
            \/ task = "register" /\ t \in AvailabilityTopics /\ x = "online"
            \/ task = "cycle" /\ t = PlugTopic /\ x \in {"OFF", "ON"}
            \/ task \in {"down", "close"} /\ t \in AvailabilityTopics /\ x = "offline"
            \/ task \in {"up", "update"} /\ t \in AvailabilityTopics /\ x = "online"
            \/ task = "clean" /\ t \in DiscoveryTopics /\ x = ""
<1> USE DEF Publish
<1>1. /\ Publish(t, x) \in Online => t \in AvailabilityTopics /\ x = "online"
      /\ Publish(t, x) \in Offline => t \in AvailabilityTopics /\ x = "offline"
      /\ Publish(t, x) \in Configs => t \in DiscoveryTopics /\ x = "config"
      /\ Publish(t, x) \in Clears => t \in DiscoveryTopics /\ x = ""
      /\ Publish(t, x) \in Plugs => t = PlugTopic /\ x \in {"OFF", "ON"}
      /\ Publish(t, x) \notin Records \cup Hooks \cup Puts
  BY DEF Online, Offline, Configs, Clears, Plugs, Records, Hooks, Puts, Record, Hook, Put
<1> HIDE DEF Publish
<1> QED BY <1>1 DEF StepsOf, Publishes

LEMMA WhatIsPublished ==
  ASSUME NEW t, NEW x, Publish(t, x) \in Publishes
  PROVE  /\ t \in Topics /\ x \in Payloads
         /\ t \in DiscoveryTopics => x \in {"config", ""}
         /\ t \in AvailabilityTopics => x \in {"online", "offline"}
         /\ t = PlugTopic => x \in {"OFF", "ON"}
<1>1. \/ t \in AvailabilityTopics /\ x \in {"online", "offline"}
      \/ t \in DiscoveryTopics /\ x \in {"config", ""}
      \/ t = PlugTopic /\ x \in {"OFF", "ON"}
  BY DEF Publishes, Publish, Online, Offline, Configs, Clears, Plugs
<1> QED BY <1>1, KindsOfTopics DEF Payloads

(* The steps of a list, by what they do.                                   *)
LEMMA KindsOfSteps ==
  ASSUME NEW task, NEW s \in StepsOf(task)
  PROVE  /\ s.do = "publish" => /\ s.topic \in Topics /\ s = Publish(s.topic, s.payload)
                                /\ s \in Publishes
         /\ s.do = "record" => task = "register" /\ s.topic \in DiscoveryTopics /\ s = Record(s.topic)
         /\ s.do = "hook" => task = "register" /\ s.cover \in Covers
         /\ s.do = "put" => task = "register" /\ s.cover \in Covers
         /\ s.do \in {"publish", "record", "hook", "put"}
<1>1. CASE s \in Publishes
  <2>0. PICK t \in Topics : \E x : s = Publish(t, x)
    <3>1. CASE s \in Online \cup Offline
      BY <3>1, KindsOfTopics DEF Online, Offline
    <3>2. CASE s \in Configs \cup Clears
      BY <3>2, KindsOfTopics DEF Configs, Clears
    <3>3. CASE s \in Plugs
      BY <3>3, KindsOfTopics DEF Plugs
    <3> QED BY <1>1, <3>1, <3>2, <3>3 DEF Publishes
  <2>1. PICK x : s = Publish(t, x)
    BY <2>0
  <2>2. s.do = "publish" /\ s.topic = t /\ s.payload = x
    BY <2>1 DEF Publish
  <2> QED BY <1>1, <2>1, <2>2
<1>2. CASE s \in Records /\ task = "register"
  BY <1>2 DEF Records, Record
<1>3. CASE s \in Hooks /\ task = "register"
  BY <1>3 DEF Hooks, Hook
<1>4. CASE s \in Puts /\ task = "register"
  BY <1>4 DEF Puts, Put
<1> QED BY <1>1, <1>2, <1>3, <1>4 DEF StepsOf, Publishes

-----------------------------------------------------------------------------
(* Lists of steps.                                                         *)

LEMMA HasIn ==
  ASSUME NEW S, NEW steps \in Seq(S), NEW step, Has(steps, step)
  PROVE  step \in S
BY DEF Has

LEMMA HasHead ==
  ASSUME NEW S, NEW steps \in Seq(S), steps # <<>>
  PROVE  /\ Head(steps) \in S /\ Tail(steps) \in Seq(S)
         /\ \A step : Has(steps, step) <=> Head(steps) = step \/ Has(Tail(steps), step)
<1> DEFINE h == Head(steps)
           r == Tail(steps)
           n == Len(steps)
<1>1. /\ h \in S /\ h = steps[1] /\ r \in Seq(S) /\ Len(r) = n - 1
      /\ n \in Nat \ {0} /\ DOMAIN steps = 1 .. n
      /\ \A i \in 1 .. Len(r) : r[i] = steps[i + 1]
  BY HeadTailProperties, EmptySeq
<1>2. DOMAIN r = 1 .. n - 1
  BY <1>1
<1> HIDE DEF h, r, n
<1>3. ASSUME NEW step PROVE Has(steps, step) <=> h = step \/ Has(r, step)
  <2>1. ASSUME NEW i \in 1 .. n, steps[i] = step PROVE h = step \/ Has(r, step)
    <3>1. CASE i = 1
      BY <1>1, <2>1, <3>1
    <3>2. CASE i # 1
      <4>1. i - 1 \in 1 .. n - 1 /\ r[i - 1] = steps[i]
        BY <1>1, <3>2
      <4> QED BY <1>2, <2>1, <4>1 DEF Has
    <3> QED BY <3>1, <3>2
  <2>2. ASSUME NEW i \in 1 .. n - 1, r[i] = step PROVE Has(steps, step)
    <3>1. i + 1 \in 1 .. n /\ steps[i + 1] = step
      BY <1>1, <2>2
    <3> QED BY <1>1, <3>1 DEF Has
  <2>3. h = step => Has(steps, step)
    <3>1. 1 \in DOMAIN steps /\ steps[1] = h
      BY <1>1
    <3> QED BY <3>1 DEF Has
  <2> QED BY <1>1, <1>2, <2>1, <2>2, <2>3 DEF Has
<1> QED BY <1>1, <1>3 DEF h, r

LEMMA FollowTail ==
  ASSUME NEW S, NEW steps \in Seq(S), steps # <<>>, RecordsFollow(steps)
  PROVE  RecordsFollow(Tail(steps))
<1> DEFINE r == Tail(steps)
           n == Len(steps)
<1>1. /\ r \in Seq(S) /\ Len(r) = n - 1 /\ n \in Nat \ {0} /\ DOMAIN steps = 1 .. n
      /\ \A i \in 1 .. Len(r) : r[i] = steps[i + 1]
  BY HeadTailProperties, EmptySeq
<1>2. DOMAIN r = 1 .. n - 1
  BY <1>1
<1> HIDE DEF r, n
<1>3. ASSUME NEW t \in DiscoveryTopics, NEW i \in DOMAIN r, r[i] = Publish(t, "config")
      PROVE  \E j \in DOMAIN r : j > i /\ r[j] = Record(t)
  <2>1. i + 1 \in DOMAIN steps /\ steps[i + 1] = Publish(t, "config")
    BY <1>1, <1>2, <1>3
  <2>2. PICK j \in DOMAIN steps : j > i + 1 /\ steps[j] = Record(t)
    BY <2>1 DEF RecordsFollow
  <2>3. j - 1 \in DOMAIN r /\ j - 1 > i /\ r[j - 1] = Record(t)
    BY <1>1, <1>2, <1>3, <2>2
  <2> QED BY <2>3
<1>4. RecordsFollow(r)
  BY <1>3 DEF RecordsFollow
<1> QED BY <1>4 DEF r

LEMMA OneCoverTail ==
  ASSUME NEW S, NEW steps \in Seq(S), steps # <<>>, OneCover(steps)
  PROVE  OneCover(Tail(steps))
<1> DEFINE r == Tail(steps)
<1>1. \A i \in DOMAIN r : i + 1 \in DOMAIN steps /\ r[i] = steps[i + 1]
  BY HeadTailProperties, EmptySeq
<1> HIDE DEF r
<1>2. OneCover(r)
  BY <1>1 DEF OneCover
<1> QED BY <1>2 DEF r

(* Lists after one another.                                                *)
LEMMA FollowConcat ==
  ASSUME NEW S, NEW a \in Seq(S), NEW b \in Seq(S), RecordsFollow(a), RecordsFollow(b)
  PROVE  a \o b \in Seq(S) /\ RecordsFollow(a \o b)
<1> DEFINE ab == a \o b
           m == Len(a)
           n == Len(b)
<1>1. /\ ab \in Seq(S) /\ Len(ab) = m + n
      /\ \A i \in 1 .. m + n : ab[i] = IF i <= m THEN a[i] ELSE b[i - m]
  BY ConcatProperties
<1>2. DOMAIN a = 1 .. m /\ DOMAIN b = 1 .. n /\ m \in Nat /\ n \in Nat
  OBVIOUS
<1>3. DOMAIN ab = 1 .. m + n
  BY <1>1, <1>2
<1> HIDE DEF ab, m, n
<1>4. ASSUME NEW t \in DiscoveryTopics, NEW i \in DOMAIN ab, ab[i] = Publish(t, "config")
      PROVE  \E j \in DOMAIN ab : j > i /\ ab[j] = Record(t)
  <2>1. CASE i <= m
    <3>1. i \in DOMAIN a /\ a[i] = Publish(t, "config")
      BY <1>1, <1>2, <1>3, <1>4, <2>1
    <3>2. PICK j \in DOMAIN a : j > i /\ a[j] = Record(t)
      BY <3>1 DEF RecordsFollow
    <3>3. j \in DOMAIN ab /\ ab[j] = a[j]
      BY <1>1, <1>2, <1>3, <3>2
    <3> QED BY <3>2, <3>3
  <2>2. CASE ~(i <= m)
    <3>1. i - m \in DOMAIN b /\ b[i - m] = Publish(t, "config")
      BY <1>1, <1>2, <1>3, <1>4, <2>2
    <3>2. PICK j \in DOMAIN b : j > i - m /\ b[j] = Record(t)
      BY <3>1 DEF RecordsFollow
    <3>3. j + m \in DOMAIN ab /\ j + m > i /\ ab[j + m] = b[j]
      BY <1>1, <1>2, <1>3, <1>4, <3>2
    <3> QED BY <3>2, <3>3
  <2> QED BY <2>1, <2>2
<1>5. RecordsFollow(ab)
  BY <1>4 DEF RecordsFollow
<1> QED BY <1>1, <1>5 DEF ab

LEMMA NothingToRecord ==
  ASSUME NEW S, NEW steps \in Seq(S), S \cap Configs = {}
  PROVE  RecordsFollow(steps)
BY DEF RecordsFollow, Configs

LEMMA SequencesOf ==
  ASSUME NEW S
  PROVE  /\ \A a \in S : <<a>> \in Seq(S)
         /\ \A a, b \in S : <<a, b>> \in Seq(S)
         /\ \A a, b, c, d \in S : <<a, b, c, d>> \in Seq(S)
OBVIOUS

-----------------------------------------------------------------------------
(* The lists of the tasks.                                                 *)

GoodLists(task, lists) ==
  /\ \A steps \in lists : steps \in StepLists(task) /\ RecordsFollow(steps)
  /\ task = "cycle" => lists \subseteq {OffOn}
  /\ task = "update" => lists \subseteq {UpdateNode(c) : c \in Covers}

LEMMA AvailabilityIsList ==
  ASSUME NEW c \in Covers, NEW x,
         NEW S, \A t \in AvailabilityTopics : Publish(t, x) \in S
  PROVE  /\ PublishAvailability(c, x) \in Seq(S)
         /\ OneCover(PublishAvailability(c, x))
         /\ \A t \in AvailabilityTopics :
              Has(PublishAvailability(c, x), Publish(t, x)) <=> t[1] = c
<1> DEFINE a == Publish(<<c, "available">>, x)
           b == Publish(<<c, "keepopen/available">>, x)
<1>1. a \in S /\ b \in S
  BY KindsOfTopics
<1>2. a.topic[1] = c /\ b.topic[1] = c
  BY DEF Publish
<1>3. \A t \in AvailabilityTopics : a = Publish(t, x) \/ b = Publish(t, x) <=> t[1] = c
  <2>1. ASSUME NEW t \in AvailabilityTopics
        PROVE  /\ Publish(t, x).topic = t /\ a.topic = <<c, "available">>
               /\ b.topic = <<c, "keepopen/available">>
    BY DEF Publish
  <2> HIDE DEF a, b
  <2>2. ASSUME NEW t \in AvailabilityTopics, a = Publish(t, x) \/ b = Publish(t, x)
        PROVE  t[1] = c
    BY <2>1, <2>2
  <2>3. ASSUME NEW t \in AvailabilityTopics, t[1] = c
        PROVE  a = Publish(t, x) \/ b = Publish(t, x)
    BY <2>3, KindsOfTopics DEF a, b
  <2> QED BY <2>2, <2>3
<1> HIDE DEF a, b
<1>4. <<a, b>> \in Seq(S)
  BY <1>1, SequencesOf
<1>5. DOMAIN <<a, b>> = {1, 2} /\ <<a, b>>[1] = a /\ <<a, b>>[2] = b
  OBVIOUS
<1>6. OneCover(<<a, b>>)
  BY <1>2, <1>5 DEF OneCover
<1>7. \A y : Has(<<a, b>>, y) <=> a = y \/ b = y
  BY <1>5 DEF Has
<1>8. PublishAvailability(c, x) = <<a, b>>
  BY DEF PublishAvailability, a, b
<1> QED BY <1>3, <1>4, <1>6, <1>7, <1>8

LEMMA DiscoveryIsList ==
  ASSUME NEW c \in Covers
  PROVE  /\ PublishDiscovery(c) \in StepLists("register")
         /\ RecordsFollow(PublishDiscovery(c))
<1> DEFINE u == <<c, "cover/config">>
           v == <<c, "switch/config">>
           d == <<Publish(u, "config"), Publish(v, "config"), Record(u), Record(v)>>
<1>1. u \in DiscoveryTopics /\ v \in DiscoveryTopics
  BY KindsOfTopics
<1>2. PublishDiscovery(c) = d
  BY DEF PublishDiscovery
<1> HIDE DEF u, v
<1>3. /\ Publish(u, "config") \in StepsOf("register") /\ Publish(v, "config") \in StepsOf("register")
      /\ Record(u) \in StepsOf("register") /\ Record(v) \in StepsOf("register")
  BY <1>1 DEF StepsOf, Configs, Records
<1>4. d \in StepLists("register")
  BY <1>3, SequencesOf DEF StepLists
<1>5. ASSUME NEW t \in DiscoveryTopics, NEW i \in DOMAIN d, d[i] = Publish(t, "config")
      PROVE  \E j \in DOMAIN d : j > i /\ d[j] = Record(t)
  <2>1. DOMAIN d = 1 .. 4 /\ d[3] = Record(u) /\ d[4] = Record(v)
        /\ d[1] = Publish(u, "config") /\ d[2] = Publish(v, "config")
    OBVIOUS
  <2>2. \A w, x : Publish(w, "config") = Publish(x, "config") => w = x
    BY DEF Publish
  <2>3. \A w, x : Record(w) # Publish(x, "config")
    BY DEF Publish, Record
  <2> HIDE DEF d
  <2>4. i \in {1, 2}
    BY <1>5, <2>1, <2>3
  <2>5. CASE i = 1
    BY <1>5, <2>1, <2>2, <2>5
  <2>6. CASE i = 2
    BY <1>5, <2>1, <2>2, <2>6
  <2> QED BY <2>4, <2>5, <2>6
<1>6. RecordsFollow(d)
  BY <1>5 DEF RecordsFollow
<1> QED BY <1>2, <1>4, <1>6

LEMMA StartIsList ==
  ASSUME NEW c \in Covers
  PROVE  Start(c) \in StepLists("register") /\ RecordsFollow(Start(c))
<1> DEFINE S == StepsOf("register")
           T == Hooks \cup Online \cup Puts
<1>1. T \subseteq S /\ T \cap Configs = {}
  <2>1. T \subseteq S
    BY DEF StepsOf
  <2>2. \A s \in T : s \notin Configs
    BY KindsOfTopics DEF Hooks, Hook, Online, Publish, Puts, Put, Configs
  <2> QED BY <2>1, <2>2
<1>2. Hook(c) \in T /\ Put(c) \in T /\ \A t \in AvailabilityTopics : Publish(t, "online") \in T
  BY DEF Hooks, Online, Puts
<1>3. UpdateNode(c) \in Seq(T)
  BY <1>2, AvailabilityIsList DEF UpdateNode
<1>4. <<Hook(c)>> \in Seq(T) /\ <<Put(c)>> \in Seq(T)
  BY <1>2, SequencesOf
<1> HIDE DEF T
<1>5. \A s \in Seq(T) : s \in Seq(S) /\ RecordsFollow(s)
  <2>1. \A s \in Seq(T) : RecordsFollow(s)
    BY <1>1, NothingToRecord
  <2> QED BY <1>1, <2>1
<1>6. PublishDiscovery(c) \in Seq(S) /\ RecordsFollow(PublishDiscovery(c))
  BY DiscoveryIsList DEF StepLists
<1> HIDE DEF S
<1> DEFINE x == PublishDiscovery(c) \o <<Hook(c)>>
           y == x \o UpdateNode(c)
           z == y \o <<Put(c)>>
<1>7. x \in Seq(S) /\ RecordsFollow(x)
  BY <1>4, <1>5, <1>6, FollowConcat
<1> HIDE DEF x
<1>8. y \in Seq(S) /\ RecordsFollow(y)
  BY <1>3, <1>5, <1>7, FollowConcat
<1> HIDE DEF y
<1>9. z \in Seq(S) /\ RecordsFollow(z)
  BY <1>4, <1>5, <1>8, FollowConcat
<1>10. z = Start(c)
  BY DEF x, y, z, Start
<1> QED BY <1>9, <1>10 DEF S, StepLists

(* What main, the loops and the updaters are given to do.                  *)
LEMMA ListsOfTasks ==
  ASSUME Contents
  PROVE  /\ GoodLists("register", Register) /\ GoodLists("rest", {})
         /\ GoodLists("cycle", {<<Publish(PlugTopic, "OFF"), Publish(PlugTopic, "ON")>>})
         /\ GoodLists("down", MarkAll("offline")) /\ GoodLists("close", MarkAll("offline"))
         /\ GoodLists("up", MarkAll("online"))
         /\ GoodLists("clean", Cleanup)
         /\ \A c \in hooked : GoodLists("update", {UpdateNode(c)})
<1>1. GoodLists("register", Register)
  BY StartIsList DEF Register, GoodLists
<1>2. GoodLists("cycle", {OffOn})
  <2>1. OffOn \in StepLists("cycle")
    BY SequencesOf DEF OffOn, StepLists, StepsOf, Plugs
  <2>2. Plugs \cap Configs = {}
    BY DEF Plugs, Configs, Publish
  <2>3. StepsOf("cycle") = Plugs
    BY DEF StepsOf
  <2>4. RecordsFollow(OffOn)
    BY <2>1, <2>2, <2>3, NothingToRecord DEF StepLists
  <2> QED BY <2>1, <2>4 DEF GoodLists
<1>3. /\ StepsOf("down") = Offline /\ StepsOf("close") = Offline
      /\ StepsOf("up") = Online /\ StepsOf("update") = Online /\ StepsOf("clean") = Clears
  BY DEF StepsOf
<1>4. Offline \cap Configs = {} /\ Online \cap Configs = {} /\ Clears \cap Configs = {}
  <2>1. \A s \in Configs : s.payload = "config"
    BY DEF Configs, Publish
  <2>2. \A s \in Offline : s.payload # "config"
    BY DEF Offline, Publish
  <2>3. \A s \in Online : s.payload # "config"
    BY DEF Online, Publish
  <2>4. \A s \in Clears : s.payload # "config"
    <3>1. \A t : Publish(t, "").payload = ""
      BY DEF Publish
    <3>2. "" # "config"
      BY Zenon
    <3> QED BY <3>1, <3>2 DEF Clears
  <2> QED BY <2>1, <2>2, <2>3, <2>4
<1>5. \A c \in Covers : /\ PublishAvailability(c, "offline") \in Seq(Offline)
                        /\ PublishAvailability(c, "online") \in Seq(Online)
  BY AvailabilityIsList DEF Offline, Online
<1>6. \A c \in Covers : /\ RecordsFollow(PublishAvailability(c, "offline"))
                        /\ RecordsFollow(PublishAvailability(c, "online"))
  BY <1>4, <1>5, NothingToRecord
<1>7. GoodLists("down", MarkAll("offline")) /\ GoodLists("close", MarkAll("offline"))
      /\ GoodLists("up", MarkAll("online"))
  BY <1>3, <1>5, <1>6 DEF GoodLists, MarkAll, Contents, StepLists
<1>8. \A c \in hooked : GoodLists("update", {UpdateNode(c)})
  BY <1>3, <1>5, <1>6 DEF GoodLists, UpdateNode, Contents, StepLists
<1>9. GoodLists("clean", Cleanup)
  <2>1. ASSUME NEW t \in discovered PROVE <<Publish(t, "")>> \in Seq(Clears)
    <3>1. Publish(t, "") \in Clears
      BY DEF Clears, Contents
    <3> QED BY <3>1, SequencesOf
  <2>2. ASSUME NEW t \in discovered PROVE RecordsFollow(<<Publish(t, "")>>)
    BY <1>4, <2>1, NothingToRecord
  <2> QED BY <1>3, <2>1, <2>2 DEF GoodLists, Cleanup, StepLists
<1>10. GoodLists("rest", {})
  BY DEF GoodLists
<1> QED BY <1>1, <1>2, <1>7, <1>8, <1>9, <1>10 DEF OffOn

-----------------------------------------------------------------------------
(* Steps within the lists: the tasks stay, and a list goes on by its head, *)
(* when the publish it may be has an outcome, or is taken up.              *)

Inner ==
  \/ \E p \in Publishers : Steps(p)
  \/ \E m \in flight : Land(m)
  \/ BrokerIsBack \/ Outage

Stays(p)  == job'[p] = job[p] /\ left'[p] = left[p]
TakesUp(p) ==
  /\ job[p] = <<>> /\ left'[p] \subseteq left[p]
  /\ job'[p] \in left[p] /\ left[p] \subseteq left'[p] \cup {job'[p]}
GoesOn(p) ==
  /\ job[p] # <<>> /\ job'[p] = Tail(job[p]) /\ left'[p] = left[p]
  /\ Head(job[p]).do = "publish" => Waits(p)
  /\ Head(job[p]).do = "record" => Head(job[p]).topic \in discovered'
Moves(p) == Stays(p) \/ TakesUp(p) \/ GoesOn(p)

LEMMA HeadIs ==
  ASSUME Placed, NEW p \in Publishers, job[p] # <<>>
  PROVE  /\ Head(job[p]) \in StepsOf(doing[p]) /\ Tail(job[p]) \in StepLists(doing[p])
         /\ \A step : Has(job[p], step) <=> Head(job[p]) = step \/ Has(Tail(job[p]), step)
<1>1. job[p] \in Seq(StepsOf(doing[p]))
  BY DEF Placed, StepLists
<1> QED BY <1>1, HasHead DEF StepLists

LEMMA InnerMoves ==
  ASSUME IInv, Inner
  PROVE  /\ \A p \in Publishers : Moves(p)
         /\ DOMAIN job' = Publishers /\ DOMAIN left' = Publishers
         /\ UNCHANGED <<stage, wedged, lock, doing, spoke, jobs>>
         /\ discovered \subseteq discovered' /\ covers \subseteq covers'
<1> USE DEF Stays, TakesUp, GoesOn, Moves
<1>0. DOMAIN job = Publishers /\ DOMAIN left = Publishers
  BY DEF IInv, Placed
<1>1. ASSUME NEW p \in Publishers, Submit(p) PROVE UNCHANGED <<process, work>>
  BY <1>1 DEF Submit
<1>2. ASSUME NEW p \in Publishers, GiveUp(p)
      PROVE  /\ UNCHANGED <<process, doing, left>> /\ GoesOn(p)
             /\ DOMAIN job' = Publishers
             /\ \A q \in Publishers : q # p => Stays(q)
  <2>1. PICK m \in flight : m.by = p
    BY <1>2 DEF GiveUp
  <2>2. UNCHANGED <<process, doing, left>> /\ job' = [job EXCEPT ![p] = Tail(@)]
    BY <1>2 DEF GiveUp, Advance
  <2>3. job[p] # <<>> /\ Head(job[p]) = Publish(m.topic, m.payload) /\ Waits(p)
    BY <2>1, Names DEF IInv, Waiting, Waits
  <2>4. Head(job[p]).do = "publish"
    BY <2>3 DEF Publish
  <2> QED BY <1>0, <2>2, <2>3, <2>4
<1>3. ASSUME NEW p \in Publishers, RecordDiscoveryTopic(p) \/ RegisterCallback(p) \/ Insert(p)
      PROVE  /\ UNCHANGED <<stage, wedged, lock, doing, left, spoke, jobs>>
             /\ discovered \subseteq discovered' /\ covers \subseteq covers'
             /\ DOMAIN job' = Publishers /\ GoesOn(p)
             /\ \A q \in Publishers : q # p => Stays(q)
  <2>1. UNCHANGED <<stage, wedged, lock, doing, left, spoke, jobs>>
        /\ discovered \subseteq discovered' /\ covers \subseteq covers'
    BY <1>3 DEF RecordDiscoveryTopic, RegisterCallback, Insert
  <2>2. job[p] # <<>> /\ job' = [job EXCEPT ![p] = Tail(@)] /\ Head(job[p]).do # "publish"
        /\ (Head(job[p]).do = "record" => Head(job[p]).topic \in discovered')
    BY <1>3 DEF RecordDiscoveryTopic, RegisterCallback, Insert, Next1, Advance
  <2> QED BY <1>0, <2>1, <2>2
<1>4. ASSUME NEW p \in Publishers, Iterate(p)
      PROVE  /\ UNCHANGED <<process, doing>> /\ TakesUp(p)
             /\ DOMAIN job' = Publishers /\ DOMAIN left' = Publishers
             /\ \A q \in Publishers : q # p => Stays(q)
  <2>1. UNCHANGED <<process, doing>> /\ job[p] = <<>>
    BY <1>4 DEF Iterate
  <2>2. PICK s \in left[p] : /\ job' = [job EXCEPT ![p] = s]
                             /\ left' = [left EXCEPT ![p] = @ \ {s}]
    BY <1>4 DEF Iterate
  <2> QED BY <1>0, <2>1, <2>2
<1>5. ASSUME NEW m \in flight, Land(m)
      PROVE  /\ UNCHANGED <<process, doing, left>>
             /\ DOMAIN job' = Publishers
             /\ \A q \in Publishers : q # m.by => Stays(q)
             /\ m.by \in Publishers => GoesOn(m.by)
  <2>1. UNCHANGED <<process, doing, left>> /\ job' = [job EXCEPT ![m.by] = Tail(@)]
    BY <1>5 DEF Land, Advance
  <2>2. ASSUME m.by \in Publishers
        PROVE  job[m.by] # <<>> /\ Head(job[m.by]) = Publish(m.topic, m.payload) /\ Waits(m.by)
    BY <2>2, Names DEF IInv, Waiting, Waits
  <2>3. \A t, x : Publish(t, x).do = "publish"
    BY DEF Publish
  <2> QED BY <1>0, <2>1, <2>2, <2>3
<1>6. CASE BrokerIsBack
  <2>1. /\ UNCHANGED <<process, doing, left>>
        /\ job' = [p \in Publishers |-> IF Waits(p) THEN Tail(job[p]) ELSE job[p]]
    BY <1>6 DEF BrokerIsBack
  <2>2. \A p \in Publishers : Waits(p) => job[p] # <<>> /\ Head(job[p]).do = "publish"
    <3>1. \A t, x : Publish(t, x).do = "publish"
      BY DEF Publish
    <3> QED BY <3>1, Names DEF IInv, Waiting, Waits
  <2> QED BY <1>0, <2>1, <2>2 DEF process
<1>7. CASE Outage
  BY <1>0, <1>7 DEF Outage, process, work
<1>8. ASSUME NEW p \in Publishers, Steps(p)
      PROVE  /\ \A q \in Publishers : Moves(q)
             /\ DOMAIN job' = Publishers /\ DOMAIN left' = Publishers
             /\ UNCHANGED <<stage, wedged, lock, doing, spoke, jobs>>
             /\ discovered \subseteq discovered' /\ covers \subseteq covers'
  <2>1. CASE Submit(p)
    BY <1>0, <1>1, <2>1 DEF process, work
  <2>2. CASE GiveUp(p)
    BY <1>0, <1>2, <2>2 DEF process
  <2>3. CASE RecordDiscoveryTopic(p) \/ RegisterCallback(p) \/ Insert(p)
    BY <1>0, <1>3, <2>3
  <2>4. CASE Iterate(p)
    BY <1>4, <2>4 DEF process
  <2> QED BY <1>8, <2>1, <2>2, <2>3, <2>4 DEF Steps
<1>9. ASSUME NEW m \in flight, Land(m)
      PROVE  /\ \A q \in Publishers : Moves(q)
             /\ DOMAIN job' = Publishers /\ DOMAIN left' = Publishers
             /\ UNCHANGED <<stage, wedged, lock, doing, spoke, jobs>>
             /\ discovered \subseteq discovered' /\ covers \subseteq covers'
  BY <1>0, <1>5, <1>9 DEF process
<1> QED BY <1>6, <1>7, <1>8, <1>9 DEF Inner

LEMMA InnerLists ==
  ASSUME IInv, Inner
  PROVE  Placed' /\ Ordered'
<1>1. /\ \A p \in Publishers : Moves(p)
      /\ DOMAIN job' = Publishers /\ DOMAIN left' = Publishers /\ doing' = doing
  BY InnerMoves
<1>2. Placed /\ Ordered
  BY DEF IInv
<1>3. ASSUME NEW p \in Publishers
      PROVE  /\ job'[p] \in StepLists(doing[p])
             /\ \A steps \in left'[p] : steps \in StepLists(doing[p])
             /\ RecordsFollow(job'[p]) /\ \A steps \in left'[p] : RecordsFollow(steps)
             /\ doing[p] = "cycle" => job'[p] \in {<<>>, OffOn, OnOnly} /\ left'[p] \subseteq {OffOn}
             /\ doing[p] = "update" =>
                  OneCover(job'[p]) /\ left'[p] \subseteq {UpdateNode(c) : c \in Covers}
  <2>1. CASE Stays(p)
    BY <1>2, <2>1 DEF Stays, Placed, Ordered
  <2>2. CASE TakesUp(p)
    <3>1. \A c \in Covers : OneCover(UpdateNode(c))
      <4>1. \A t \in AvailabilityTopics : Publish(t, "online") \in Online
        BY DEF Online
      <4> QED BY <4>1, AvailabilityIsList DEF UpdateNode
    <3> QED BY <1>2, <2>2, <3>1 DEF TakesUp, Placed, Ordered
  <2>3. CASE GoesOn(p)
    <3>1. job[p] # <<>> /\ job'[p] = Tail(job[p]) /\ left'[p] = left[p]
      BY <2>3 DEF GoesOn
    <3>2. job[p] \in Seq(StepsOf(doing[p]))
      BY <1>2 DEF Placed, StepLists
    <3>3. Tail(job[p]) \in Seq(StepsOf(doing[p]))
      BY <3>1, <3>2, HasHead
    <3>4. RecordsFollow(job'[p])
      BY <1>2, <3>1, <3>2, FollowTail DEF Ordered
    <3>5. doing[p] = "update" => OneCover(job'[p])
      BY <1>2, <3>1, <3>2, OneCoverTail DEF Ordered
    <3>6. doing[p] = "cycle" => job'[p] \in {<<>>, OffOn, OnOnly}
      <4>1. Tail(OffOn) = OnOnly /\ Tail(OnOnly) = <<>>
        BY DEF OffOn, OnOnly
      <4> QED BY <1>2, <3>1, <4>1 DEF Ordered
    <3> QED BY <1>2, <3>1, <3>3, <3>4, <3>5, <3>6 DEF StepLists, Placed, Ordered
  <2> QED BY <1>1, <2>1, <2>2, <2>3 DEF Moves
<1>4. Placed'
  BY <1>1, <1>2, <1>3 DEF Placed
<1>5. Ordered'
  BY <1>1, <1>3 DEF Ordered
<1> QED BY <1>4, <1>5

(* Sets of few elements.                                                   *)
LEMMA Triples ==
  ASSUME NEW a, NEW b, NEW c
  PROVE  IsFiniteSet({a, b, c})
<1>1. IsFiniteSet({a}) /\ IsFiniteSet({b}) /\ IsFiniteSet({c})
  BY FS_Singleton
<1>2. IsFiniteSet({a} \cup {b})
  BY <1>1, FS_Union
<1>3. IsFiniteSet(({a} \cup {b}) \cup {c})
  BY <1>1, <1>2, FS_Union
<1>4. ({a} \cup {b}) \cup {c} = {a, b, c}
  OBVIOUS
<1> QED BY <1>3, <1>4

LEMMA OneOfFew ==
  ASSUME NEW S, IsFiniteSet(S), ~(Cardinality(S) > 1), NEW a \in S, NEW b \in S
  PROVE  a = b
<1> SUFFICES ASSUME a # b PROVE FALSE
  OBVIOUS
<1>1. IsFiniteSet({a}) /\ Cardinality({a}) = 1
  BY FS_Singleton
<1>2. IsFiniteSet({a} \cup {b}) /\ Cardinality({a} \cup {b}) = 1 + 1
  BY <1>1, FS_AddElement
<1>3. Cardinality({a} \cup {b}) <= Cardinality(S) /\ Cardinality(S) \in Nat
  <2>1. {a} \cup {b} \subseteq S
    OBVIOUS
  <2> QED BY <2>1, FS_Subset, FS_CardinalityType
<1> QED BY <1>2, <1>3

(* A publish at the head of a list.                                        *)
LEMMA HeadPublish ==
  ASSUME Placed, NEW p \in Publishers, job[p] # <<>>, Head(job[p]).do = "publish"
  PROVE  /\ Head(job[p]) = Publish(Head(job[p]).topic, Head(job[p]).payload)
         /\ Head(job[p]) \in Publishes
         /\ Head(job[p]).topic \in Topics /\ Head(job[p]).payload \in Payloads
<1> DEFINE h == Head(job[p])
<1>1. h \in StepsOf(doing[p])
  BY HeadIs
<1>2. h = Publish(h.topic, h.payload) /\ h \in Publishes
  BY <1>1, KindsOfSteps
<1> HIDE DEF h
<1>3. Publish(h.topic, h.payload) \in Publishes
  BY <1>2
<1>4. h.topic \in Topics /\ h.payload \in Payloads
  BY <1>3, WhatIsPublished
<1> QED BY <1>2, <1>4 DEF h

LEMMA SubmitWaiting ==
  ASSUME IInv, NEW p \in Publishers, Submit(p)
  PROVE  Waiting'
<1> DEFINE m == [topic |-> Head(job[p]).topic, payload |-> Head(job[p]).payload, by |-> p]
<1>1. job[p] # <<>> /\ Head(job[p]).do = "publish" /\ flight' = flight \cup {m} /\ job' = job
      /\ online' = online
  BY DEF Submit, Next1, work
<1>2. m \in Messages /\ Publish(m.topic, m.payload) \in Publishes
      /\ Head(job[p]) = Publish(m.topic, m.payload) /\ m.by = p
  <2>1. Head(job[p]).topic \in Topics /\ Head(job[p]).payload \in Payloads
        /\ Head(job[p]) \in Publishes
        /\ Head(job[p]) = Publish(Head(job[p]).topic, Head(job[p]).payload)
    BY <1>1, HeadPublish DEF IInv
  <2> QED BY <2>1 DEF Messages
<1>3. \A n \in flight : n.by # p
  BY DEF Submit, Waits
<1> HIDE DEF m
<1>4. Waiting /\ p # Nobody
  BY Names DEF IInv
<1> QED BY <1>1, <1>2, <1>3, <1>4 DEF Waiting

(* Messages on their way, and the heads they are of.                       *)
LEMMA LandWaiting ==
  ASSUME IInv, NEW m \in flight, Land(m)
  PROVE  Waiting'
<1>1. /\ flight' = flight \ {m} /\ job' = [job EXCEPT ![m.by] = Tail(@)] /\ online' = online
  BY DEF Land, Advance
<1>2. \A n \in flight \ {m} : n.by # Nobody => n.by # m.by
  BY DEF IInv, Waiting
<1>3. \A n \in flight \ {m} : n.by # Nobody => job'[n.by] = job[n.by]
  BY <1>1, <1>2 DEF IInv, Waiting, Messages, Placed
<1> QED BY <1>1, <1>3 DEF IInv, Waiting

LEMMA GiveUpWaiting ==
  ASSUME IInv, NEW p \in Publishers, GiveUp(p)
  PROVE  Waiting'
<1>1. PICK m \in flight :
        /\ m.by = p
        /\ flight' = (flight \ {m}) \cup {[m EXCEPT !.by = Nobody]}
  BY DEF GiveUp
<1>2. job' = [job EXCEPT ![p] = Tail(@)] /\ ~online /\ online' = online
  BY DEF GiveUp, Advance
<1> DEFINE k == [m EXCEPT !.by = Nobody]
<1>3. k \in Messages /\ k.by = Nobody /\ k.topic = m.topic /\ k.payload = m.payload
  BY <1>1 DEF IInv, Waiting, Messages
<1> HIDE DEF k
<1>4. flight' = (flight \ {m}) \cup {k}
  BY <1>1 DEF k
<1>5. p # Nobody
  BY Names
<1>6. \A n \in flight \ {m} : n.by # p
  BY <1>1, <1>5 DEF IInv, Waiting
<1>7. \A n \in flight \ {m} : n.by # Nobody => job'[n.by] = job[n.by]
  BY <1>2, <1>6 DEF IInv, Waiting, Messages, Placed
<1> QED BY <1>1, <1>2, <1>3, <1>4, <1>7 DEF IInv, Waiting

(* Who is not at a publish has nothing on its way.                         *)
LEMMA OtherWaiting ==
  ASSUME IInv, NEW p \in Publishers, UNCHANGED <<flight, online>>,
         job[p] = <<>> \/ Head(job[p]).do # "publish",
         \A q \in Publishers : q # p => job'[q] = job[q]
  PROVE  Waiting'
<1>1. \A t, x : Publish(t, x).do = "publish"
  BY DEF Publish
<1>2. \A m \in flight : m.by # p
  BY <1>1, Names DEF IInv, Waiting
<1>3. \A m \in flight : m.by # Nobody => job'[m.by] = job[m.by]
  BY <1>2 DEF IInv, Waiting, Messages
<1> QED BY <1>3 DEF IInv, Waiting

(* The broker is back: of the messages kept for a topic one was the last,  *)
(* and if they were of one kind it is known which.                         *)
LEMMA Back ==
  ASSUME IInv, BrokerIsBack
  PROVE  /\ flight' = {} /\ online' = TRUE /\ outages' = outages
         /\ shown' = [t \in Topics |-> shown'[t]] /\ mixed' \subseteq Topics
         /\ \A t \in Topics :
              /\ (\A m \in flight : m.topic # t) =>
                   shown'[t] = shown[t] /\ (t \in mixed => t \in mixed')
              /\ (\E m \in flight : m.topic = t) =>
                   /\ \E n \in flight : n.topic = t /\ shown'[t] = n.payload
                   /\ t \notin mixed' =>
                        \A m, n \in flight : m.topic = t /\ n.topic = t => m.payload = n.payload
<1>1. PICK last \in SUBSET flight :
        /\ \A m \in flight : \E n \in last : n.topic = m.topic
        /\ shown' = [t \in Topics |-> IF Kept(t) = {} THEN shown[t]
                                      ELSE (CHOOSE m \in last : m.topic = t).payload]
  BY DEF BrokerIsBack
<1>2. mixed' = {t \in Topics : IF Kept(t) = {} THEN t \in mixed ELSE Cardinality(Kept(t)) > 1}
      /\ flight' = {} /\ online' = TRUE /\ outages' = outages
  BY DEF BrokerIsBack
<1>3. ASSUME NEW t \in Topics
      PROVE  /\ (\A m \in flight : m.topic # t) => shown'[t] = shown[t] /\ (t \in mixed => t \in mixed')
             /\ (\E m \in flight : m.topic = t) =>
                  /\ \E n \in flight : n.topic = t /\ shown'[t] = n.payload
                  /\ t \notin mixed' =>
                       \A m, n \in flight : m.topic = t /\ n.topic = t => m.payload = n.payload
  <2>1. \A x : x \in Kept(t) <=> \E m \in flight : m.topic = t /\ m.payload = x
    BY DEF Kept
  <2>2. ASSUME \A m \in flight : m.topic # t PROVE Kept(t) = {}
    BY <2>1, <2>2
  <2>3. ASSUME NEW m \in flight, m.topic = t
        PROVE  /\ Kept(t) # {}
               /\ \E n \in flight : n.topic = t /\ shown'[t] = n.payload
    <3>1. Kept(t) # {}
      BY <2>1, <2>3
    <3>2. \E n \in last : n.topic = t
      BY <1>1, <2>3
    <3> DEFINE k == CHOOSE n \in last : n.topic = t
    <3>3. k \in last /\ k.topic = t
      BY <3>2
    <3>4. shown'[t] = k.payload
      BY <1>1, <3>1
    <3> HIDE DEF k
    <3> QED BY <3>1, <3>3, <3>4
  <2>4. ASSUME NEW m \in flight, NEW n \in flight, m.topic = t, n.topic = t, t \notin mixed'
        PROVE  m.payload = n.payload
    <3>1. Kept(t) # {} /\ m.payload \in Kept(t) /\ n.payload \in Kept(t)
      BY <2>1, <2>4
    <3>2. ~(Cardinality(Kept(t)) > 1)
      BY <1>2, <2>4, <3>1
    <3>3. Kept(t) \subseteq Payloads
      BY <2>1 DEF IInv, Waiting, Messages
    <3>4. IsFiniteSet(Kept(t))
      <4>1. IsFiniteSet({"config", "", "online"}) /\ IsFiniteSet({"offline", "ON", "OFF"})
        BY FS_EmptySet, FS_AddElement, FS_Singleton, Triples
      <4>2. Payloads = {"config", "", "online"} \cup {"offline", "ON", "OFF"}
        BY DEF Payloads
      <4> QED BY <3>3, <4>1, <4>2, FS_Union, FS_Subset
    <3> QED BY <3>1, <3>2, <3>4, OneOfFew
  <2> QED BY <1>1, <1>2, <2>2, <2>3, <2>4
<1>4. shown' = [t \in Topics |-> shown'[t]] /\ mixed' \subseteq Topics
  BY <1>1, <1>2
<1> QED BY <1>2, <1>3, <1>4

LEMMA InnerWaiting ==
  ASSUME IInv, Inner
  PROVE  Waiting' /\ Shows'
<1>0. DOMAIN job = Publishers /\ Waiting /\ Shows
  BY DEF IInv, Placed
<1>1. ASSUME NEW p \in Publishers, Steps(p) PROVE Waiting' /\ Shows'
  <2>1. UNCHANGED <<shown, mixed, online, outages>>
    BY <1>1 DEF Steps, Submit, GiveUp, RecordDiscoveryTopic, RegisterCallback, Insert, Iterate, broker
  <2>2. ASSUME RecordDiscoveryTopic(p) \/ RegisterCallback(p) \/ Insert(p) \/ Iterate(p)
        PROVE  Waiting'
    <3>1. UNCHANGED <<flight, online>>
      BY <2>2 DEF RecordDiscoveryTopic, RegisterCallback, Insert, Iterate, broker
    <3>2. job[p] = <<>> \/ Head(job[p]).do # "publish"
      BY <2>2 DEF RecordDiscoveryTopic, RegisterCallback, Insert, Iterate, Next1
    <3>3. \A q \in Publishers : q # p => job'[q] = job[q]
      BY <1>0, <2>2 DEF RecordDiscoveryTopic, RegisterCallback, Insert, Iterate, Advance
    <3> QED BY <3>1, <3>2, <3>3, OtherWaiting
  <2>3. Waiting'
    BY <1>1, <2>2, SubmitWaiting, GiveUpWaiting DEF Steps
  <2> QED BY <1>0, <2>1, <2>3 DEF Shows
<1>2. ASSUME NEW m \in flight, Land(m) PROVE Waiting' /\ Shows'
  <2>1. shown' = [shown EXCEPT ![m.topic] = m.payload] /\ mixed' \subseteq mixed
        /\ UNCHANGED <<online, outages>>
    BY <1>2 DEF Land
  <2>2. /\ m.topic \in Topics /\ m.payload \in Payloads
        /\ Publish(m.topic, m.payload) \in Publishes
    BY <1>0 DEF Waiting, Messages
  <2>3. shown' \in [Topics -> Payloads \cup {"none"}]
    BY <1>0, <2>1, <2>2 DEF Shows
  <2>4. \A t \in Topics : Publish(t, shown'[t]) \in Publishes \/ (shown'[t] = "none" /\ t # PlugTopic)
    BY <1>0, <2>1, <2>2 DEF Shows
  <2> QED BY <1>0, <1>2, <2>1, <2>3, <2>4, LandWaiting DEF Shows
<1>3. CASE BrokerIsBack
  <2>1. Waiting'
    BY <1>3, Back DEF Waiting
  <2>2. ASSUME NEW t \in Topics
        PROVE  /\ shown'[t] \in Payloads \cup {"none"}
               /\ Publish(t, shown'[t]) \in Publishes \/ (shown'[t] = "none" /\ t # PlugTopic)
    <3>1. CASE \A m \in flight : m.topic # t
      BY <1>0, <1>3, <3>1, Back DEF Shows
    <3>2. CASE \E m \in flight : m.topic = t
      <4>1. PICK n \in flight : n.topic = t /\ shown'[t] = n.payload
        BY <1>3, <3>2, Back
      <4> QED BY <1>0, <4>1 DEF Waiting, Messages
    <3> QED BY <3>1, <3>2
  <2>3. /\ shown' = [t \in Topics |-> shown'[t]] /\ mixed' \subseteq Topics
        /\ online' = TRUE /\ outages' = outages
    BY <1>3, Back
  <2>4. shown' \in [Topics -> Payloads \cup {"none"}]
    BY <2>2, <2>3
  <2> QED BY <1>0, <2>1, <2>2, <2>3, <2>4 DEF Shows
<1>4. CASE Outage
  <2>1. /\ online' = FALSE /\ outages' = outages + 1 /\ outages < MaxOutages
        /\ UNCHANGED <<job, flight, shown, mixed>>
    BY <1>4 DEF Outage, work
  <2>2. outages' \in 0 .. MaxOutages
    BY <1>0, <2>1, BridgeAssumption DEF Shows
  <2>3. Shows'
    BY <1>0, <2>1, <2>2 DEF Shows
  <2>4. Waiting'
    BY <1>0, <2>1 DEF Waiting
  <2> QED BY <2>3, <2>4
<1> QED BY <1>1, <1>2, <1>3, <1>4 DEF Inner

LEMMA InnerIInv ==
  ASSUME IInv, Inner
  PROVE  IInv'
<1>1. UNCHANGED <<stage, wedged, lock, doing, spoke, jobs>>
  BY InnerMoves
<1>2. Holders' /\ Stages'
  BY <1>1 DEF IInv, Holders, Stages
<1>3. Contents'
  <2>1. ASSUME NEW p \in Publishers, Steps(p)
        PROVE  covers' \subseteq Covers /\ hooked' \subseteq Covers /\ discovered' \subseteq DiscoveryTopics
    <3>0. covers \subseteq Covers /\ hooked \subseteq Covers /\ discovered \subseteq DiscoveryTopics
      BY DEF IInv, Contents
    <3>1. CASE Submit(p) \/ GiveUp(p) \/ Iterate(p)
      BY <3>0, <3>1 DEF Submit, GiveUp, Iterate, process
    <3>2. job[p] # <<>> => Head(job[p]) \in StepsOf(doing[p])
      BY HeadIs DEF IInv
    <3>3. CASE RecordDiscoveryTopic(p)
      <4>1. Head(job[p]).topic \in DiscoveryTopics
        BY <3>2, <3>3, KindsOfSteps DEF RecordDiscoveryTopic, Next1
      <4> QED BY <3>0, <3>3, <4>1 DEF RecordDiscoveryTopic
    <3>4. CASE RegisterCallback(p)
      <4>1. Head(job[p]).cover \in Covers
        BY <3>2, <3>4, KindsOfSteps DEF RegisterCallback, Next1
      <4> QED BY <3>0, <3>4, <4>1 DEF RegisterCallback
    <3>5. CASE Insert(p)
      <4>1. Head(job[p]).cover \in Covers
        BY <3>2, <3>5, KindsOfSteps DEF Insert, Next1
      <4> QED BY <3>0, <3>5, <4>1 DEF Insert
    <3> QED BY <2>1, <3>1, <3>3, <3>4, <3>5 DEF Steps
  <2>2. ASSUME (\E m \in flight : Land(m)) \/ BrokerIsBack \/ Outage
        PROVE  UNCHANGED <<covers, hooked, discovered>>
    BY <2>2 DEF Land, BrokerIsBack, Outage, process
  <2> QED BY <1>1, <2>1, <2>2 DEF Inner, IInv, Contents
<1> QED BY <1>2, <1>3, InnerLists, InnerWaiting DEF IInv

-----------------------------------------------------------------------------
(* Steps from task to task: one goroutine that has nothing left to do gets *)
(* a task and its lists; nothing is sent.                                  *)

Idle(p) == job[p] = <<>> /\ \A step : ~Owes(p, step)

Assigned(p, task, lists) ==
  /\ Idle(p) /\ task \in Tasks
  /\ UNCHANGED <<job, broker>>
  /\ doing' \in [Publishers -> Tasks] /\ DOMAIN left' = Publishers
  /\ \A q \in Publishers : doing'[q] = IF q = p THEN task ELSE doing[q]
  /\ \A q \in Publishers : left'[q] = IF q = p THEN lists ELSE left[q]

LEMMA Idles ==
  ASSUME IInv, NEW p \in Publishers, doing[p] = "rest" \/ Finished(p)
  PROVE  Idle(p)
<1>1. CASE Finished(p)
  BY <1>1 DEF Finished, Idle, Owes, Has
<1>2. CASE doing[p] = "rest"
  <2>1. StepsOf("rest") = {}
    BY DEF StepsOf
  <2>2. job[p] \in Seq({}) /\ \A steps \in left[p] : steps \in Seq({})
    BY <1>2, <2>1 DEF IInv, Placed, StepLists
  <2>3. job[p] = <<>>
    <3>1. job[p] # <<>> => Head(job[p]) \in {}
      BY <2>2, HasHead
    <3> QED BY <3>1
  <2>4. \A step : ~Owes(p, step)
    BY <2>2, HasIn DEF Owes
  <2> QED BY <2>3, <2>4 DEF Idle
<1> QED BY <1>1, <1>2

LEMMA BeginAssigned ==
  ASSUME IInv, NEW p \in Publishers, NEW task \in Tasks, NEW lists, Begin(p, task, lists),
         UNCHANGED broker
  PROVE  Assigned(p, task, lists) /\ jobs' \in 0 .. MaxJobs
<1>1. /\ doing[p] = "rest" /\ doing' = [doing EXCEPT ![p] = task]
      /\ left' = [left EXCEPT ![p] = lists] /\ job' = job /\ jobs < MaxJobs /\ jobs' = jobs + 1
  BY DEF Begin
<1>2. doing \in [Publishers -> Tasks] /\ DOMAIN left = Publishers /\ jobs \in 0 .. MaxJobs
  BY DEF IInv, Placed, Contents
<1>3. Idle(p)
  BY <1>1, Idles
<1> QED BY <1>1, <1>2, <1>3, BridgeAssumption DEF Assigned

LEMMA RestAssigned ==
  ASSUME IInv, NEW p \in Publishers, Rest(p), Finished(p), UNCHANGED broker
  PROVE  Assigned(p, "rest", {}) /\ jobs' = jobs
<1>1. doing' = [doing EXCEPT ![p] = "rest"] /\ UNCHANGED <<left, job, jobs>> /\ left[p] = {}
  BY DEF Rest, Finished
<1>2. doing \in [Publishers -> Tasks] /\ DOMAIN left = Publishers /\ "rest" \in Tasks
  BY DEF IInv, Placed, Tasks
<1>3. Idle(p)
  BY Idles
<1> QED BY <1>1, <1>2, <1>3 DEF Assigned

LEMMA AssignedLists ==
  ASSUME IInv, NEW p \in Publishers, NEW task, NEW lists, Assigned(p, task, lists),
         GoodLists(task, lists)
  PROVE  Placed' /\ Ordered' /\ Waiting' /\ Shows'
<1>1. Placed /\ Ordered /\ Waiting /\ Shows
  BY DEF IInv
<1>2. /\ UNCHANGED <<job, broker>> /\ job[p] = <<>>
      /\ \A q \in Publishers : doing'[q] = IF q = p THEN task ELSE doing[q]
      /\ \A q \in Publishers : left'[q] = IF q = p THEN lists ELSE left[q]
      /\ doing' \in [Publishers -> Tasks] /\ DOMAIN left' = Publishers
  BY DEF Assigned, Idle
<1>3. <<>> \in StepLists(task) /\ OneCover(<<>>)
  BY DEF StepLists, OneCover
<1>4. Placed'
  BY <1>1, <1>2, <1>3 DEF Placed, GoodLists
<1>5. Ordered'
  BY <1>1, <1>2, <1>3 DEF Ordered, GoodLists
<1>6. Waiting' /\ Shows'
  BY <1>1, <1>2 DEF Waiting, Shows, broker
<1> QED BY <1>4, <1>5, <1>6

(* What a loop is given by a recovery operation.                           *)
Recovers(p, task, lists) ==
  /\ Assigned(p, task, lists) /\ GoodLists(task, lists)
  /\ task \in {"rest", "cycle", "register"}
  /\ lock' = (IF task = "rest" THEN Nobody ELSE p)
  /\ doing[p] \in Locked \/ lock = Nobody
  /\ stage \in {"running", "stopping"}
  /\ UNCHANGED <<stage, wedged, covers, discovered, spoke, broker>>
  /\ hooked' \subseteq Covers /\ jobs' \in 0 .. MaxJobs

LEMMA OperationIs ==
  ASSUME IInv, NEW p \in Loops, Reload(p) \/ PowerCycle(p) \/ PowerIsBack(p) \/ Return(p)
  PROVE  \E task, lists : Recovers(p, task, lists)
<1>0. p \in Publishers /\ Contents
  BY Names DEF IInv
<1>1. ASSUME doing[p] \in Locked PROVE stage \in {"running", "stopping"}
  BY <1>1 DEF IInv, Stages, Locked
<1>2. CASE Reload(p)
  <2>1. Assigned(p, "register", Register) /\ jobs' \in 0 .. MaxJobs
    BY <1>0, <1>2, BeginAssigned DEF Reload, Tasks
  <2>2. Recovers(p, "register", Register)
    BY <1>0, <1>2, <2>1, ListsOfTasks DEF Reload, Recovers, Looping
  <2> QED BY <2>2
<1>3. CASE PowerCycle(p)
  <2> DEFINE lists == {<<Publish(PlugTopic, "OFF"), Publish(PlugTopic, "ON")>>}
  <2>1. Assigned(p, "cycle", lists) /\ jobs' \in 0 .. MaxJobs
    BY <1>0, <1>3, BeginAssigned DEF PowerCycle, Tasks
  <2>2. GoodLists("cycle", lists)
    BY <1>0, ListsOfTasks
  <2> HIDE DEF lists
  <2>3. Recovers(p, "cycle", lists)
    BY <1>0, <1>3, <2>1, <2>2 DEF PowerCycle, Recovers, Looping, Contents
  <2> QED BY <2>3
<1>4. CASE PowerIsBack(p)
  <2>0. Finished(p) /\ doing[p] = "cycle" /\ hooked' = {} /\ Idle(p)
        /\ UNCHANGED <<stage, wedged, covers, discovered, spoke, broker>>
    BY <1>0, <1>4, Idles DEF PowerIsBack
  <2>1. CASE /\ doing' = [doing EXCEPT ![p] = "register"]
             /\ left' = [left EXCEPT ![p] = Register] /\ UNCHANGED <<job, jobs, lock>>
    <3>1. doing \in [Publishers -> Tasks] /\ DOMAIN left = Publishers /\ "register" \in Tasks
      BY DEF IInv, Placed, Tasks
    <3>2. Assigned(p, "register", Register)
      BY <1>0, <2>0, <2>1, <3>1 DEF Assigned
    <3>3. lock = p /\ doing[p] \in Locked
      BY <2>0 DEF IInv, Holders, Locked
    <3>4. Recovers(p, "register", Register)
      BY <1>0, <1>1, <2>0, <2>1, <3>2, <3>3, ListsOfTasks DEF Recovers, Contents
    <3> QED BY <3>4
  <2>2. CASE Rest(p) /\ lock' = Nobody
    <3>1. Assigned(p, "rest", {}) /\ jobs' = jobs
      BY <1>0, <2>0, <2>2, RestAssigned
    <3>2. Recovers(p, "rest", {})
      BY <1>0, <1>1, <2>0, <2>2, <3>1, ListsOfTasks DEF Recovers, Contents, Locked
    <3> QED BY <3>2
  <2> QED BY <1>4, <2>1, <2>2 DEF PowerIsBack
<1>5. CASE Return(p)
  <2>1. Assigned(p, "rest", {}) /\ jobs' = jobs
    BY <1>0, <1>5, RestAssigned DEF Return
  <2>2. Recovers(p, "rest", {})
    BY <1>0, <1>1, <1>5, <2>1, ListsOfTasks DEF Return, Recovers, Contents, Locked
  <2> QED BY <2>2
<1> QED BY <1>2, <1>3, <1>4, <1>5

LEMMA OperationIInv ==
  ASSUME IInv, NEW p \in Loops, NEW task, NEW lists, Recovers(p, task, lists)
  PROVE  IInv'
<1>0. p \in Publishers /\ p \in {"health", "periodic"} /\ p # "main" /\ p \notin Updaters
  BY Names
<1>1. Placed' /\ Ordered' /\ Waiting' /\ Shows'
  BY <1>0, AssignedLists DEF Recovers
<1>2. Contents'
  BY DEF IInv, Contents, Recovers
<1>3. /\ \A q \in Publishers : doing'[q] = IF q = p THEN task ELSE doing[q]
      /\ task \in {"rest", "cycle", "register"}
      /\ lock' = (IF task = "rest" THEN Nobody ELSE p)
      /\ doing[p] \in Locked \/ lock = Nobody
      /\ UNCHANGED <<stage, wedged>> /\ stage \in {"running", "stopping"}
  BY DEF Recovers, Assigned
<1>4. Holders'
  <2>1. \A r \in Loops : r # p => doing[r] \notin Locked
    BY <1>3, Names DEF IInv, Holders
  <2> QED BY <1>0, <1>3, <2>1, Names DEF IInv, Holders, Locked
<1>5. Stages'
  BY <1>0, <1>3, Names DEF IInv, Stages
<1> QED BY <1>1, <1>2, <1>4, <1>5 DEF IInv

(* The health check, and the updates.                                      *)
LEMMA HealthIs ==
  ASSUME IInv, MarkAllUnavailable \/ MarkAllAvailable \/ Marked
  PROVE  /\ UNCHANGED <<stage, lock, covers, discovered, hooked, spoke, broker>>
         /\ stage \in {"running", "stopping"} /\ jobs' \in 0 .. MaxJobs
         /\ \/ Assigned("health", "down", MarkAll("offline")) /\ wedged' = TRUE
            \/ Assigned("health", "up", MarkAll("online")) /\ wedged' = FALSE
            \/ Assigned("health", "rest", {}) /\ wedged' = wedged
         /\ doing["health"] \notin Locked
<1>0. "health" \in Publishers /\ "health" \in Loops
  BY Names
<1>1. CASE MarkAllUnavailable
  BY <1>0, <1>1, BeginAssigned DEF MarkAllUnavailable, Looping, Tasks, Begin, Locked
<1>2. CASE MarkAllAvailable
  BY <1>0, <1>2, BeginAssigned DEF MarkAllAvailable, Looping, Tasks, Begin, Locked
<1>3. CASE Marked
  <2>1. doing["health"] \in {"down", "up"} /\ Finished("health")
    BY <1>3 DEF Marked
  <2>2. stage \in {"running", "stopping"} /\ jobs \in 0 .. MaxJobs
    BY <1>0, <2>1 DEF IInv, Stages, Contents
  <2> QED BY <1>0, <1>3, <2>1, <2>2, RestAssigned DEF Marked, Locked
<1> QED BY <1>1, <1>2, <1>3

LEMMA HealthIInv ==
  ASSUME IInv, MarkAllUnavailable \/ MarkAllAvailable \/ Marked
  PROVE  IInv'
<1>0. "health" \in Publishers /\ "health" # "main" /\ "health" \notin Updaters
      /\ Contents
  BY Names DEF IInv
<1>1. /\ UNCHANGED <<stage, lock, covers, discovered, hooked, spoke, broker>>
      /\ stage \in {"running", "stopping"} /\ jobs' \in 0 .. MaxJobs
      /\ doing["health"] \notin Locked
  BY HealthIs
<1>2. \E task \in {"down", "up", "rest"} : \E lists :
        /\ Assigned("health", task, lists) /\ GoodLists(task, lists)
        /\ wedged' \in BOOLEAN /\ (task = "down" => wedged')
  BY <1>0, HealthIs, ListsOfTasks DEF Contents
<1>3. PICK task \in {"down", "up", "rest"} : \E lists :
        /\ Assigned("health", task, lists) /\ GoodLists(task, lists)
        /\ wedged' \in BOOLEAN /\ (task = "down" => wedged')
  BY <1>2
<1>4. Placed' /\ Ordered' /\ Waiting' /\ Shows'
  BY <1>0, <1>3, AssignedLists
<1>5. \A q \in Publishers : doing'[q] = IF q = "health" THEN task ELSE doing[q]
  BY <1>3 DEF Assigned
<1>6. Contents'
  BY <1>1, <1>3 DEF IInv, Contents
<1>7. Holders'
  BY <1>0, <1>1, <1>3, <1>5, Names DEF IInv, Holders, Locked
<1>8. Stages'
  BY <1>0, <1>1, <1>5, Names DEF IInv, Stages
<1> QED BY <1>4, <1>6, <1>7, <1>8 DEF IInv

LEMMA UpdateIs ==
  ASSUME IInv, NEW u \in Updaters, Update(u) \/ Updated(u)
  PROVE  /\ UNCHANGED <<stage, wedged, lock, covers, discovered, hooked, broker>>
         /\ jobs' \in 0 .. MaxJobs /\ Alive
         /\ \/ \E c \in hooked : /\ Assigned(u, "update", {UpdateNode(c)})
                                 /\ spoke' = IF stage = "closing" THEN spoke \cup {c} ELSE spoke
                                 /\ stage # "closed"
            \/ Assigned(u, "rest", {}) /\ spoke' = spoke
<1>0. u \in Publishers /\ jobs \in 0 .. MaxJobs
  BY Names DEF IInv, Contents
<1>1. CASE Update(u)
  BY <1>0, <1>1, BeginAssigned DEF Update, Tasks
<1>2. CASE Updated(u)
  BY <1>0, <1>2, RestAssigned DEF Updated, Finished
<1> QED BY <1>1, <1>2

LEMMA UpdateIInv ==
  ASSUME IInv, NEW u \in Updaters, Update(u) \/ Updated(u)
  PROVE  IInv'
<1>0. u \in Publishers /\ u # "main" /\ u \notin Loops /\ Contents
  BY Names DEF IInv
<1>1. \E task \in {"update", "rest"} : \E lists :
        Assigned(u, task, lists) /\ GoodLists(task, lists)
  BY <1>0, UpdateIs, ListsOfTasks
<1>2. PICK task \in {"update", "rest"} : \E lists :
        Assigned(u, task, lists) /\ GoodLists(task, lists)
  BY <1>1
<1>3. Placed' /\ Ordered' /\ Waiting' /\ Shows'
  BY <1>0, <1>2, AssignedLists
<1>4. \A q \in Publishers : doing'[q] = IF q = u THEN task ELSE doing[q]
  BY <1>2 DEF Assigned
<1>5. /\ UNCHANGED <<stage, wedged, lock, covers, discovered, hooked>>
      /\ jobs' \in 0 .. MaxJobs
  BY UpdateIs
<1>6. spoke' \subseteq Covers
  BY UpdateIs DEF IInv, Contents
<1>7. Contents'
  BY <1>5, <1>6 DEF IInv, Contents
<1>8. Holders'
  BY <1>0, <1>4, <1>5, Names DEF IInv, Holders
<1>9. Stages'
  BY <1>0, <1>4, <1>5, Names DEF IInv, Stages
<1> QED BY <1>3, <1>7, <1>8, <1>9 DEF IInv

(* Start and Stop.                                                         *)
LEMMA MainIs ==
  ASSUME IInv
  PROVE  /\ Started => /\ Assigned("main", "rest", {}) /\ stage = "starting" /\ stage' = "running"
                       /\ UNCHANGED <<wedged, lock, covers, discovered, hooked, spoke, jobs>>
         /\ StartupReboot =>
              /\ Assigned("main", "register", Register) /\ stage = "starting" /\ stage' = stage
              /\ hooked' = {} /\ jobs' \in 0 .. MaxJobs
              /\ UNCHANGED <<wedged, lock, covers, discovered, spoke>>
         /\ Join => /\ Assigned("main", "close", MarkAll("offline"))
                    /\ stage = "stopping" /\ stage' = "closing" /\ spoke' = Updating
                    /\ \A p \in Loops : doing[p] = "rest"
                    /\ UNCHANGED <<wedged, lock, covers, discovered, hooked, jobs>>
         /\ CleanupDiscovery =>
              /\ Assigned("main", "clean", Cleanup) /\ doing["main"] = "close"
              /\ stage = "closing" /\ stage' = stage /\ discovered' = {}
              /\ UNCHANGED <<wedged, lock, covers, hooked, spoke, jobs>>
         /\ Disconnect =>
              /\ Assigned("main", "rest", {}) /\ doing["main"] = "clean"
              /\ stage = "closing" /\ stage' = "closed"
              /\ UNCHANGED <<wedged, lock, covers, discovered, hooked, spoke, jobs>>
<1>0. "main" \in Publishers /\ doing \in [Publishers -> Tasks] /\ DOMAIN left = Publishers
      /\ Stages
  BY Names DEF IInv, Placed
<1>1. Started => Assigned("main", "rest", {}) /\ jobs' = jobs
  BY <1>0, RestAssigned DEF Started
<1>2. StartupReboot => Assigned("main", "register", Register) /\ jobs' \in 0 .. MaxJobs
  <2>1. SUFFICES ASSUME StartupReboot
                 PROVE  Assigned("main", "register", Register) /\ jobs' \in 0 .. MaxJobs
    OBVIOUS
  <2>2. Idle("main") /\ doing["main"] = "register" /\ "register" \in Tasks
    BY <1>0, <2>1, Idles DEF StartupReboot, Stages, Tasks
  <2>3. jobs \in 0 .. MaxJobs
    BY DEF IInv, Contents
  <2>4. /\ left' = [left EXCEPT !["main"] = Register] /\ jobs' = jobs + 1 /\ jobs < MaxJobs
        /\ UNCHANGED <<doing, job, broker>>
    BY <2>1 DEF StartupReboot
  <2> QED BY <1>0, <2>2, <2>3, <2>4, BridgeAssumption DEF Assigned
<1>3. Join => Assigned("main", "close", MarkAll("offline"))
  <2>1. SUFFICES ASSUME Join PROVE Assigned("main", "close", MarkAll("offline"))
    OBVIOUS
  <2>2. doing["main"] = "rest"
    BY <2>1, <1>0 DEF Join, Stages
  <2>3. Idle("main") /\ "close" \in Tasks
    BY <1>0, <2>2, Idles DEF Tasks
  <2> QED BY <1>0, <2>1, <2>3 DEF Assigned, Join
<1>4. CleanupDiscovery => Assigned("main", "clean", Cleanup)
  <2>1. SUFFICES ASSUME CleanupDiscovery PROVE Assigned("main", "clean", Cleanup)
    OBVIOUS
  <2>2. Idle("main") /\ "clean" \in Tasks
    BY <1>0, <2>1, Idles DEF CleanupDiscovery, Tasks
  <2> QED BY <1>0, <2>1, <2>2 DEF Assigned, CleanupDiscovery
<1>5. Disconnect => Assigned("main", "rest", {}) /\ jobs' = jobs
  BY <1>0, RestAssigned DEF Disconnect
<1>6. doing["main"] \in {"close", "clean"} => stage = "closing"
  BY <1>0 DEF Stages
<1> QED
  BY <1>1, <1>2, <1>3, <1>4, <1>5, <1>6
     DEF Started, StartupReboot, Join, CleanupDiscovery, Disconnect

Tasked == Started \/ StartupReboot \/ Join \/ CleanupDiscovery \/ Disconnect

LEMMA MainIInv ==
  ASSUME IInv, Tasked
  PROVE  IInv'
<1>0. "main" \in Publishers /\ "main" \notin Loops /\ "main" \notin Updaters /\ Contents
  BY Names DEF IInv
<1>1. ASSUME NEW task, NEW lists, Assigned("main", task, lists), GoodLists(task, lists),
             UNCHANGED <<wedged, lock, covers>>,
             hooked' \subseteq Covers, discovered' \subseteq DiscoveryTopics,
             spoke' \subseteq Covers, jobs' \in 0 .. MaxJobs,
             \/ task = "rest" /\ stage = "starting" /\ stage' = "running"
             \/ task = "register" /\ stage = "starting" /\ stage' = "starting"
             \/ /\ task = "close" /\ stage = "stopping" /\ stage' = "closing"
                /\ \A p \in Loops : doing[p] = "rest"
             \/ task = "clean" /\ stage = "closing" /\ stage' = "closing"
             \/ task = "rest" /\ stage = "closing" /\ stage' = "closed"
      PROVE  IInv'
  <2>1. Placed' /\ Ordered' /\ Waiting' /\ Shows'
    BY <1>0, <1>1, AssignedLists
  <2>2. Contents'
    BY <1>1 DEF IInv, Contents
  <2>3. \A q \in Publishers : doing'[q] = IF q = "main" THEN task ELSE doing[q]
    BY <1>1 DEF Assigned
  <2>4. Holders'
    BY <1>0, <1>1, <2>3, Names DEF IInv, Holders
  <2>5. Stages'
    BY <1>0, <1>1, <2>3, Names DEF IInv, Stages
  <2> QED BY <2>1, <2>2, <2>4, <2>5 DEF IInv
<1>2. /\ hooked \subseteq Covers /\ discovered \subseteq DiscoveryTopics
      /\ spoke \subseteq Covers /\ jobs \in 0 .. MaxJobs
  BY <1>0 DEF Contents
<1>3. CASE Started
  BY <1>0, <1>1, <1>2, <1>3, MainIs, ListsOfTasks
<1>4. CASE StartupReboot
  BY <1>0, <1>1, <1>2, <1>4, MainIs, ListsOfTasks
<1>5. CASE Join
  BY <1>0, <1>1, <1>2, <1>5, MainIs, ListsOfTasks DEF Updating
<1>6. CASE CleanupDiscovery
  BY <1>0, <1>1, <1>2, <1>6, MainIs, ListsOfTasks
<1>7. CASE Disconnect
  BY <1>0, <1>1, <1>2, <1>7, MainIs, ListsOfTasks
<1> QED BY <1>3, <1>4, <1>5, <1>6, <1>7 DEF Tasked

(* The end of the process.                                                 *)
LEMMA EndIs ==
  ASSUME Exit \/ MapFault
  PROVE  /\ flight' = {} /\ shown' = shown
         /\ doing' = [p \in Publishers |-> "rest"]
         /\ left' = [p \in Publishers |-> {}] /\ job' = [p \in Publishers |-> <<>>]
         /\ UNCHANGED <<wedged, lock, covers, discovered, hooked, spoke, jobs, online, outages>>
         /\ \/ stage = "closed" /\ stage' = "exited" /\ mixed' = mixed \cup {m.topic : m \in flight}
            \/ stage' = "crashed" /\ mixed' = mixed
BY DEF Exit, MapFault

LEMMA EndIInv ==
  ASSUME IInv, Exit \/ MapFault
  PROVE  IInv'
<1>0. IInv
  OBVIOUS
<1>1. /\ flight' = {} /\ shown' = shown
      /\ doing' = [p \in Publishers |-> "rest"]
      /\ left' = [p \in Publishers |-> {}] /\ job' = [p \in Publishers |-> <<>>]
      /\ UNCHANGED <<wedged, lock, covers, discovered, hooked, spoke, jobs, online, outages>>
      /\ \/ stage = "closed" /\ stage' = "exited" /\ mixed' = mixed \cup {m.topic : m \in flight}
         \/ stage' = "crashed" /\ mixed' = mixed
  BY EndIs
<1>2. \A task : <<>> \in StepLists(task)
  BY DEF StepLists
<1>3. RecordsFollow(<<>>)
  BY DEF RecordsFollow
<1>4. Placed'
  BY <1>1, <1>2 DEF Placed, Tasks
<1>5. Ordered'
  BY <1>1, <1>3 DEF Ordered
<1>6. Contents' /\ Waiting'
  BY <1>0, <1>1 DEF IInv, Contents, Waiting
<1>7. mixed' \subseteq Topics
  BY <1>0, <1>1 DEF IInv, Shows, Waiting, Messages
<1>8. Shows'
  BY <1>0, <1>1, <1>7 DEF IInv, Shows
<1>9. stage' = "exited" => \A p \in Loops : lock # p
  BY <1>0, <1>1, Names DEF IInv, Holders, Stages, Locked
<1>10. Holders' /\ Stages'
  BY <1>0, <1>1, <1>9, Names DEF IInv, Holders, Stages, Locked
<1> QED BY <1>4, <1>5, <1>6, <1>8, <1>10 DEF IInv

LEMMA StopIs ==
  ASSUME IInv, Stop
  PROVE  /\ IInv' /\ stage = "running" /\ stage' = "stopping"
         /\ UNCHANGED <<wedged, lock, covers, discovered, hooked, spoke, jobs, work, broker>>
<1>1. /\ stage = "running" /\ stage' = "stopping"
      /\ UNCHANGED <<wedged, lock, covers, discovered, hooked, spoke, jobs, work, broker>>
  BY DEF Stop
<1>2. Placed' /\ Ordered'
  BY <1>1 DEF IInv, Placed, Ordered, work
<1>3. Contents' /\ Waiting' /\ Shows'
  BY <1>1 DEF IInv, Contents, Waiting, Shows, work, broker
<1>4. Holders' /\ Stages'
  BY <1>1 DEF IInv, Holders, Stages, work
<1> QED BY <1>1, <1>2, <1>3, <1>4 DEF IInv

LEMMA NextIs ==
  ASSUME [Next]_vars
  PROVE  \/ Inner \/ Tasked \/ Stop \/ Exit \/ MapFault \/ UNCHANGED vars
         \/ \E p \in Loops : Reload(p) \/ PowerCycle(p) \/ PowerIsBack(p) \/ Return(p)
         \/ MarkAllUnavailable \/ MarkAllAvailable \/ Marked
         \/ \E u \in Updaters : Update(u) \/ Updated(u)
BY Zenon DEF Next, Main, Inner, Tasked

LEMMA InitIInv == Init => IInv
<1> SUFFICES ASSUME Init PROVE IInv
  OBVIOUS
<1>1. /\ doing = [p \in Publishers |-> IF p = "main" THEN "register" ELSE "rest"]
      /\ left = [p \in Publishers |-> IF p = "main" THEN Register ELSE {}]
      /\ job = [p \in Publishers |-> <<>>]
      /\ stage = "starting" /\ flight = {} /\ lock = Nobody /\ wedged = FALSE /\ jobs = 0
      /\ covers = {} /\ hooked = {} /\ discovered = {} /\ spoke = {}
      /\ online = TRUE /\ outages = 0 /\ mixed = {}
      /\ shown = [t \in Topics |-> IF t = PlugTopic THEN "ON" ELSE "none"]
  BY DEF Init
<1>2. Contents
  <2>1. jobs \in 0 .. MaxJobs
    BY <1>1, BridgeAssumption
  <2>2. wedged \in BOOLEAN
    BY <1>1
  <2> QED BY <1>1, <2>1, <2>2 DEF Contents
<1>3. GoodLists("register", Register)
  BY <1>2, ListsOfTasks
<1>4. \A task : <<>> \in StepLists(task)
  BY DEF StepLists
<1>5. RecordsFollow(<<>>)
  BY DEF RecordsFollow
<1>6. Placed /\ Ordered
  BY <1>1, <1>3, <1>4, <1>5 DEF Placed, Ordered, Tasks, GoodLists
<1>7. Waiting
  BY <1>1 DEF Waiting
<1>8. Publish(PlugTopic, "ON") \in Publishes /\ PlugTopic \in Topics
  BY DEF Publishes, Plugs, Topics
<1>9. Shows
  BY <1>1, <1>8, BridgeAssumption DEF Shows, Payloads
<1>10. Holders /\ Stages
  BY <1>1, Names DEF Holders, Stages, Locked
<1> QED BY <1>2, <1>6, <1>7, <1>9, <1>10 DEF IInv

LEMMA NextIInv == ASSUME IInv, [Next]_vars PROVE IInv'
<1>1. CASE UNCHANGED vars
  <2>1. UNCHANGED <<stage, wedged, lock, covers, discovered, hooked, spoke, jobs>>
        /\ UNCHANGED <<doing, left, job, online, outages, flight, shown, mixed>>
    BY <1>1 DEF vars, process, work, broker
  <2>2. Placed' /\ Ordered'
    BY <2>1 DEF IInv, Placed, Ordered
  <2>3. Contents' /\ Waiting' /\ Shows'
    BY <2>1 DEF IInv, Contents, Waiting, Shows
  <2>4. Holders' /\ Stages'
    BY <2>1 DEF IInv, Holders, Stages
  <2> QED BY <2>2, <2>3, <2>4 DEF IInv
<1> QED
  BY <1>1, NextIs, InnerIInv, OperationIs, OperationIInv, HealthIInv, UpdateIInv, MainIInv,
     EndIInv, StopIs

LEMMA Safe == Spec => []IInv
BY InitIInv, NextIInv, PTL DEF Spec

-----------------------------------------------------------------------------
(* The map.                                                                *)

LEMMA Exclusion == IInv => MapIsExclusive
<1> SUFFICES ASSUME IInv, NEW p \in Publishers, NEW q \in Publishers,
                    p # q, Writing(q), Ranging(p) \/ Writing(p)
             PROVE  q = "periodic" /\ p = "health" /\ doing[p] \in {"down", "up"}
  BY DEF MapIsExclusive
<1>1. ASSUME NEW r \in Publishers, Writing(r)
      PROVE  doing[r] = "register"
  <2>1. job[r] # <<>> /\ Head(job[r]).do = "put"
    BY <1>1 DEF Writing, Next1
  <2>2. Head(job[r]) \in StepsOf(doing[r])
    BY <2>1, HeadIs DEF IInv
  <2> QED BY <2>1, <2>2, KindsOfSteps
<1>2. doing[q] = "register" /\ (doing[p] = "register" \/ doing[p] \in {"down", "up", "close"})
  BY <1>1 DEF Ranging
<1> QED
  BY <1>2, Names DEF IInv, Holders, Stages, Locked

(* Registrations never overlap, and CloseAll has the map of covers for     *)
(* itself; only a registration of the maintenance can meet the health      *)
(* check ranging over it (manager.go:51, 91-97, 122-126).                  *)
THEOREM MapTheorem == Spec => []MapIsExclusive
BY Safe, Exclusion, PTL

(* Types: resetMu is with the loop that reconnects, reboots or cycles the  *)
(* plug, and a goroutine waits for one publish at a time.                  *)
THEOREM TypesHold == Spec => []TypeOK
<1>1. IInv => TypeOK
  <2> SUFFICES ASSUME IInv PROVE TypeOK
    OBVIOUS
  <2>1. \A p \in Publishers : doing[p] \in Tasks
    BY DEF IInv, Placed
  <2>2. stage # "crashed" => \A p \in Loops : lock = p <=> doing[p] \in Locked
    BY DEF IInv, Holders
  <2>3. /\ \A m \in flight : m.topic \in Topics /\ m.payload \in Payloads
        /\ \A m, n \in flight : m.by = n.by /\ m.by # Nobody => m = n
    BY DEF IInv, Waiting, Messages
  <2> QED BY <2>1, <2>2, <2>3 DEF TypeOK, IInv, Contents, Shows, Stages
<1> QED BY Safe, <1>1, PTL

-----------------------------------------------------------------------------
(* The last word on a topic, within the lists.                             *)

(* Whoever is about to publish on the topic has something of G to say.     *)
Loyal(t, G) ==
  \A q \in Publishers : \A x : job[q] # <<>> /\ Head(job[q]) = Publish(t, x) => x \in G

LEMMA KeepsSettled ==
  ASSUME IInv, Inner, NEW t \in Topics, NEW G, Loyal(t, G), Settles(t, G)
  PROVE  Settles(t, G)'
<1>0. Waiting /\ Shows /\ Placed
  BY DEF IInv
<1>1. ASSUME UNCHANGED <<flight, shown, mixed>> PROVE Settles(t, G)'
  BY <1>1 DEF Settles
<1>2. ASSUME NEW p \in Publishers, Submit(p) PROVE Settles(t, G)'
  <2> DEFINE m == [topic |-> Head(job[p]).topic, payload |-> Head(job[p]).payload, by |-> p]
  <2>1. /\ job[p] # <<>> /\ Head(job[p]).do = "publish"
        /\ flight' = flight \cup {m} /\ UNCHANGED <<shown, mixed>>
    BY <1>2 DEF Submit, Next1
  <2>2. Head(job[p]) = Publish(Head(job[p]).topic, Head(job[p]).payload)
    BY <1>0, <2>1, HeadPublish
  <2>3. Head(job[p]) = Publish(m.topic, m.payload)
    BY <2>2
  <2> HIDE DEF m
  <2>4. m.topic = t => m.payload \in G
    BY <2>1, <2>3 DEF Loyal
  <2> QED BY <2>1, <2>4 DEF Settles
<1>3. ASSUME NEW p \in Publishers, GiveUp(p) PROVE Settles(t, G)'
  <2>1. PICK m \in flight : flight' = (flight \ {m}) \cup {[m EXCEPT !.by = Nobody]}
    BY <1>3 DEF GiveUp
  <2> DEFINE k == [m EXCEPT !.by = Nobody]
  <2>2. k.topic = m.topic /\ k.payload = m.payload
    BY <1>0 DEF Waiting, Messages
  <2> HIDE DEF k
  <2>3. flight' = (flight \ {m}) \cup {k} /\ UNCHANGED <<shown, mixed>>
    BY <1>3, <2>1 DEF GiveUp, k
  <2> QED BY <2>2, <2>3 DEF Settles
<1>4. ASSUME NEW m \in flight, Land(m) PROVE Settles(t, G)'
  <2>1. /\ flight' = flight \ {m} /\ shown' = [shown EXCEPT ![m.topic] = m.payload]
        /\ mixed' = mixed \ {m.topic} /\ online
    BY <1>4 DEF Land
  <2>2. \A n \in flight : n.topic = t => n.payload \in G
    BY <1>0, <2>1 DEF Waiting, Messages, Loyal
  <2>3. shown'[t] = IF m.topic = t THEN m.payload ELSE shown[t]
    BY <1>0, <2>1 DEF Shows
  <2>4. CASE m.topic = t
    BY <2>1, <2>2, <2>3, <2>4 DEF Settles
  <2>5. CASE m.topic # t
    BY <2>1, <2>3, <2>5 DEF Settles
  <2> QED BY <2>4, <2>5
<1>5. CASE BrokerIsBack
  <2>1. CASE \A m \in flight : m.topic # t
    BY <1>5, <2>1, Back DEF Settles
  <2>2. CASE \E m \in flight : m.topic = t
    <3>1. PICK m \in flight : m.topic = t /\ m.payload \in G
      BY <2>2 DEF Settles
    <3>2. PICK n \in flight : n.topic = t /\ shown'[t] = n.payload
      BY <1>5, <2>2, Back
    <3>3. t \notin mixed' => m.payload = n.payload
      BY <1>5, <3>1, <3>2, Back
    <3>4. flight' = {}
      BY <1>5, Back
    <3> QED BY <3>1, <3>2, <3>3, <3>4 DEF Settles
  <2> QED BY <2>1, <2>2
<1>6. ASSUME NEW p \in Publishers, Steps(p) PROVE Settles(t, G)'
  <2>1. CASE RecordDiscoveryTopic(p) \/ RegisterCallback(p) \/ Insert(p) \/ Iterate(p)
    BY <1>1, <2>1 DEF RecordDiscoveryTopic, RegisterCallback, Insert, Iterate, broker
  <2> QED BY <1>2, <1>3, <1>6, <2>1 DEF Steps
<1>7. CASE Outage
  BY <1>1, <1>7 DEF Outage
<1> QED BY <1>4, <1>5, <1>6, <1>7 DEF Inner

(* What a list has, it has until it is done, and nothing new.              *)
LEMMA OwesOn ==
  ASSUME IInv, Inner, NEW p \in Publishers, NEW step, Owes(p, step)
  PROVE  Owes(p, step)' \/ (GoesOn(p) /\ Head(job[p]) = step)
<1>1. Moves(p)
  BY InnerMoves
<1>2. CASE Stays(p)
  BY <1>2 DEF Stays, Owes
<1>3. CASE TakesUp(p)
  <2>1. ~Has(job[p], step)
    BY <1>3 DEF TakesUp, Has
  <2>2. PICK s \in left[p] : Has(s, step)
    BY <2>1 DEF Owes
  <2>3. s \in left'[p] \/ s = job'[p]
    BY <1>3 DEF TakesUp
  <2> QED BY <2>2, <2>3 DEF Owes
<1>4. CASE GoesOn(p)
  <2>1. Has(job[p], step) => Head(job[p]) = step \/ Has(job'[p], step)
    BY <1>4, HeadIs DEF GoesOn, IInv
  <2> QED BY <1>4, <2>1 DEF GoesOn, Owes
<1> QED BY <1>1, <1>2, <1>3, <1>4 DEF Moves

LEMMA OwesNothingNew ==
  ASSUME IInv, Inner, NEW p \in Publishers, NEW step, Owes(p, step)'
  PROVE  Owes(p, step)
<1>1. Moves(p)
  BY InnerMoves
<1>2. CASE Stays(p)
  BY <1>2 DEF Stays, Owes
<1>3. CASE TakesUp(p)
  BY <1>3 DEF TakesUp, Owes
<1>4. CASE GoesOn(p)
  <2>1. Has(job'[p], step) => Has(job[p], step)
    BY <1>4, HeadIs DEF GoesOn, IInv
  <2> QED BY <1>4, <2>1 DEF GoesOn, Owes
<1> QED BY <1>1, <1>2, <1>3, <1>4 DEF Moves

(* Who goes on after a publish has sent it.                                *)
LEMMA Sent ==
  ASSUME IInv, NEW p \in Publishers, NEW t, NEW x, GoesOn(p), Head(job[p]) = Publish(t, x)
  PROVE  \E m \in flight : m.topic = t /\ m.payload = x
<1>1. \A u, y : /\ Publish(u, y).do = "publish"
                /\ Publish(u, y) = Publish(t, x) => u = t /\ y = x
  BY DEF Publish
<1>2. Waits(p)
  BY <1>1 DEF GoesOn
<1>3. PICK m \in flight : m.by = p
  BY <1>2 DEF Waits
<1>4. Head(job[p]) = Publish(m.topic, m.payload)
  BY <1>3, Names DEF IInv, Waiting
<1>5. m.topic = t /\ m.payload = x
  BY <1>1, <1>4
<1> QED BY <1>5

(* What is owed is sent in the end.                                        *)
LEMMA Settling ==
  ASSUME IInv, Inner, NEW p \in Publishers, NEW t \in Topics, NEW x, NEW G, x \in G,
         Loyal(t, G), Owes(p, Publish(t, x))
  PROVE  Owes(p, Publish(t, x))' \/ Settles(t, G)'
<1> SUFFICES ASSUME GoesOn(p), Head(job[p]) = Publish(t, x) PROVE Settles(t, G)'
  BY OwesOn
<1>1. Settles(t, G)
  BY Sent DEF Settles
<1> QED BY <1>1, KeepsSettled

(* A goroutine owes only what its task consists of.                        *)
LEMMA OwesIn ==
  ASSUME Placed, NEW p \in Publishers, NEW step, Owes(p, step)
  PROVE  step \in StepsOf(doing[p])
BY HasIn DEF Owes, Placed, StepLists

LEMMA HeadOwed ==
  ASSUME Placed, NEW p \in Publishers, job[p] # <<>>
  PROVE  Owes(p, Head(job[p]))
BY HeadIs DEF Owes

(* Where a message was a step ago.                                         *)
LEMMA NewMessage ==
  ASSUME IInv, Inner, NEW t \in Topics, NEW x,
         shown'[t] = x \/ OnItsWay(t, x)'
  PROVE  \/ shown[t] = x \/ OnItsWay(t, x)
         \/ \E p \in Publishers :
              job[p] # <<>> /\ Head(job[p]) = Publish(t, x) /\ job' = job
<1>0. Waiting /\ Shows /\ Placed
  BY DEF IInv
<1>1. CASE UNCHANGED <<flight, shown>>
  BY <1>1 DEF OnItsWay
<1>2. ASSUME NEW p \in Publishers, Submit(p)
      PROVE  \/ shown[t] = x \/ OnItsWay(t, x)
             \/ job[p] # <<>> /\ Head(job[p]) = Publish(t, x) /\ job' = job
  <2> DEFINE m == [topic |-> Head(job[p]).topic, payload |-> Head(job[p]).payload, by |-> p]
  <2>1. /\ job[p] # <<>> /\ Head(job[p]).do = "publish" /\ job' = job
        /\ flight' = flight \cup {m} /\ UNCHANGED shown
    BY <1>2 DEF Submit, Next1, work
  <2>2. Head(job[p]) = Publish(Head(job[p]).topic, Head(job[p]).payload)
    BY <1>0, <2>1, HeadPublish
  <2>3. Head(job[p]) = Publish(m.topic, m.payload)
    BY <2>2
  <2> HIDE DEF m
  <2> QED BY <2>1, <2>3 DEF OnItsWay
<1>3. ASSUME NEW p \in Publishers, GiveUp(p) PROVE shown[t] = x \/ OnItsWay(t, x)
  <2>1. PICK m \in flight : flight' = (flight \ {m}) \cup {[m EXCEPT !.by = Nobody]}
    BY <1>3 DEF GiveUp
  <2> DEFINE k == [m EXCEPT !.by = Nobody]
  <2>2. k.topic = m.topic /\ k.payload = m.payload
    BY <1>0 DEF Waiting, Messages
  <2> HIDE DEF k
  <2>3. flight' = (flight \ {m}) \cup {k} /\ shown' = shown
    BY <1>3, <2>1 DEF GiveUp, k
  <2> QED BY <2>2, <2>3 DEF OnItsWay
<1>4. ASSUME NEW m \in flight, Land(m) PROVE shown[t] = x \/ OnItsWay(t, x)
  <2>1. flight' = flight \ {m} /\ shown' = [shown EXCEPT ![m.topic] = m.payload]
    BY <1>4 DEF Land
  <2>2. shown'[t] = IF m.topic = t THEN m.payload ELSE shown[t]
    BY <1>0, <2>1 DEF Shows
  <2> QED BY <2>1, <2>2 DEF OnItsWay
<1>5. CASE BrokerIsBack
  <2>1. flight' = {}
    BY <1>5, Back
  <2>2. CASE \A m \in flight : m.topic # t
    BY <1>5, <2>1, <2>2, Back DEF OnItsWay
  <2>3. CASE \E m \in flight : m.topic = t
    <3>1. PICK n \in flight : n.topic = t /\ shown'[t] = n.payload
      BY <1>5, <2>3, Back
    <3> QED BY <2>1, <3>1 DEF OnItsWay
  <2> QED BY <2>2, <2>3
<1>6. CASE \E p \in Publishers : Steps(p)
  <2>1. PICK p \in Publishers : Steps(p)
    BY <1>6
  <2>2. CASE RecordDiscoveryTopic(p) \/ RegisterCallback(p) \/ Insert(p) \/ Iterate(p)
    BY <1>1, <2>2 DEF RecordDiscoveryTopic, RegisterCallback, Insert, Iterate, broker
  <2> QED BY <1>2, <1>3, <2>1, <2>2 DEF Steps
<1>7. CASE Outage
  BY <1>1, <1>7 DEF Outage
<1> QED BY <1>4, <1>5, <1>6, <1>7 DEF Inner

-----------------------------------------------------------------------------
(* Offline is meant.                                                       *)

LEMMA MarksInner ==
  ASSUME IInv, Inner, Marks
  PROVE  Marks'
<1>0. /\ Placed /\ Stages /\ Holders
      /\ UNCHANGED <<stage, wedged, doing>> /\ covers \subseteq covers'
      /\ AvailabilityTopics \subseteq Topics
  BY InnerMoves, KindsOfTopics DEF IInv
<1>1. ASSUME NEW t \in AvailabilityTopics, shown'[t] = "offline" \/ OnItsWay(t, "offline")'
      PROVE  t[1] \in covers'
  <2>1. CASE shown[t] = "offline" \/ OnItsWay(t, "offline")
    BY <1>0, <2>1 DEF Marks
  <2>2. CASE \E p \in Publishers :
               job[p] # <<>> /\ Head(job[p]) = Publish(t, "offline") /\ job' = job
    <3>1. PICK p \in Publishers : job[p] # <<>> /\ Head(job[p]) = Publish(t, "offline")
      BY <2>2
    <3>2. Owes(p, Publish(t, "offline"))
      BY <1>0, <3>1, HeadOwed
    <3> QED BY <1>0, <3>2 DEF Marks
  <2> QED BY <1>0, <1>1, <2>1, <2>2, NewMessage
<1>2. ASSUME NEW p \in Publishers, NEW t \in AvailabilityTopics, Owes(p, Publish(t, "offline"))'
      PROVE  t[1] \in covers'
  <2>1. Owes(p, Publish(t, "offline"))
    BY <1>2, OwesNothingNew
  <2> QED BY <1>0, <2>1 DEF Marks
<1>3. ASSUME Serving', NEW t \in AvailabilityTopics, ~wedged'
      PROVE  \/ Settles(t, {"online", "none"})'
             \/ (doing["health"] = "up" /\ Owes("health", Publish(t, "online")))'
  <2>1. Serving /\ ~wedged
    BY <1>0, <1>3 DEF Serving
  <2>2. Loyal(t, {"online", "none"})
    <3>1. SUFFICES ASSUME NEW q \in Publishers, NEW x, job[q] # <<>>,
                          Head(job[q]) = Publish(t, x)
                   PROVE  x = "online"
      BY DEF Loyal
    <3>2. Publish(t, x) \in StepsOf(doing[q])
      BY <1>0, <3>1, HeadIs
    <3>3. doing[q] \notin {"down", "close"}
      BY <1>0, <2>1, Names DEF Holders, Stages, Serving
    <3> QED BY <1>0, <3>2, <3>3, WhoSays, KindsOfTopics
  <2>3. \/ Settles(t, {"online", "none"})
        \/ doing["health"] = "up" /\ Owes("health", Publish(t, "online"))
    BY <2>1 DEF Marks
  <2> QED BY <1>0, <2>2, <2>3, KeepsSettled, Settling, Names
<1> QED BY <1>1, <1>2, <1>3 DEF Marks

LEMMA SameTopics ==
  ASSUME UNCHANGED broker
  PROVE  /\ \A t, G : Settles(t, G)' <=> Settles(t, G)
         /\ \A t, x : OnItsWay(t, x)' <=> OnItsWay(t, x)
BY DEF broker, Settles, OnItsWay

(* Who gets a task owes its lists, and the others what they owed.          *)
LEMMA AssignedOwes ==
  ASSUME NEW p \in Publishers, NEW task, NEW lists, Assigned(p, task, lists),
         NEW q \in Publishers, NEW step
  PROVE  Owes(q, step)' <=> IF q = p THEN \E steps \in lists : Has(steps, step) ELSE Owes(q, step)
BY DEF Assigned, Idle, Owes

(* A task which is not one of the health check, or of main that withdraws. *)
LEMMA MarksOther ==
  ASSUME Marks, NEW p \in Publishers, NEW task, NEW lists, Assigned(p, task, lists),
         GoodLists(task, lists), task \notin {"down", "close", "up"}, UNCHANGED <<covers, wedged>>, Serving' => Serving
  PROVE  Marks'
<1>0. /\ UNCHANGED broker /\ UNCHANGED <<covers, wedged, shown>>
      /\ \A q \in Publishers : doing'[q] = IF q = p THEN task ELSE doing[q]
      /\ AvailabilityTopics \subseteq Topics /\ "health" \in Publishers
  BY KindsOfTopics, Names DEF Assigned, broker
<1>1. ASSUME NEW t \in AvailabilityTopics, shown'[t] = "offline" \/ OnItsWay(t, "offline")'
      PROVE  t[1] \in covers'
  BY <1>0, <1>1, SameTopics DEF Marks
<1>2. ASSUME NEW q \in Publishers, NEW t \in AvailabilityTopics, Owes(q, Publish(t, "offline"))'
      PROVE  t[1] \in covers'
  <2>1. CASE q = p
    <3>1. PICK steps \in lists : Has(steps, Publish(t, "offline"))
      BY <1>2, <2>1, AssignedOwes
    <3>2. Publish(t, "offline") \in StepsOf(task) /\ t \in Topics
      BY <1>0, <3>1, HasIn DEF GoodLists, StepLists
    <3>3. t \notin DiscoveryTopics /\ t # PlugTopic
      BY KindsOfTopics
    <3>4. task \in {"down", "close"}
      <4>1. /\ "offline" # "config" /\ "offline" # "online" /\ "offline" # ""
            /\ "offline" \notin {"OFF", "ON"}
        BY Zenon
      <4> QED BY <3>2, <4>1, WhoSays
    <3> QED BY <3>4
  <2>2. CASE q # p
    BY <1>0, <1>2, <2>2, AssignedOwes DEF Marks
  <2> QED BY <2>1, <2>2
<1>3. ASSUME Serving', NEW t \in AvailabilityTopics, ~wedged'
      PROVE  \/ Settles(t, {"online", "none"})'
             \/ (doing["health"] = "up" /\ Owes("health", Publish(t, "online")))'
  <2>1. \/ Settles(t, {"online", "none"})
        \/ doing["health"] = "up" /\ Owes("health", Publish(t, "online"))
    BY <1>0, <1>3 DEF Marks
  <2>2. p = "health" => ~Owes("health", Publish(t, "online"))
    BY DEF Assigned, Idle
  <2>3. p # "health" => (Owes("health", Publish(t, "online"))' <=> Owes("health", Publish(t, "online")))
    BY <1>0, AssignedOwes
  <2>4. Settles(t, {"online", "none"})' <=> Settles(t, {"online", "none"})
    BY <1>0, SameTopics
  <2> QED BY <1>0, <2>1, <2>2, <2>3, <2>4
<1> QED BY <1>1, <1>2, <1>3 DEF Marks

(* The lists of MarkAll are about the covers of the map.                   *)
LEMMA MarkAllHas ==
  ASSUME Contents, NEW x, NEW y, NEW t \in AvailabilityTopics
  PROVE  /\ (\E steps \in MarkAll(x) : Has(steps, Publish(t, x))) <=> t[1] \in covers
         /\ x # y => ~ \E steps \in MarkAll(x) : Has(steps, Publish(t, y))
<1> DEFINE S == {Publish(u, x) : u \in AvailabilityTopics}
<1>1. \A c \in covers : /\ PublishAvailability(c, x) \in Seq(S)
                        /\ Has(PublishAvailability(c, x), Publish(t, x)) <=> t[1] = c
  <2>1. \A u \in AvailabilityTopics : Publish(u, x) \in S
    OBVIOUS
  <2> HIDE DEF S
  <2> QED BY <2>1, AvailabilityIsList DEF Contents
<1>2. x # y => Publish(t, y) \notin S
  BY DEF Publish
<1> HIDE DEF S
<1>3. ASSUME NEW c \in covers, x # y PROVE ~Has(PublishAvailability(c, x), Publish(t, y))
  BY <1>1, <1>2, <1>3, HasIn
<1> QED BY <1>1, <1>3 DEF MarkAll

LEMMA MarksHealth ==
  ASSUME IInv, Marks, MarkAllUnavailable \/ MarkAllAvailable \/ Marked
  PROVE  Marks'
<1>0. /\ Contents /\ Shows /\ Waiting /\ "health" \in Publishers
      /\ UNCHANGED <<stage, covers, broker, shown, flight>>
      /\ stage \in {"running", "stopping"}
      /\ AvailabilityTopics \subseteq Topics
  BY HealthIs, Names, KindsOfTopics DEF IInv, broker
<1>1. ASSUME NEW t \in AvailabilityTopics, shown'[t] = "offline" \/ OnItsWay(t, "offline")'
      PROVE  t[1] \in covers'
  BY <1>0, <1>1, SameTopics DEF Marks
<1>2. CASE Assigned("health", "rest", {}) /\ wedged' = wedged
  <2>1. GoodLists("rest", {}) /\ (Serving' => Serving)
    BY <1>0, ListsOfTasks DEF Serving
  <2> QED BY <1>0, <1>2, <2>1, MarksOther
<1>3. CASE Assigned("health", "down", MarkAll("offline")) /\ wedged' = TRUE
  <2>1. ASSUME NEW q \in Publishers, NEW t \in AvailabilityTopics, Owes(q, Publish(t, "offline"))'
        PROVE  t[1] \in covers'
    BY <1>0, <1>3, <2>1, AssignedOwes, MarkAllHas DEF Marks
  <2> QED BY <1>1, <1>3, <2>1 DEF Marks
<1>4. CASE Assigned("health", "up", MarkAll("online")) /\ wedged' = FALSE
  <2>1. ASSUME NEW q \in Publishers, NEW t \in AvailabilityTopics, Owes(q, Publish(t, "offline"))'
        PROVE  t[1] \in covers'
    <3>1. "online" # "offline"
      OBVIOUS
    <3>2. q # "health"
      BY <1>0, <1>4, <2>1, <3>1, AssignedOwes, MarkAllHas
    <3> QED BY <1>0, <1>4, <2>1, <3>2, AssignedOwes DEF Marks
  <2>2. ASSUME NEW t \in AvailabilityTopics
        PROVE  \/ Settles(t, {"online", "none"})'
               \/ (doing["health"] = "up" /\ Owes("health", Publish(t, "online")))'
    <3>1. CASE t[1] \in covers
      <4>1. doing'["health"] = "up"
        BY <1>0, <1>4 DEF Assigned
      <4> QED BY <1>0, <1>4, <3>1, <4>1, AssignedOwes, MarkAllHas
    <3>2. CASE t[1] \notin covers
      <4>1. shown[t] # "offline" /\ ~OnItsWay(t, "offline")
        BY <3>2 DEF Marks
      <4>2. \A m \in flight : m.topic = t => m.payload = "online"
        BY <1>0, <4>1, WhatIsPublished DEF OnItsWay, Waiting
      <4>3. shown[t] \in {"online", "none"}
        BY <1>0, <4>1, WhatIsPublished DEF Shows
      <4>4. Settles(t, {"online", "none"})
        BY <4>2, <4>3 DEF Settles
      <4> QED BY <1>0, <4>4, SameTopics
    <3> QED BY <3>1, <3>2
  <2> QED BY <1>1, <2>1, <2>2 DEF Marks
<1> QED BY <1>2, <1>3, <1>4, HealthIs

(* A step that sends nothing and gives nobody anything to do.              *)
LEMMA MarksStill ==
  ASSUME Marks, UNCHANGED <<work, broker, covers, wedged>>, Serving' => Serving
  PROVE  Marks'
<1>1. UNCHANGED <<doing, left, job, shown, flight>> /\ UNCHANGED broker
  BY DEF work, broker
<1>2. \A q, step : Owes(q, step)' <=> Owes(q, step)
  BY <1>1 DEF Owes
<1> QED BY <1>1, <1>2, SameTopics DEF Marks

LEMMA MarksMain ==
  ASSUME IInv, Marks, Tasked
  PROVE  Marks'
<1>0. Contents /\ "main" \in Publishers
  BY Names DEF IInv
<1>1. CASE Join
  <2>1. /\ Assigned("main", "close", MarkAll("offline")) /\ stage' = "closing"
        /\ UNCHANGED <<covers, broker, shown>>
    BY <1>1, MainIs DEF Assigned, broker
  <2>2. ASSUME NEW t \in AvailabilityTopics, shown'[t] = "offline" \/ OnItsWay(t, "offline")'
        PROVE  t[1] \in covers'
    BY <2>1, <2>2, SameTopics DEF Marks
  <2>3. ASSUME NEW q \in Publishers, NEW t \in AvailabilityTopics, Owes(q, Publish(t, "offline"))'
        PROVE  t[1] \in covers'
    BY <1>0, <2>1, <2>3, AssignedOwes, MarkAllHas DEF Marks
  <2> QED BY <2>1, <2>2, <2>3 DEF Marks, Serving
<1>2. CASE Started \/ Disconnect
  <2>1. Assigned("main", "rest", {}) /\ UNCHANGED <<covers, wedged>> /\ (Serving' => Serving)
    BY <1>2, MainIs DEF Serving
  <2> QED BY <1>0, <2>1, MarksOther, ListsOfTasks
<1>3. CASE StartupReboot
  <2>1. Assigned("main", "register", Register) /\ UNCHANGED <<covers, wedged>> /\ (Serving' => Serving)
    BY <1>3, MainIs DEF Serving
  <2> QED BY <1>0, <2>1, MarksOther, ListsOfTasks
<1>4. CASE CleanupDiscovery
  <2>1. Assigned("main", "clean", Cleanup) /\ UNCHANGED <<covers, wedged>> /\ (Serving' => Serving)
    BY <1>4, MainIs DEF Serving
  <2> QED BY <1>0, <2>1, MarksOther, ListsOfTasks
<1> QED BY <1>1, <1>2, <1>3, <1>4 DEF Tasked

LEMMA NobodyOwes ==
  ASSUME Exit \/ MapFault, NEW p \in Publishers, NEW step
  PROVE  ~Owes(p, step)'
BY EndIs DEF Owes, Has

LEMMA MarksEnd ==
  ASSUME IInv, Marks, Exit \/ MapFault
  PROVE  Marks'
<1>1. flight' = {} /\ UNCHANGED <<shown, covers>> /\ stage' \in {"exited", "crashed"}
  BY EndIs
<1>2. \A t, x : ~OnItsWay(t, x)'
  BY <1>1 DEF OnItsWay
<1> QED BY <1>1, <1>2, NobodyOwes DEF Marks, Serving

LEMMA MarksStep ==
  ASSUME IInv, Marks, [Next]_vars
  PROVE  Marks'
<1>0. Contents
  BY DEF IInv
<1>1. ASSUME NEW p \in Loops, Reload(p) \/ PowerCycle(p) \/ PowerIsBack(p) \/ Return(p)
      PROVE  Marks'
  <2>1. PICK task, lists : Recovers(p, task, lists)
    BY <1>1, OperationIs
  <2>2. p \in Publishers
    BY Names
  <2>3. /\ Assigned(p, task, lists) /\ GoodLists(task, lists)
        /\ task \notin {"down", "close", "up"} /\ UNCHANGED <<covers, wedged>>
        /\ (Serving' => Serving)
    BY <2>1 DEF Recovers, Serving
  <2> QED BY <2>2, <2>3, MarksOther
<1>2. ASSUME NEW u \in Updaters, Update(u) \/ Updated(u) PROVE Marks'
  <2>1. /\ u \in Publishers /\ UNCHANGED <<stage, covers, wedged>> /\ (Serving' => Serving)
    BY <1>2, UpdateIs, Names DEF Serving
  <2>2. \E task \in {"update", "rest"} : \E lists :
          Assigned(u, task, lists) /\ GoodLists(task, lists)
    BY <1>0, <1>2, UpdateIs, ListsOfTasks
  <2>3. PICK task \in {"update", "rest"} : \E lists :
          Assigned(u, task, lists) /\ GoodLists(task, lists)
    BY <2>2
  <2> QED BY <2>1, <2>3, MarksOther
<1>3. CASE Stop
  BY <1>3, StopIs, MarksStill DEF Serving
<1>4. CASE UNCHANGED vars
  BY <1>4, MarksStill DEF vars, process, Serving
<1> QED BY <1>1, <1>2, <1>3, <1>4, NextIs, MarksInner, MarksMain, MarksHealth, MarksEnd

(* Only the health check and CloseAll say offline, only a registration     *)
(* publishes a config or records one, and only an update or a registration *)
(* says online once the loops have ended.                                  *)
LEMMA WhoOwes ==
  ASSUME Placed, NEW p \in Publishers, NEW t \in Topics, NEW x, Owes(p, Publish(t, x))
  PROVE  /\ t \in AvailabilityTopics /\ x = "offline" => doing[p] \in {"down", "close"}
         /\ t \in AvailabilityTopics => x \in {"online", "offline"}
         /\ t \in AvailabilityTopics /\ x = "online" => doing[p] \in {"register", "up", "update"}
         /\ t \in DiscoveryTopics => x \in {"config", ""}
         /\ t \in DiscoveryTopics /\ x = "config" => doing[p] = "register"
         /\ t \in DiscoveryTopics /\ x = "" => doing[p] = "clean"
         /\ t = PlugTopic => doing[p] = "cycle" /\ x \in {"OFF", "ON"}
<1>1. Publish(t, x) \in StepsOf(doing[p])
  BY OwesIn
<1>2. /\ "offline" # "config" /\ "offline" # "online" /\ "offline" # "" /\ "online" # ""
      /\ "online" # "config" /\ "config" # ""
  BY Zenon
<1>3. /\ \/ doing[p] = "register" /\ t \in DiscoveryTopics /\ x = "config"
         \/ doing[p] = "register" /\ t \in AvailabilityTopics /\ x = "online"
         \/ doing[p] = "cycle" /\ t = PlugTopic /\ x \in {"OFF", "ON"}
         \/ doing[p] \in {"down", "close"} /\ t \in AvailabilityTopics /\ x = "offline"
         \/ doing[p] \in {"up", "update"} /\ t \in AvailabilityTopics /\ x = "online"
         \/ doing[p] = "clean" /\ t \in DiscoveryTopics /\ x = ""
  BY <1>1, WhoSays
<1>4. /\ t \in AvailabilityTopics => t \notin DiscoveryTopics /\ t # PlugTopic
      /\ t \in DiscoveryTopics => t # PlugTopic
  BY KindsOfTopics
<1> QED BY <1>2, <1>3, <1>4

LEMMA InitFates == Init => Marks /\ Powered /\ Discovery /\ Withdrawal
<1> SUFFICES ASSUME Init PROVE Marks /\ Powered /\ Discovery /\ Withdrawal
  OBVIOUS
<1>1. /\ doing = [p \in Publishers |-> IF p = "main" THEN "register" ELSE "rest"]
      /\ stage = "starting" /\ flight = {}
      /\ shown = [t \in Topics |-> IF t = PlugTopic THEN "ON" ELSE "none"]
  BY DEF Init
<1>2. Placed
  BY InitIInv DEF IInv
<1>3. /\ \A t \in DiscoveryTopics \cup AvailabilityTopics : t \in Topics /\ shown[t] = "none"
      /\ PlugTopic \in Topics /\ shown[PlugTopic] = "ON"
  BY <1>1, KindsOfTopics
<1>4. \A p \in Publishers : doing[p] \in {"register", "rest"}
  BY <1>1
<1>5. \A p \in Publishers : \A t \in AvailabilityTopics : ~Owes(p, Publish(t, "offline"))
  BY <1>2, <1>3, <1>4, WhoOwes
<1>6. \A t, x : ~OnItsWay(t, x)
  BY <1>1 DEF OnItsWay
<1>7. \A t \in AvailabilityTopics : Settles(t, {"online", "none"})
  BY <1>1, <1>3 DEF Settles
<1>8. Settles(PlugTopic, {"ON"})
  BY <1>1, <1>3 DEF Settles
<1>9. Marks
  BY <1>3, <1>5, <1>6, <1>7 DEF Marks
<1>10. Powered
  BY <1>8 DEF Powered
<1>11. Discovery
  <2>1. "main" \in Publishers /\ doing["main"] = "register"
    BY <1>1, Names
  <2> QED BY <1>1, <1>3, <1>6, <2>1 DEF Discovery, Recorded, DiscoveryIsCleared
<1>12. Withdrawal
  BY <1>1 DEF Withdrawal, AvailabilityIsWithdrawn
<1> QED BY <1>9, <1>10, <1>11, <1>12

LEMMA MarksMean ==
  ASSUME IInv, Marks
  PROVE  OfflineIsMeant
<1> SUFFICES ASSUME stage = "running", NEW t \in AvailabilityTopics \ mixed,
                    shown[t] = "offline", ~wedged, doing["health"] # "up"
             PROVE  OnItsWay(t, "online")
  BY DEF OfflineIsMeant
<1>1. Settles(t, {"online", "none"})
  BY DEF Marks, Serving
<1>2. "offline" \notin {"online", "none"}
  BY Zenon
<1>3. PICK m \in flight : m.topic = t /\ m.payload \in {"online", "none"}
  BY <1>1, <1>2 DEF Settles
<1>4. m.payload \in Payloads
  BY DEF IInv, Waiting, Messages
<1>5. "none" \notin Payloads
  BY Zenon DEF Payloads
<1> QED BY <1>3, <1>4, <1>5 DEF OnItsWay

-----------------------------------------------------------------------------
(* What a step from task to task leaves alone.                             *)

(* Every step is one within the lists, one that gives a goroutine a task,  *)
(* one that does neither, or the end.                                      *)
Gives(p, task, lists) ==
  /\ Assigned(p, task, lists) /\ GoodLists(task, lists)
  /\ (Alive' => Alive) /\ stage' # "exited"

LEMMA KindsOfMoves ==
  ASSUME IInv, [Next]_vars
  PROVE  \/ Inner \/ Exit \/ MapFault
         \/ \E p \in Publishers : \E task, lists : Gives(p, task, lists)
         \/ Stop \/ UNCHANGED vars
<1>0. Contents
  BY DEF IInv
<1>1. ASSUME NEW p \in Loops, Reload(p) \/ PowerCycle(p) \/ PowerIsBack(p) \/ Return(p)
      PROVE  \E q \in Publishers : \E task, lists : Gives(q, task, lists)
  <2>1. PICK task, lists : Recovers(p, task, lists)
    BY <1>1, OperationIs
  <2>2. Gives(p, task, lists)
    BY <2>1 DEF Recovers, Gives, Alive
  <2> QED BY <2>2, Names
<1>2. ASSUME NEW u \in Updaters, Update(u) \/ Updated(u)
      PROVE  \E q \in Publishers : \E task, lists : Gives(q, task, lists)
  <2>1. u \in Publishers /\ stage' = stage /\ Alive
    BY <1>2, UpdateIs, Names
  <2>2. \E task, lists : Assigned(u, task, lists) /\ GoodLists(task, lists)
    BY <1>0, <1>2, UpdateIs, ListsOfTasks
  <2>3. PICK task, lists : Assigned(u, task, lists) /\ GoodLists(task, lists)
    BY <2>2
  <2>4. Gives(u, task, lists)
    BY <2>1, <2>3 DEF Gives, Alive
  <2> QED BY <2>1, <2>4
<1>3. ASSUME MarkAllUnavailable \/ MarkAllAvailable \/ Marked
      PROVE  \E q \in Publishers : \E task, lists : Gives(q, task, lists)
  <2>1. stage' = stage /\ stage \in {"running", "stopping"}
    BY <1>3, HealthIs
  <2>2. \E task, lists : Assigned("health", task, lists) /\ GoodLists(task, lists)
    BY <1>0, <1>3, HealthIs, ListsOfTasks
  <2>3. PICK task, lists : Assigned("health", task, lists) /\ GoodLists(task, lists)
    BY <2>2
  <2>4. Gives("health", task, lists)
    BY <2>1, <2>3 DEF Gives, Alive
  <2> QED BY <2>4, Names
<1>4. ASSUME Tasked
      PROVE  \E q \in Publishers : \E task, lists : Gives(q, task, lists)
  <2>1. stage \notin {"exited", "crashed"} /\ stage' # "exited"
    BY <1>4, MainIs DEF Tasked
  <2>2. \E task, lists : Assigned("main", task, lists) /\ GoodLists(task, lists)
    BY <1>0, <1>4, MainIs, ListsOfTasks DEF Tasked
  <2>3. PICK task, lists : Assigned("main", task, lists) /\ GoodLists(task, lists)
    BY <2>2
  <2>4. Gives("main", task, lists)
    BY <2>1, <2>3 DEF Gives, Alive
  <2> QED BY <2>4, Names
<1> QED BY <1>1, <1>2, <1>3, <1>4, NextIs

-----------------------------------------------------------------------------
(* The plug.                                                               *)

LEMMA PoweredInner ==
  ASSUME IInv, Inner, Powered, Alive
  PROVE  Powered'
<1>0. /\ Placed /\ Ordered /\ Holders /\ Stages /\ doing' = doing
      /\ \A p \in Publishers : Moves(p)
      /\ PlugTopic \in Topics
  BY InnerMoves, KindsOfTopics DEF IInv
<1>1. ASSUME NEW q \in Publishers, NEW x, job[q] # <<>>, Head(job[q]) = Publish(PlugTopic, x)
      PROVE  doing[q] = "cycle"
  BY <1>0, <1>1, HeadOwed, WhoOwes
<1>2. CASE \A p \in Publishers : ~(doing[p] = "cycle" /\ job[p] # <<>>)
  <2>1. Loyal(PlugTopic, {"ON"})
    BY <1>1, <1>2 DEF Loyal
  <2>2. Settles(PlugTopic, {"ON"})
    BY <1>2 DEF Powered
  <2> QED BY <1>0, <2>1, <2>2, KeepsSettled DEF Powered
<1>3. ASSUME NEW p \in Publishers, doing[p] = "cycle", job[p] # <<>>
      PROVE  Powered'
  <2>1. CASE job'[p] # <<>>
    BY <1>0, <1>3, <2>1 DEF Powered
  <2>2. CASE job'[p] = <<>>
    <3>1. GoesOn(p)
      BY <1>0, <1>3, <2>2 DEF Moves, Stays, TakesUp
    <3>2. job[p] = OnOnly
      <4>1. job[p] # OffOn
        <5>1. Tail(OffOn) # <<>>
          BY DEF OffOn
        <5> QED BY <2>2, <3>1, <5>1 DEF GoesOn
      <4> QED BY <1>0, <1>3, <4>1 DEF Ordered
    <3>3. Head(job[p]) = Publish(PlugTopic, "ON")
      BY <3>2 DEF OnOnly
    <3>4. Settles(PlugTopic, {"ON"})
      <4>1. \E m \in flight : m.topic = PlugTopic /\ m.payload = "ON"
        BY <3>1, <3>3, Sent
      <4> QED BY <4>1 DEF Settles
    <3>5. ASSUME NEW q \in Publishers, doing[q] = "cycle" PROVE q = p
      BY <1>0, <1>3, <3>5, Names DEF Holders, Stages, Locked
    <3>6. \A x : Publish(PlugTopic, x) = Publish(PlugTopic, "ON") => x = "ON"
      BY DEF Publish
    <3>7. Loyal(PlugTopic, {"ON"})
      BY <1>1, <3>3, <3>5, <3>6 DEF Loyal
    <3> QED BY <1>0, <3>4, <3>7, KeepsSettled DEF Powered
  <2> QED BY <2>1, <2>2
<1> QED BY <1>2, <1>3

LEMMA PoweredStep ==
  ASSUME IInv, Powered, [Next]_vars
  PROVE  Powered'
<1>1. CASE Inner
  BY <1>1, InnerMoves, PoweredInner DEF Powered, Alive
<1>2. CASE Exit \/ MapFault
  BY <1>2, EndIs DEF Powered, Alive
<1>3. ASSUME NEW p \in Publishers, NEW task, NEW lists, Gives(p, task, lists)
      PROVE  Powered'
  <2>1. /\ UNCHANGED broker /\ job' = job /\ job[p] = <<>> /\ (Alive' => Alive)
        /\ \A q \in Publishers : doing'[q] = IF q = p THEN task ELSE doing[q]
    BY <1>3 DEF Gives, Assigned, Idle
  <2> QED BY <2>1, SameTopics DEF Powered
<1>4. CASE Stop \/ UNCHANGED vars
  <2>1. UNCHANGED broker /\ UNCHANGED <<doing, job>> /\ (Alive' => Alive)
    BY <1>4, StopIs DEF vars, process, work, Alive
  <2> QED BY <2>1, SameTopics DEF Powered
<1> QED BY <1>1, <1>2, <1>3, <1>4, KindsOfMoves

LEMMA PoweredMeans ==
  ASSUME IInv, Powered
  PROVE  PlugEndsOn
<1> SUFFICES ASSUME Alive, \A p \in Publishers : doing[p] # "cycle", PlugTopic \notin mixed
             PROVE  shown[PlugTopic] = "ON" \/ OnItsWay(PlugTopic, "ON")
  BY DEF PlugEndsOn
<1>1. Settles(PlugTopic, {"ON"})
  BY DEF Powered
<1> QED BY <1>1 DEF Settles, OnItsWay

-----------------------------------------------------------------------------
(* The configs.                                                            *)

LEMMA InnerAlive ==
  ASSUME IInv, Inner, ~Alive
  PROVE  UNCHANGED <<shown, mixed>> /\ UNCHANGED <<process, flight>>
BY DEF Inner, Steps, Submit, GiveUp, RecordDiscoveryTopic, RegisterCallback, Insert, Iterate,
       Land, BrokerIsBack, Outage

(* A record is made in the end.                                            *)
LEMMA RecordedInner ==
  ASSUME IInv, Inner, Recorded
  PROVE  Recorded'
<1>0. /\ Placed /\ Ordered /\ discovered \subseteq discovered'
      /\ \A p \in Publishers : Moves(p)
      /\ DiscoveryTopics \subseteq Topics
  BY InnerMoves, KindsOfTopics DEF IInv
<1> SUFFICES ASSUME NEW t \in DiscoveryTopics, shown'[t] = "config" \/ OnItsWay(t, "config")'
             PROVE  t \in discovered' \/ \E p \in Publishers : Has(job'[p], Record(t))
  BY DEF Recorded
<1>1. ASSUME NEW p \in Publishers, Has(job[p], Record(t))
      PROVE  t \in discovered' \/ Has(job'[p], Record(t))
  <2>1. CASE Stays(p)
    BY <1>1, <2>1 DEF Stays
  <2>2. CASE TakesUp(p)
    BY <1>1, <2>2 DEF TakesUp, Has
  <2>3. CASE GoesOn(p)
    <3>1. Head(job[p]) = Record(t) \/ Has(job'[p], Record(t))
      BY <1>0, <1>1, <2>3, HeadIs DEF GoesOn
    <3>2. Record(t).do = "record" /\ Record(t).topic = t
      BY DEF Record
    <3> QED BY <2>3, <3>1, <3>2 DEF GoesOn
  <2> QED BY <1>0, <2>1, <2>2, <2>3 DEF Moves
<1>2. ASSUME NEW p \in Publishers, job[p] # <<>>, Head(job[p]) = Publish(t, "config")
      PROVE  Has(job[p], Record(t))
  <2>1. job[p] \in Seq(StepsOf(doing[p]))
    BY <1>0 DEF Placed, StepLists
  <2>2. 1 \in DOMAIN job[p] /\ job[p][1] = Head(job[p])
    BY <1>2, <2>1, HeadTailProperties, EmptySeq
  <2>3. \E j \in DOMAIN job[p] : j > 1 /\ job[p][j] = Record(t)
    BY <1>0, <1>2, <2>2 DEF Ordered, RecordsFollow
  <2> QED BY <2>3 DEF Has
<1>3. CASE shown[t] = "config" \/ OnItsWay(t, "config")
  <2>1. t \in discovered \/ \E p \in Publishers : Has(job[p], Record(t))
    BY <1>3 DEF Recorded
  <2> QED BY <1>0, <1>1, <2>1
<1>4. CASE \E p \in Publishers :
             job[p] # <<>> /\ Head(job[p]) = Publish(t, "config") /\ job' = job
  BY <1>2, <1>4
<1> QED BY <1>0, <1>3, <1>4, NewMessage

LEMMA ClearedInner ==
  ASSUME IInv, Inner, Cleared, doing["main"] = "clean" \/ stage = "closed"
  PROVE  Cleared'
<1>0. /\ Placed /\ Holders /\ Stages /\ DiscoveryTopics \subseteq Topics /\ "main" \in Publishers
  BY KindsOfTopics, Names DEF IInv
<1> SUFFICES ASSUME NEW t \in DiscoveryTopics
             PROVE  Settles(t, {"", "none"})' \/ Owes("main", Publish(t, ""))'
  BY DEF Cleared
<1>1. ASSUME NEW q \in Publishers PROVE doing[q] # "register"
  BY <1>0, Names DEF Holders, Stages
<1>2. Loyal(t, {"", "none"})
  <2>1. ASSUME NEW q \in Publishers, NEW x, job[q] # <<>>, Head(job[q]) = Publish(t, x)
        PROVE  x = ""
    <3>1. Owes(q, Publish(t, x))
      BY <1>0, <2>1, HeadOwed
    <3> QED BY <1>0, <1>1, <3>1, WhoOwes
  <2> QED BY <2>1 DEF Loyal
<1>3. Settles(t, {"", "none"}) \/ Owes("main", Publish(t, ""))
  BY DEF Cleared
<1>4. "" \in {"", "none"}
  OBVIOUS
<1> QED BY <1>0, <1>2, <1>3, <1>4, KeepsSettled, Settling

LEMMA DiscoveryInner ==
  ASSUME IInv, Inner, Discovery
  PROVE  Discovery'
<1>1. stage' = stage /\ doing' = doing
  BY InnerMoves
<1>2. Serving' \/ doing'["main"] = "close" => Recorded'
  BY <1>1, RecordedInner DEF Discovery, Serving
<1>3. doing'["main"] = "clean" \/ stage' = "closed" => Cleared'
  BY <1>1, ClearedInner DEF Discovery
<1>4. DiscoveryIsCleared'
  BY <1>1, InnerAlive DEF Discovery, DiscoveryIsCleared, Alive
<1> QED BY <1>2, <1>3, <1>4 DEF Discovery

(* A task which is not to clear the configs.                               *)
LEMMA DiscoveryOther ==
  ASSUME Discovery, NEW p \in Publishers, NEW task, NEW lists, Assigned(p, task, lists),
         discovered' = discovered, stage' # "exited",
         Serving' \/ doing'["main"] = "close" => Serving \/ doing["main"] = "close",
         doing'["main"] = "clean" \/ stage' = "closed" =>
           p # "main" /\ (doing["main"] = "clean" \/ stage = "closed")
  PROVE  Discovery'
<1>0. /\ UNCHANGED broker /\ job' = job /\ shown' = shown /\ "main" \in Publishers
  BY Names DEF Assigned, broker
<1>1. Recorded => Recorded'
  BY <1>0, SameTopics DEF Recorded
<1>2. p # "main" /\ Cleared => Cleared'
  BY <1>0, SameTopics, AssignedOwes DEF Cleared
<1> QED BY <1>1, <1>2 DEF Discovery, DiscoveryIsCleared

LEMMA DiscoveryCleanup ==
  ASSUME IInv, Discovery, CleanupDiscovery
  PROVE  Discovery'
<1>0. /\ Placed /\ Shows /\ Waiting /\ Stages /\ Holders /\ "main" \in Publishers
      /\ DiscoveryTopics \subseteq Topics
  BY Names, KindsOfTopics DEF IInv
<1>1. /\ Assigned("main", "clean", Cleanup) /\ doing["main"] = "close"
      /\ stage = "closing" /\ stage' = "closing" /\ UNCHANGED broker /\ doing'["main"] = "clean"
  BY <1>0, MainIs DEF Assigned
<1>2. Recorded
  BY <1>1 DEF Discovery
<1>3. ASSUME NEW t \in DiscoveryTopics
      PROVE  Settles(t, {"", "none"})' \/ Owes("main", Publish(t, ""))'
  <2>1. CASE t \in discovered
    <3>1. <<Publish(t, "")>> \in Cleanup
      BY <2>1 DEF Cleanup
    <3>2. Has(<<Publish(t, "")>>, Publish(t, ""))
      <4> DEFINE s == Publish(t, "")
      <4> HIDE DEF s
      <4>1. 1 \in DOMAIN <<s>> /\ <<s>>[1] = s
        OBVIOUS
      <4> QED BY <4>1 DEF Has, s
    <3> QED BY <1>0, <1>1, <3>1, <3>2, AssignedOwes
  <2>2. CASE t \notin discovered
    <3>1. ASSUME NEW p \in Publishers PROVE ~Has(job[p], Record(t))
      <4>1. doing[p] # "register"
        BY <1>0, <1>1, Names DEF Holders, Stages
      <4>2. Record(t).do = "record"
        BY DEF Record
      <4>3. Record(t) \notin StepsOf(doing[p])
        BY <4>1, <4>2, KindsOfSteps
      <4> QED BY <1>0, <4>3, HasIn DEF Placed, StepLists
    <3>2. shown[t] # "config" /\ ~OnItsWay(t, "config")
      BY <1>2, <2>2, <3>1 DEF Recorded
    <3>3. shown[t] \in {"", "none"}
      BY <1>0, <3>2, WhatIsPublished DEF Shows
    <3>4. \A m \in flight : m.topic = t => m.payload = ""
      BY <1>0, <3>2, WhatIsPublished DEF Waiting, OnItsWay
    <3>5. Settles(t, {"", "none"})
      BY <3>3, <3>4 DEF Settles
    <3> QED BY <1>1, <3>5, SameTopics
  <2> QED BY <2>1, <2>2
<1>4. Cleared'
  BY <1>3 DEF Cleared
<1> QED BY <1>1, <1>4 DEF Discovery, DiscoveryIsCleared, Serving

LEMMA DiscoveryDisconnect ==
  ASSUME IInv, Discovery, Disconnect
  PROVE  Discovery'
<1>1. /\ Assigned("main", "rest", {}) /\ doing["main"] = "clean" /\ stage' = "closed"
      /\ UNCHANGED broker /\ doing'["main"] = "rest" /\ Idle("main")
  BY MainIs, Names DEF Assigned
<1>2. \A t \in DiscoveryTopics : Settles(t, {"", "none"})
  BY <1>1 DEF Discovery, Cleared, Idle
<1>3. Cleared'
  BY <1>1, <1>2, SameTopics DEF Cleared
<1> QED BY <1>1, <1>3 DEF Discovery, DiscoveryIsCleared, Serving

LEMMA DiscoveryEnd ==
  ASSUME IInv, Discovery, Exit \/ MapFault
  PROVE  Discovery'
<1>1. /\ "main" \in Publishers /\ doing' = [p \in Publishers |-> "rest"] /\ shown' = shown
      /\ \/ stage = "closed" /\ stage' = "exited" /\ mixed' = mixed \cup {m.topic : m \in flight}
         \/ stage' = "crashed" /\ mixed' = mixed
  BY EndIs, Names
<1>2. ASSUME stage' = "exited", NEW t \in DiscoveryTopics \ mixed'
      PROVE  shown[t] \in {"", "none"}
  <2>1. stage = "closed" /\ mixed' = mixed \cup {m.topic : m \in flight}
    BY <1>1, <1>2
  <2>2. doing["main"] = "rest"
    BY <2>1 DEF IInv, Stages
  <2>3. Idle("main")
    BY <1>1, <2>2, Idles
  <2>4. Settles(t, {"", "none"})
    BY <2>1, <2>3 DEF Discovery, Cleared, Idle
  <2> QED BY <1>2, <2>1, <2>4 DEF Settles
<1>3. DiscoveryIsCleared'
  BY <1>1, <1>2 DEF DiscoveryIsCleared
<1> QED BY <1>1, <1>3 DEF Discovery, Serving

LEMMA DiscoveryStep ==
  ASSUME IInv, Discovery, [Next]_vars
  PROVE  Discovery'
<1>0. "main" \in Publishers /\ Loops \subseteq Publishers /\ "main" \notin Loops
      /\ "main" \notin Updaters /\ "main" # "health"
  BY Names
<1>1. ASSUME NEW p \in Loops, Reload(p) \/ PowerCycle(p) \/ PowerIsBack(p) \/ Return(p)
      PROVE  Discovery'
  <2>1. PICK task, lists : Recovers(p, task, lists)
    BY <1>1, OperationIs
  <2>2. /\ Assigned(p, task, lists) /\ p \in Publishers /\ p # "main"
        /\ discovered' = discovered /\ stage' = stage /\ stage \in {"running", "stopping"}
        /\ doing'["main"] = doing["main"]
    BY <1>0, <2>1 DEF Recovers, Assigned
  <2> QED BY <2>2, DiscoveryOther DEF Serving
<1>2. ASSUME NEW u \in Updaters, Update(u) \/ Updated(u) PROVE Discovery'
  <2>1. /\ u \in Publishers /\ u # "main" /\ UNCHANGED <<stage, discovered>> /\ Alive
        /\ \E task, lists : Assigned(u, task, lists)
    BY <1>0, <1>2, UpdateIs, Names
  <2>2. PICK task, lists : Assigned(u, task, lists)
    BY <2>1
  <2>3. doing'["main"] = doing["main"] /\ stage' # "exited"
    BY <1>0, <2>1, <2>2 DEF Assigned, Alive
  <2> QED BY <2>1, <2>2, <2>3, DiscoveryOther DEF Serving
<1>3. ASSUME MarkAllUnavailable \/ MarkAllAvailable \/ Marked PROVE Discovery'
  <2>1. /\ "health" \in Publishers /\ UNCHANGED <<stage, discovered>>
        /\ stage \in {"running", "stopping"}
        /\ \E task, lists : Assigned("health", task, lists)
    BY <1>3, HealthIs, Names
  <2>2. PICK task, lists : Assigned("health", task, lists)
    BY <2>1
  <2>3. doing'["main"] = doing["main"]
    BY <1>0, <2>2 DEF Assigned
  <2> QED BY <1>0, <2>1, <2>2, <2>3, DiscoveryOther DEF Serving
<1>4. CASE Started \/ StartupReboot \/ Join
  <2>1. /\ \E task \in {"rest", "register", "close"} : \E lists : Assigned("main", task, lists)
        /\ stage \in {"starting", "stopping"} /\ stage' \in {"starting", "running", "closing"}
        /\ discovered' = discovered
    BY <1>4, MainIs
  <2>2. PICK task \in {"rest", "register", "close"} : \E lists : Assigned("main", task, lists)
    BY <2>1
  <2>3. PICK lists : Assigned("main", task, lists)
    BY <2>2
  <2>4. doing'["main"] # "clean"
    BY <1>0, <2>3 DEF Assigned
  <2> QED BY <1>0, <2>1, <2>3, <2>4, DiscoveryOther DEF Serving
<1>5. CASE Stop \/ UNCHANGED vars
  <2>1. /\ UNCHANGED broker /\ UNCHANGED <<doing, left, job, discovered, shown, mixed>>
        /\ (stage' = stage \/ (stage = "running" /\ stage' = "stopping"))
    BY <1>5, StopIs DEF vars, process, work, broker
  <2>2. \A q, step : Owes(q, step)' <=> Owes(q, step)
    BY <2>1 DEF Owes
  <2>3. (Recorded => Recorded') /\ (Cleared => Cleared')
    BY <2>1, <2>2, SameTopics DEF Recorded, Cleared
  <2> QED BY <2>1, <2>3 DEF Discovery, Serving, DiscoveryIsCleared
<1> QED
  BY <1>1, <1>2, <1>3, <1>4, <1>5, NextIs, DiscoveryInner, DiscoveryCleanup,
     DiscoveryDisconnect, DiscoveryEnd DEF Tasked

-----------------------------------------------------------------------------
(* Availability, at the end.                                               *)

LEMMA OnlineHas ==
  ASSUME NEW c \in Covers, NEW t \in AvailabilityTopics,
         Has(UpdateNode(c), Publish(t, "online"))
  PROVE  t[1] = c
<1>1. \A u \in AvailabilityTopics : Publish(u, "online") \in Online
  BY DEF Online
<1> QED BY <1>1, AvailabilityIsList DEF UpdateNode

(* The loops have ended and main does not register: the map stays.         *)
LEMMA MapStays ==
  ASSUME IInv, Inner, stage \in {"closing", "closed"}
  PROVE  covers' = covers
<1>1. ASSUME NEW p \in Publishers, Insert(p) PROVE FALSE
  <2>1. doing[p] # "register"
    BY Names DEF IInv, Holders, Stages
  <2>2. job[p] # <<>> /\ Head(job[p]).do = "put"
    BY <1>1 DEF Insert, Next1
  <2>3. Head(job[p]) \in StepsOf(doing[p])
    BY <2>2, HeadIs DEF IInv
  <2> QED BY <2>1, <2>2, <2>3, KindsOfSteps
<1>2. ASSUME NEW p \in Publishers, Steps(p) PROVE covers' = covers
  BY <1>1, <1>2 DEF Steps, Submit, GiveUp, RecordDiscoveryTopic, RegisterCallback, Iterate, process
<1>3. ASSUME (\E m \in flight : Land(m)) \/ BrokerIsBack \/ Outage PROVE covers' = covers
  BY <1>3 DEF Land, BrokerIsBack, Outage, process
<1> QED BY <1>2, <1>3 DEF Inner

LEMMA WithdrawnInner ==
  ASSUME IInv, Inner, stage \in {"closing", "closed"}, SpokenFor, Withdrawn
  PROVE  SpokenFor' /\ Withdrawn'
<1>0. /\ Placed /\ Holders /\ Stages /\ AvailabilityTopics \subseteq Topics
      /\ "main" \in Publishers /\ Updaters \subseteq Publishers
      /\ covers' = covers /\ spoke' = spoke
  BY InnerMoves, MapStays, KindsOfTopics, Names DEF IInv
<1>1. SpokenFor'
  BY <1>0, OwesNothingNew DEF SpokenFor
<1>2. ASSUME NEW t \in AvailabilityTopics, t[1] \in covers \ spoke
      PROVE  Settles(t, {"offline"})' \/ Owes("main", Publish(t, "offline"))'
  <2>1. Loyal(t, {"offline"})
    <3>1. ASSUME NEW q \in Publishers, NEW x, job[q] # <<>>, Head(job[q]) = Publish(t, x)
          PROVE  x = "offline"
      <4>1. Owes(q, Publish(t, x))
        BY <1>0, <3>1, HeadOwed
      <4>2. doing[q] \notin {"register", "up"}
        BY <1>0, Names DEF Holders, Stages
      <4>3. doing[q] = "update" => q \in Updaters
        BY <1>0, Names DEF Holders, Stages
      <4>4. x = "online" => doing[q] = "update"
        BY <1>0, <4>1, <4>2, WhoOwes
      <4>5. x # "online"
        BY <1>2, <4>1, <4>3, <4>4 DEF SpokenFor
      <4> QED BY <1>0, <4>1, <4>5, WhoOwes
    <3> QED BY <3>1 DEF Loyal
  <2>2. Settles(t, {"offline"}) \/ Owes("main", Publish(t, "offline"))
    BY <1>2 DEF Withdrawn
  <2> QED BY <1>0, <2>1, <2>2, KeepsSettled, Settling
<1>3. Withdrawn'
  BY <1>0, <1>2 DEF Withdrawn
<1> QED BY <1>1, <1>3

(* CloseAll begins: updates that are under way speak for their covers, and *)
(* the others are to be withdrawn.                                         *)
LEMMA WithdrawalJoin ==
  ASSUME IInv, Join
  PROVE  Withdrawal'
<1>0. /\ Placed /\ Ordered /\ Contents /\ Holders /\ "main" \in Publishers /\ Updaters \subseteq Publishers
      /\ "main" \notin Updaters
  BY Names DEF IInv
<1>1. /\ Assigned("main", "close", MarkAll("offline")) /\ stage' = "closing"
      /\ spoke' = Updating /\ covers' = covers
  BY MainIs
<1>2. ASSUME NEW u \in Updaters, NEW t \in AvailabilityTopics, Owes(u, Publish(t, "online"))
      PROVE  t[1] \in Updating
  <2>1. doing[u] = "update"
    <3>1. doing[u] # "rest"
      BY <1>0, <1>2, Idles DEF Idle
    <3> QED BY <1>0, <3>1 DEF Holders
  <2>2. t[1] \in Covers
    BY KindsOfTopics
  <2>3. CASE Has(job[u], Publish(t, "online"))
    <3>1. PICK i \in DOMAIN job[u] : job[u][i] = Publish(t, "online")
      BY <2>3 DEF Has
    <3>2. OneCover(job[u]) /\ job[u] \in Seq(StepsOf(doing[u]))
      BY <1>0, <2>1 DEF Placed, Ordered, StepLists
    <3>3. job[u] # <<>> /\ 1 \in DOMAIN job[u] /\ Head(job[u]) = job[u][1]
      BY <3>1, <3>2, HeadTailProperties, EmptySeq
    <3>4. Publish(t, "online").topic = t
      BY DEF Publish
    <3>5. Head(job[u]).topic[1] = t[1]
      BY <3>1, <3>2, <3>3, <3>4 DEF OneCover
    <3> QED BY <2>1, <2>2, <3>3, <3>5 DEF Updating
  <2>4. ASSUME NEW steps \in left[u], Has(steps, Publish(t, "online"))
        PROVE  t[1] \in Updating
    <3>1. PICK c \in Covers : steps = UpdateNode(c)
      BY <1>0, <2>1, <2>4 DEF Ordered
    <3>2. t[1] = c
      BY <2>4, <3>1, OnlineHas
    <3> QED BY <2>1, <2>2, <2>4, <3>1, <3>2 DEF Updating
  <2> QED BY <1>2, <2>3, <2>4 DEF Owes
<1>3. SpokenFor'
  BY <1>0, <1>1, <1>2, AssignedOwes DEF SpokenFor
<1>4. Withdrawn'
  BY <1>0, <1>1, AssignedOwes, MarkAllHas DEF Withdrawn
<1> QED BY <1>1, <1>3, <1>4 DEF Withdrawal, AvailabilityIsWithdrawn

(* main has sent what it had to.                                           *)
LEMMA WithdrawalMain ==
  ASSUME IInv, Withdrawal, CleanupDiscovery \/ Disconnect
  PROVE  Withdrawal'
<1>0. "main" \in Publishers /\ Updaters \subseteq Publishers /\ "main" \notin Updaters
  BY Names
<1>1. /\ \E task, lists : Assigned("main", task, lists)
      /\ stage = "closing" /\ stage' \in {"closing", "closed"} /\ UNCHANGED <<covers, spoke>>
  BY MainIs
<1>2. PICK task, lists : Assigned("main", task, lists)
  BY <1>1
<1>3. Idle("main") /\ UNCHANGED broker
  BY <1>2 DEF Assigned
<1>4. SpokenFor'
  BY <1>0, <1>1, <1>2, AssignedOwes DEF Withdrawal, SpokenFor
<1>5. Withdrawn'
  BY <1>1, <1>3, SameTopics DEF Withdrawal, Withdrawn, Idle
<1> QED BY <1>1, <1>4, <1>5 DEF Withdrawal, AvailabilityIsWithdrawn

LEMMA WithdrawalUpdate ==
  ASSUME IInv, Withdrawal, NEW u \in Updaters, Update(u) \/ Updated(u)
  PROVE  Withdrawal'
<1>0. /\ "main" \in Publishers /\ Updaters \subseteq Publishers /\ u # "main" /\ Contents
  BY Names DEF IInv
<1>1. /\ stage' = stage /\ covers' = covers /\ Alive /\ UNCHANGED broker
      /\ \/ \E c \in hooked : /\ Assigned(u, "update", {UpdateNode(c)})
                              /\ spoke' = IF stage = "closing" THEN spoke \cup {c} ELSE spoke
                              /\ stage # "closed"
         \/ Assigned(u, "rest", {}) /\ spoke' = spoke
  BY UpdateIs
<1>2. ASSUME stage \in {"closing", "closed"} PROVE SpokenFor'
  <2>0. SpokenFor
    BY <1>2 DEF Withdrawal
  <2>1. CASE Assigned(u, "rest", {}) /\ spoke' = spoke
    BY <1>0, <2>0, <2>1, AssignedOwes DEF SpokenFor
  <2>2. ASSUME NEW c \in hooked, Assigned(u, "update", {UpdateNode(c)}), spoke' = spoke \cup {c}
        PROVE  SpokenFor'
    <3>1. ASSUME NEW t \in AvailabilityTopics, Has(UpdateNode(c), Publish(t, "online"))
          PROVE  t[1] = c
      BY <1>0, <3>1, OnlineHas DEF Contents
    <3> QED BY <1>0, <2>0, <2>2, <3>1, AssignedOwes DEF SpokenFor
  <2> QED BY <1>1, <1>2, <2>1, <2>2
<1>3. ASSUME stage \in {"closing", "closed"} PROVE Withdrawn'
  <2>1. /\ \A step : Owes("main", step)' <=> Owes("main", step)
        /\ spoke \subseteq spoke'
    BY <1>0, <1>1, AssignedOwes
  <2> QED BY <1>1, <1>3, <2>1, SameTopics DEF Withdrawal, Withdrawn
<1> QED BY <1>1, <1>2, <1>3 DEF Withdrawal, AvailabilityIsWithdrawn, Alive

LEMMA WithdrawalEnd ==
  ASSUME IInv, Withdrawal, Exit \/ MapFault
  PROVE  Withdrawal'
<1>1. /\ "main" \in Publishers /\ shown' = shown /\ UNCHANGED <<covers, spoke>>
      /\ \/ stage = "closed" /\ stage' = "exited" /\ mixed' = mixed \cup {m.topic : m \in flight}
         \/ stage' = "crashed" /\ mixed' = mixed
  BY EndIs, Names
<1>2. ASSUME stage' = "exited", NEW t \in AvailabilityTopics \ mixed', t[1] \in covers \ spoke
      PROVE  shown[t] = "offline"
  <2>1. stage = "closed" /\ mixed' = mixed \cup {m.topic : m \in flight}
    BY <1>1, <1>2
  <2>2. doing["main"] = "rest"
    BY <2>1 DEF IInv, Stages
  <2>3. Idle("main")
    BY <1>1, <2>2, Idles
  <2>4. Settles(t, {"offline"})
    BY <1>2, <2>1, <2>3 DEF Withdrawal, Withdrawn, Idle
  <2> QED BY <1>2, <2>1, <2>4 DEF Settles
<1>3. AvailabilityIsWithdrawn'
  BY <1>1, <1>2 DEF AvailabilityIsWithdrawn
<1> QED BY <1>1, <1>3 DEF Withdrawal

LEMMA WithdrawalStep ==
  ASSUME IInv, Withdrawal, [Next]_vars
  PROVE  Withdrawal'
<1>1. CASE Inner
  <2>1. stage' = stage
    BY <1>1, InnerMoves
  <2>2. stage \in {"closing", "closed"} => SpokenFor' /\ Withdrawn'
    BY <1>1, WithdrawnInner DEF Withdrawal
  <2>3. AvailabilityIsWithdrawn'
    BY <1>1, <2>1, InnerAlive DEF Withdrawal, AvailabilityIsWithdrawn, Alive, process
  <2> QED BY <2>1, <2>2, <2>3 DEF Withdrawal
<1>2. ASSUME stage' \in {"starting", "running", "stopping"} PROVE Withdrawal'
  BY <1>2 DEF Withdrawal, AvailabilityIsWithdrawn
<1>3. ASSUME NEW p \in Loops, Reload(p) \/ PowerCycle(p) \/ PowerIsBack(p) \/ Return(p)
      PROVE  Withdrawal'
  BY <1>2, <1>3, OperationIs DEF Recovers
<1>4. ASSUME MarkAllUnavailable \/ MarkAllAvailable \/ Marked PROVE Withdrawal'
  BY <1>2, <1>4, HealthIs
<1>5. CASE Started \/ StartupReboot \/ Stop
  BY <1>2, <1>5, MainIs, StopIs
<1>6. CASE UNCHANGED vars
  <2>1. /\ UNCHANGED broker /\ UNCHANGED <<stage, left, job, covers, spoke, shown, mixed>>
    BY <1>6 DEF vars, process, work, broker
  <2>2. \A q, step : Owes(q, step)' <=> Owes(q, step)
    BY <2>1 DEF Owes
  <2>3. (SpokenFor => SpokenFor') /\ (Withdrawn => Withdrawn')
    BY <2>1, <2>2, SameTopics DEF SpokenFor, Withdrawn
  <2> QED BY <2>1, <2>3 DEF Withdrawal, AvailabilityIsWithdrawn
<1> QED
  BY <1>1, <1>3, <1>4, <1>5, <1>6, NextIs, WithdrawalJoin, WithdrawalMain, WithdrawalUpdate,
     WithdrawalEnd DEF Tasked

-----------------------------------------------------------------------------

LEMMA Fated == Spec => []Fates
<1>1. Init => Fates
  BY InitFates DEF Fates
<1>2. ASSUME IInv, Fates, [Next]_vars PROVE Fates'
  BY <1>2, MarksStep, PoweredStep, DiscoveryStep, WithdrawalStep DEF Fates
<1> QED BY <1>1, <1>2, Safe, PTL DEF Spec

(* While the bridge runs, a cover that is shown offline is one that        *)
(* checkHealth will put online again, or whose online is on its way,       *)
(* whatever was given up in between (app.go:548-587, manager.go:122-140,   *)
(* mqtt.go:12-28); but for a topic on which the broker mixed the order.    *)
THEOREM OfflineStaysMeant == Spec => []OfflineIsMeant
BY Safe, Fated, MarksMean, PTL DEF Fates

(* After a power cycle the plug is on, or the command for it is on its     *)
(* way: nobody else commands it in between (app.go:773-821).               *)
THEOREM PowerComesBack == Spec => []PlugEndsOn
BY Safe, Fated, PoweredMeans, PTL DEF Fates

(* A graceful shutdown clears every config that any registration has       *)
(* published, or has under way (manager.go:30-45, 105-118).                *)
THEOREM NoConfigIsLeft == Spec => []DiscoveryIsCleared
BY Fated, PTL DEF Fates, Discovery

(* A graceful shutdown leaves offline every cover that was not updated     *)
(* while CloseAll was at it (manager.go:105-118).                          *)
THEOREM OfflineAtTheEnd == Spec => []AvailabilityIsWithdrawn
BY Fated, PTL DEF Fates, Withdrawal
=============================================================================
