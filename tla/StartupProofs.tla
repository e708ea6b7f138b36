---------------------------- MODULE StartupProofs -----------------------------
(***************************************************************************)
(* Theorems about Startup.tla, for every period, number of tries, skew of  *)
(* the cores and hold-up of the tasks.                                     *)
(***************************************************************************)
EXTENDS StartupProperties, Integers, TLAPS

USE TimesAssumption, DelaysAssumption DEF TimesAssumption, DelaysAssumption

-----------------------------------------------------------------------------
(***************************************************************************)
(* Type correctness, together with where each task can be and what its     *)
(* place says of the services that can be found.                           *)
(***************************************************************************)
Places == {"off", "begin", "try", "wait", "drop", "up", "gaveup", "panicked"}

DriverInv ==
    /\ reached["driver"] = 0 /\ "driver" \notin pending
    /\ at["driver"] \in {"off", "begin", "up", "panicked"}
    /\ "Ethernet" \notin registered \cup refused => at["driver"] \in {"off", "begin"}
    /\ at["driver"] = "off" => "Ethernet" \notin registered

NetInv ==
    /\ at["net"] = "off" => reached["net"] = 0
    /\ at["net"] = "panicked" => "Network" \in refused
    /\ at["net"] = "up" => reached["net"] = 2
    /\ reached["net"] = 2 => at["net"] \in {"begin", "up"}
    /\ reached["net"] > 0 => "Ethernet" \in registered
    /\ reached["net"] = 0 /\ at["net"] = "drop" => "Ethernet" \in registered
    /\ \/ reached["net"] = 2
       \/ reached["net"] = 1 /\ at["net"] \notin {"begin", "panicked"}
       => "Network" \in registered

MirrorInv ==
    /\ reached["mirror"] < 2
    /\ at["mirror"] = "off" => reached["mirror"] = 0
    /\ reached["mirror"] = 1 => at["mirror"] \in {"begin", "up"}
    /\ at["mirror"] = "panicked" => "MirrorName" \in refused
    /\ reached["mirror"] = 1 \/ at["mirror"] \notin {"off", "begin", "panicked"}
       => "MirrorName" \in registered

\* The queries, their tickers and what is pending.
QueryInv ==
    \A t \in Tasks :
        /\ at[t] # "off" => NameServerUp
        /\ Querying(t) => left[t] > 0
        /\ at[t] = "try" => tries[t] < Tries
        /\ at[t] = "wait" => tries[t] > 0
        /\ at[t] \in {"off", "begin"} /\ reached[t] = 0 => t \notin pending

TypeInv == TypeOK /\ DriverInv /\ NetInv /\ MirrorInv /\ QueryInv

LEMMA TimesType ==
    /\ Period \in Nat /\ Period > 0 /\ Tries \in Nat /\ Tries > 0
    /\ Tries * Period \in Nat /\ Skew \in Nat /\ Slack \in Nat
OBVIOUS

LEMMA GoalFacts ==
    /\ Len(Goals("driver")) = 0 /\ Len(Goals("net")) = 2 /\ Len(Goals("mirror")) = 1
    /\ Goals("net")[1] = "Ethernet" /\ Goals("net")[2] = "MirrorName"
    /\ Goals("mirror")[1] = "Network"
BY DEF Goals

LEMMA OfferFacts ==
    /\ Offers("driver", 0) = {"Ethernet"}
    /\ Offers("net", 0) = {} /\ Offers("net", 1) = {"Network"} /\ Offers("net", 2) = {}
    /\ Offers("mirror", 0) = {"MirrorName"} /\ Offers("mirror", 1) = {}
    /\ \A t \in Tasks, n \in 0..2 : Offers(t, n) \subseteq Services
BY DEF Offers, Services, Tasks

LEMMA GoalOf ==
    ASSUME TypeOK
    PROVE  /\ reached["driver"] = 0 /\ reached["net"] \in 0..2 /\ reached["mirror"] \in 0..1
           /\ reached["net"] = 0 => Goal("net") = "Ethernet"
           /\ reached["net"] = 1 => Goal("net") = "MirrorName"
           /\ reached["mirror"] = 0 => Goal("mirror") = "Network"
<1>1. /\ reached["driver"] \in 0..2 /\ reached["net"] \in 0..2 /\ reached["mirror"] \in 0..2
      /\ reached["driver"] <= Len(Goals("driver"))
      /\ reached["mirror"] <= Len(Goals("mirror"))
  BY DEF TypeOK, Tasks
<1>2. reached["driver"] = 0 /\ reached["mirror"] \in 0..1
  <2>1. Len(Goals("driver")) = 0 /\ Len(Goals("mirror")) = 1
    BY GoalFacts
  <2>2. reached["driver"] <= 0 /\ reached["mirror"] <= 1
    BY <1>1, <2>1, Zenon
  <2>3. reached["driver"] \in 0..2 /\ reached["mirror"] \in 0..2
    BY <1>1
  <2>4. QED
    BY <2>2, <2>3
<1>3. /\ reached["net"] = 0 => Goal("net") = "Ethernet"
      /\ reached["net"] = 1 => Goal("net") = "MirrorName"
      /\ reached["mirror"] = 0 => Goal("mirror") = "Network"
  BY GoalFacts DEF Goal
<1>4. QED
  BY <1>1, <1>2, <1>3

\* What a step of task t leaves alone, task by task.
Others(t) ==
    \A u \in Tasks \ {t} :
        /\ at'[u] = at[u] /\ reached'[u] = reached[u] /\ tries'[u] = tries[u]
        /\ left'[u] = left[u] /\ slack'[u] = slack[u] /\ due'[u] = due[u]
        /\ u \in pending' <=> u \in pending

LEMMA DeployEffect ==
    ASSUME TypeOK, NEW t \in Tasks, Deploy(t)
    PROVE  /\ Others(t)
           /\ at[t] = "off" /\ at'[t] = "begin" /\ due[t] = 0
           /\ t = "driver" \/ NameServerUp
           /\ UNCHANGED <<reached, tries, left, pending, registered, refused, due, slack, age>>
BY DEF TypeOK, Deploy, Others

LEMMA BeginEffect ==
    ASSUME TypeOK, NEW t \in Tasks, Begin(t)
    PROVE  /\ Others(t)
           /\ at[t] = "begin"
           /\ registered' = registered \cup Offers(t, reached[t])
           /\ Offers(t, reached[t]) \cap refused = {}
           /\ IF reached[t] = Len(Goals(t))
              THEN at'[t] = "up" /\ tries'[t] = tries[t] /\ left'[t] = left[t]
                   /\ age'[t] = age[t]
              ELSE at'[t] = "try" /\ tries'[t] = 0 /\ left'[t] = Period /\ age'[t] = 0
           /\ \A u \in Tasks \ {t} : age'[u] = age[u]
           /\ UNCHANGED <<reached, pending, refused, due, slack>>
<1>1. UNCHANGED <<reached, pending, refused, due, slack>> /\ at[t] = "begin"
      /\ Offers(t, reached[t]) \cap refused = {}
      /\ registered' = registered \cup Offers(t, reached[t])
  BY DEF Begin
<1>2. CASE reached[t] = Len(Goals(t))
  <2>1. at' = [at EXCEPT ![t] = "up"] /\ UNCHANGED <<tries, left, age>>
    BY <1>2 DEF Begin
  <2>2. QED
    BY <1>1, <1>2, <2>1 DEF TypeOK, Others
<1>3. CASE reached[t] # Len(Goals(t))
  <2>1. /\ at' = [at EXCEPT ![t] = "try"] /\ tries' = [tries EXCEPT ![t] = 0]
        /\ left' = [left EXCEPT ![t] = Period] /\ age' = [age EXCEPT ![t] = 0]
    BY <1>3 DEF Begin
  <2>2. QED
    BY <1>1, <1>3, <2>1 DEF TypeOK, Others
<1>4. QED
  BY <1>2, <1>3

LEMMA TypeInit == Init => TypeInv
<1>. SUFFICES ASSUME Init PROVE TypeInv
  OBVIOUS
<1>1. TypeOK
  BY GoalFacts, TimesType DEF Init, TypeOK, Tasks
<1>2. DriverInv /\ NetInv /\ MirrorInv /\ QueryInv
  BY DEF Init, DriverInv, NetInv, MirrorInv, QueryInv, Tasks, Querying
<1>3. QED
  BY <1>1, <1>2 DEF TypeInv

LEMMA RegisterFailsEffect ==
    ASSUME TypeOK, NEW t \in Tasks, RegisterFails(t)
    PROVE  /\ Others(t)
           /\ at[t] = "begin" /\ at'[t] = "panicked"
           /\ Offers(t, reached[t]) \cap refused # {}
           /\ UNCHANGED <<reached, tries, left, pending, registered, refused, due, slack, age>>
BY DEF TypeOK, RegisterFails, Others

LEMMA FoundEffect ==
    ASSUME TypeOK, NEW t \in Tasks, Found(t)
    PROVE  /\ Others(t)
           /\ at[t] = "try" /\ at'[t] = "drop" /\ Goal(t) \in registered
           /\ UNCHANGED <<reached, tries, left, pending, registered, refused, due, slack, age>>
BY DEF TypeOK, Found, Others

LEMMA MissingEffect ==
    ASSUME TypeOK, NEW t \in Tasks, Missing(t)
    PROVE  /\ Others(t)
           /\ at[t] = "try" /\ at'[t] = "wait" /\ Goal(t) \notin registered
           /\ tries'[t] = tries[t] + 1
           /\ UNCHANGED <<reached, left, pending, registered, refused, due, slack, age>>
BY DEF TypeOK, Missing, Others

LEMMA WaitEffect ==
    ASSUME TypeOK, NEW t \in Tasks, Wait(t)
    PROVE  /\ Others(t)
           /\ at[t] = "wait" /\ t \in pending /\ t \notin pending'
           /\ tries[t] = Tries => at'[t] = "gaveup"
           /\ tries[t] # Tries => at'[t] = "try"
           /\ UNCHANGED <<reached, tries, left, registered, refused, due, slack, age>>
<1>1. UNCHANGED <<reached, tries, left, registered, refused, due, slack, age>>
      /\ at[t] = "wait" /\ t \in pending /\ pending' = pending \ {t}
  BY DEF Wait
<1>2. /\ tries[t] = Tries => at' = [at EXCEPT ![t] = "gaveup"]
      /\ tries[t] # Tries => at' = [at EXCEPT ![t] = "try"]
  BY DEF Wait, OutOfTries
<1>3. QED
  BY <1>1, <1>2 DEF TypeOK, Others

LEMMA DropEffect ==
    ASSUME TypeOK, NEW t \in Tasks, Drop(t)
    PROVE  /\ Others(t)
           /\ at[t] = "drop" /\ at'[t] = "begin" /\ reached'[t] = reached[t] + 1
           /\ UNCHANGED <<tries, left, pending, registered, refused, due, slack, age>>
BY DEF TypeOK, Drop, Others

LEMMA ElapseEffect ==
    ASSUME TypeOK, Elapse
    PROVE  /\ \A t \in Tasks :
                 /\ CanGo(t) => slack[t] > 0 /\ slack'[t] = slack[t] - 1
                 /\ ~CanGo(t) => slack'[t] = slack[t]
                 /\ due[t] = 0 => due'[t] = 0
                 /\ due[t] > 0 => due'[t] = due[t] - 1
                 /\ Querying(t) /\ left[t] = 1 => left'[t] = Period /\ t \in pending'
                 /\ Querying(t) /\ left[t] > 1 =>
                       left'[t] = left[t] - 1 /\ (t \in pending' <=> t \in pending)
                 /\ ~Querying(t) => (t \in pending' <=> t \in pending)
                 /\ left'[t] \in 0..Period
                 /\ Querying(t) /\ age[t] < Tries * Period => age'[t] = age[t] + 1
                 /\ ~(Querying(t) /\ age[t] < Tries * Period) => age'[t] = age[t]
           /\ UNCHANGED <<at, reached, tries, registered, refused>>
<1>1. UNCHANGED <<at, reached, tries, registered, refused>>
  BY DEF Elapse
<1>. SUFFICES ASSUME NEW t \in Tasks
              PROVE  /\ CanGo(t) => slack[t] > 0 /\ slack'[t] = slack[t] - 1
                     /\ ~CanGo(t) => slack'[t] = slack[t]
                     /\ due[t] = 0 => due'[t] = 0
                     /\ due[t] > 0 => due'[t] = due[t] - 1
                     /\ Querying(t) /\ left[t] = 1 => left'[t] = Period /\ t \in pending'
                     /\ Querying(t) /\ left[t] > 1 =>
                           left'[t] = left[t] - 1 /\ (t \in pending' <=> t \in pending)
                     /\ ~Querying(t) => (t \in pending' <=> t \in pending)
                     /\ left'[t] \in 0..Period
                     /\ Querying(t) /\ age[t] < Tries * Period => age'[t] = age[t] + 1
                     /\ ~(Querying(t) /\ age[t] < Tries * Period) => age'[t] = age[t]
  BY <1>1
<1>2. /\ CanGo(t) => slack[t] > 0
      /\ slack'[t] = IF CanGo(t) THEN slack[t] - 1 ELSE slack[t]
      /\ due'[t] = Decrement(due[t])
      /\ left'[t] = IF Querying(t) /\ left[t] = 1 THEN Period ELSE Decrement(left[t])
      /\ t \in pending' <=> t \in pending \/ (Querying(t) /\ left[t] = 1)
      /\ age'[t] = IF Querying(t) /\ age[t] < Tries * Period THEN age[t] + 1 ELSE age[t]
  BY DEF Elapse
<1>3. due[t] \in Nat /\ left[t] \in 0..Period
  BY DEF TypeOK
<1>4. /\ due[t] = 0 => due'[t] = 0
      /\ due[t] > 0 => due'[t] = due[t] - 1
      /\ left[t] = 0 => Decrement(left[t]) = 0
      /\ left[t] > 0 => Decrement(left[t]) = left[t] - 1
  BY <1>2, <1>3 DEF Decrement
<1>5. left'[t] \in 0..Period
  BY <1>2, <1>3, <1>4, TimesType
<1>6. /\ Querying(t) /\ left[t] = 1 => left'[t] = Period /\ t \in pending'
      /\ Querying(t) /\ left[t] > 1 =>
            left'[t] = left[t] - 1 /\ (t \in pending' <=> t \in pending)
      /\ ~Querying(t) => (t \in pending' <=> t \in pending)
  BY <1>2, <1>3, <1>4
<1>7. QED
  BY <1>2, <1>4, <1>5, <1>6

LEMMA DeployKeepsType ==
    ASSUME TypeInv, NEW t \in Tasks, Deploy(t)
    PROVE  TypeInv'
<1>. TypeOK /\ DriverInv /\ NetInv /\ MirrorInv /\ QueryInv
  BY DEF TypeInv
<1>1. TypeOK'
  BY DEF TypeOK, Deploy
<1>2. DriverInv'
  BY DeployEffect DEF DriverInv, Others, Tasks
<1>3. NetInv'
  BY DeployEffect DEF NetInv, Others, Tasks
<1>4. MirrorInv'
  BY DeployEffect DEF MirrorInv, Others, Tasks
<1>5. QueryInv'
  BY DeployEffect DEF QueryInv, Others, Tasks, Querying, NameServerUp
<1>6. QED
  BY <1>1, <1>2, <1>3, <1>4, <1>5 DEF TypeInv

LEMMA BeginKeepsType ==
    ASSUME TypeInv, NEW t \in Tasks, Begin(t)
    PROVE  TypeInv'
<1>. TypeOK /\ DriverInv /\ NetInv /\ MirrorInv /\ QueryInv
  BY DEF TypeInv
<1>1. TypeOK'
  <2>1. registered' \subseteq Services
    BY OfferFacts DEF TypeOK, Begin
  <2>2. UNCHANGED <<reached, pending, refused, due, slack>>
    BY DEF Begin
  <2>3. CASE UNCHANGED <<tries, left, age>> /\ at' = [at EXCEPT ![t] = "up"]
    BY <2>1, <2>2, <2>3 DEF TypeOK
  <2>4. CASE /\ at' = [at EXCEPT ![t] = "try"] /\ tries' = [tries EXCEPT ![t] = 0]
             /\ left' = [left EXCEPT ![t] = Period] /\ age' = [age EXCEPT ![t] = 0]
    BY <2>1, <2>2, <2>4, TimesType DEF TypeOK
  <2>5. QED
    BY <2>3, <2>4 DEF Begin
<1>2. /\ reached["driver"] = 0 /\ reached["net"] \in 0..2 /\ reached["mirror"] \in 0..1
      /\ t = "driver" \/ t = "net" \/ t = "mirror"
  BY GoalOf DEF Tasks
<1>3. registered' = registered \cup Offers(t, reached[t])
  BY BeginEffect
<1>4. DriverInv'
  <2>1. t # "driver" => ("Ethernet" \in registered' <=> "Ethernet" \in registered)
    BY <1>2, <1>3, OfferFacts
  <2>2. t = "driver" => at'[t] = "up" /\ "Ethernet" \in registered'
    BY <1>2, <1>3, BeginEffect, OfferFacts, GoalFacts
  <2>3. QED
    BY <1>2, <2>1, <2>2, BeginEffect DEF DriverInv, Others, Tasks
<1>5. NetInv'
  <2>1. registered \subseteq registered'
    BY <1>3
  <2>2. ASSUME t = "net"
        PROVE  /\ reached[t] = 2 => at'[t] = "up"
               /\ reached[t] # 2 => at'[t] = "try"
               /\ reached[t] = 1 => "Network" \in registered'
    <3>1. Len(Goals(t)) = 2 /\ Offers(t, 1) = {"Network"}
      BY <2>2, GoalFacts, OfferFacts
    <3>2. QED
      BY <1>3, <3>1, BeginEffect
  <2>3. QED
    BY <1>2, <2>1, <2>2, BeginEffect DEF NetInv, Others, Tasks
<1>6. MirrorInv'
  <2>1. registered \subseteq registered'
    BY <1>3
  <2>2. ASSUME t = "mirror"
        PROVE  /\ reached[t] = 1 => at'[t] = "up"
               /\ reached[t] # 1 => at'[t] = "try"
               /\ reached[t] = 0 => "MirrorName" \in registered'
    <3>1. Len(Goals(t)) = 1 /\ Offers(t, 0) = {"MirrorName"}
      BY <2>2, GoalFacts, OfferFacts
    <3>2. QED
      BY <1>3, <3>1, BeginEffect
  <2>3. QED
    BY <1>2, <2>1, <2>2, BeginEffect DEF MirrorInv, Others, Tasks
<1>7. QueryInv'
  BY BeginEffect, TimesType DEF QueryInv, Others, Tasks, Querying, NameServerUp
<1>8. QED
  BY <1>1, <1>4, <1>5, <1>6, <1>7 DEF TypeInv

LEMMA QueryKeepsType ==
    ASSUME TypeInv, NEW t \in Tasks,
           RegisterFails(t) \/ Found(t) \/ Missing(t) \/ Wait(t) \/ Drop(t)
    PROVE  TypeInv'
<1>. TypeOK /\ DriverInv /\ NetInv /\ MirrorInv /\ QueryInv
  BY DEF TypeInv
<1>1. /\ reached["driver"] = 0 /\ reached["net"] \in 0..2 /\ reached["mirror"] \in 0..1
      /\ t = "driver" \/ t = "net" \/ t = "mirror"
  BY GoalOf DEF Tasks
<1>2. CASE RegisterFails(t)
  <2>1. TypeOK'
    BY <1>2 DEF TypeOK, RegisterFails
  <2>2. /\ t = "driver" => "Ethernet" \in refused
        /\ t = "net" => reached[t] = 1 /\ "Network" \in refused
        /\ t = "mirror" => reached[t] = 0 /\ "MirrorName" \in refused
    <3>1. CASE t = "driver"
      BY <1>1, <1>2, <3>1, RegisterFailsEffect, OfferFacts
    <3>2. CASE t = "net"
      <4>1. reached[t] = 0 \/ reached[t] = 1 \/ reached[t] = 2
        BY <1>1, <3>2
      <4>2. QED
        BY <1>2, <3>2, <4>1, RegisterFailsEffect, OfferFacts
    <3>3. CASE t = "mirror"
      <4>1. reached[t] = 0 \/ reached[t] = 1
        BY <1>1, <3>3
      <4>2. QED
        BY <1>2, <3>3, <4>1, RegisterFailsEffect, OfferFacts
    <3>4. QED
      BY <1>1, <3>1, <3>2, <3>3
  <2>3. DriverInv'
    BY <1>2, <2>2, RegisterFailsEffect DEF DriverInv, Others, Tasks
  <2>4. NetInv'
    BY <1>2, <2>2, RegisterFailsEffect DEF NetInv, Others, Tasks
  <2>5. MirrorInv'
    BY <1>2, <2>2, RegisterFailsEffect DEF MirrorInv, Others, Tasks
  <2>6. QueryInv'
    BY <1>2, RegisterFailsEffect DEF QueryInv, Others, Tasks, Querying, NameServerUp
  <2>7. QED
    BY <2>1, <2>3, <2>4, <2>5, <2>6 DEF TypeInv
<1>3. CASE Found(t)
  <2>1. TypeOK'
    BY <1>3 DEF TypeOK, Found
  <2>2. /\ t # "driver"
        /\ t = "net" => /\ reached[t] = 0 => "Ethernet" \in registered
                        /\ reached[t] # 2
    BY <1>1, <1>3, FoundEffect, GoalOf DEF DriverInv, NetInv
  <2>3. DriverInv'
    BY <1>3, <2>2, FoundEffect DEF DriverInv, Others, Tasks
  <2>4. NetInv'
    BY <1>3, <2>2, FoundEffect DEF NetInv, Others, Tasks
  <2>5. MirrorInv'
    BY <1>3, FoundEffect DEF MirrorInv, Others, Tasks
  <2>6. QueryInv'
    BY <1>3, FoundEffect DEF QueryInv, Others, Tasks, Querying, NameServerUp
  <2>7. QED
    BY <2>1, <2>3, <2>4, <2>5, <2>6 DEF TypeInv
<1>4. CASE Missing(t)
  <2>1. TypeOK'
    <3>1. tries[t] + 1 \in 0..Tries
      <4>1. tries[t] \in 0..Tries /\ tries[t] < Tries
        BY <1>4, MissingEffect DEF QueryInv, TypeOK
      <4>2. QED
        BY <4>1, TimesType
    <3>2. QED
      BY <1>4, <3>1 DEF TypeOK, Missing
  <2>3. DriverInv'
    BY <1>4, MissingEffect DEF DriverInv, Others, Tasks
  <2>4. NetInv'
    BY <1>4, MissingEffect DEF NetInv, Others, Tasks
  <2>5. MirrorInv'
    BY <1>4, MissingEffect DEF MirrorInv, Others, Tasks
  <2>6. QueryInv'
    <3>1. tries[t] \in 0..Tries
      BY DEF TypeOK
    <3>2. tries'[t] > 0
      BY <1>4, <3>1, MissingEffect, TimesType
    <3>3. QED
      BY <1>4, <3>2, MissingEffect DEF QueryInv, Others, Tasks, Querying, NameServerUp
  <2>7. QED
    BY <2>1, <2>3, <2>4, <2>5, <2>6 DEF TypeInv
<1>5. CASE Wait(t)
  <2>1. TypeOK'
    BY <1>5 DEF TypeOK, Wait
  <2>2. at'[t] \in {"try", "gaveup"} /\ t # "driver"
    BY <1>5, WaitEffect DEF DriverInv
  <2>3. DriverInv'
    BY <1>5, <2>2, WaitEffect DEF DriverInv, Others, Tasks
  <2>4. NetInv'
    BY <1>5, <2>2, WaitEffect DEF NetInv, Others, Tasks
  <2>5. MirrorInv'
    BY <1>5, <2>2, WaitEffect DEF MirrorInv, Others, Tasks
  <2>6. QueryInv'
    <3>1. tries[t] \in 0..Tries
      BY DEF TypeOK
    <3>2. at'[t] = "try" => tries'[t] < Tries
      BY <1>5, <3>1, WaitEffect, TimesType
    <3>3. QED
      BY <1>5, <2>2, <3>2, WaitEffect DEF QueryInv, Others, Tasks, Querying, NameServerUp
  <2>7. QED
    BY <2>1, <2>3, <2>4, <2>5, <2>6 DEF TypeInv
<1>6. CASE Drop(t)
  <2>1. /\ t # "driver"
        /\ t = "net" => reached[t] \in 0..1
        /\ t = "mirror" => reached[t] = 0
    BY <1>1, <1>6, DropEffect DEF DriverInv, NetInv, MirrorInv
  <2>2. TypeOK'
    <3>1. reached[t] + 1 <= Len(Goals(t)) /\ reached[t] + 1 \in 0..2
      BY <1>1, <2>1, GoalFacts
    <3>2. QED
      BY <1>6, <3>1 DEF TypeOK, Drop
  <2>3. DriverInv'
    BY <1>6, <2>1, DropEffect DEF DriverInv, Others, Tasks
  <2>4. NetInv'
    BY <1>1, <1>6, <2>1, DropEffect DEF NetInv, Others, Tasks
  <2>5. MirrorInv'
    BY <1>1, <1>6, <2>1, DropEffect DEF MirrorInv, Others, Tasks
  <2>6. QueryInv'
    BY <1>1, <1>6, <2>1, DropEffect DEF QueryInv, Others, Tasks, Querying, NameServerUp
  <2>7. QED
    BY <2>2, <2>3, <2>4, <2>5, <2>6 DEF TypeInv
<1>7. QED
  BY <1>2, <1>3, <1>4, <1>5, <1>6

LEMMA ElapseKeepsType ==
    ASSUME TypeInv, Elapse
    PROVE  TypeInv'
<1>. TypeOK /\ DriverInv /\ NetInv /\ MirrorInv /\ QueryInv
  BY DEF TypeInv
<1>1. TypeOK'
  <2>1. /\ DOMAIN slack' = Tasks /\ DOMAIN due' = Tasks /\ DOMAIN left' = Tasks
        /\ DOMAIN age' = Tasks /\ slack' = [t \in Tasks |-> slack'[t]]
        /\ due' = [t \in Tasks |-> due'[t]] /\ left' = [t \in Tasks |-> left'[t]]
        /\ age' = [t \in Tasks |-> age'[t]]
    BY DEF Elapse
  <2>2. ASSUME NEW t \in Tasks
        PROVE  /\ slack'[t] \in 0..Slack /\ due'[t] \in 0..Skew
               /\ left'[t] \in 0..Period /\ age'[t] \in 0..(Tries * Period)
    <3>1. /\ slack[t] \in 0..Slack /\ due[t] \in 0..Skew /\ age[t] \in 0..(Tries * Period)
      BY DEF TypeOK
    <3>2. slack'[t] \in 0..Slack
      BY <3>1, ElapseEffect, TimesType
    <3>3. due'[t] \in 0..Skew
      BY <3>1, ElapseEffect, TimesType
    <3>4. age'[t] \in 0..(Tries * Period)
      BY <3>1, ElapseEffect, TimesType
    <3>5. QED
      BY <3>2, <3>3, <3>4, ElapseEffect
  <2>3. pending' \subseteq Tasks
    BY DEF Elapse, TypeOK
  <2>4. UNCHANGED <<at, reached, tries, registered, refused>>
    BY ElapseEffect
  <2>5. /\ slack' \in [Tasks -> 0..Slack] /\ due' \in [Tasks -> 0..Skew]
        /\ left' \in [Tasks -> 0..Period] /\ age' \in [Tasks -> 0..(Tries * Period)]
    BY <2>1, <2>2
  <2>6. QED
    BY <2>3, <2>4, <2>5 DEF TypeOK
<1>2. DriverInv'
  BY ElapseEffect DEF DriverInv, Tasks, Querying
<1>3. NetInv' /\ MirrorInv'
  BY ElapseEffect DEF NetInv, MirrorInv
<1>4. QueryInv'
  <2>1. ASSUME NEW t \in Tasks, Querying(t)
        PROVE  left'[t] > 0
    <3>1. left[t] \in 1..Period
      BY <2>1 DEF TypeOK, QueryInv
    <3>2. QED
      BY <2>1, <3>1, ElapseEffect, TimesType
  <2>2. QED
    BY <2>1, ElapseEffect DEF QueryInv, Querying, NameServerUp
<1>5. QED
  BY <1>1, <1>2, <1>3, <1>4 DEF TypeInv

LEMMA TypeStep == TypeInv /\ [Next]_vars => TypeInv'
<1>. SUFFICES ASSUME TypeInv, [Next]_vars PROVE TypeInv'
  OBVIOUS
<1>1. CASE \E t \in Tasks : Go(t)
  BY <1>1, DeployKeepsType, BeginKeepsType, QueryKeepsType DEF Go
<1>2. CASE Elapse
  BY <1>2, ElapseKeepsType
<1>3. CASE UNCHANGED vars
  <2>1. TypeOK'
    BY <1>3 DEF TypeInv, TypeOK, vars
  <2>2. DriverInv' /\ NetInv' /\ MirrorInv'
    BY <1>3 DEF TypeInv, DriverInv, NetInv, MirrorInv, vars
  <2>3. QueryInv'
    BY <1>3 DEF TypeInv, QueryInv, Querying, NameServerUp, vars
  <2>4. QED
    BY <2>1, <2>2, <2>3 DEF TypeInv
<1>4. QED
  BY <1>1, <1>2, <1>3 DEF Next

LEMMA TypeCorrectStrong == Spec => []TypeInv
BY TypeInit, TypeStep, PTL DEF Spec

\* Places, counters and clocks of the tasks stay in their ranges; no task looks for a
\* goal beyond its last.
THEOREM TypeCorrect == Spec => []TypeOK
<1>1. TypeInv => TypeOK
  BY DEF TypeInv
<1>2. QED
  BY <1>1, TypeCorrectStrong, PTL

-----------------------------------------------------------------------------
(***************************************************************************)
(* The clock of a query.  It has spent a period for each wait that is over *)
(* and one for a tick that is pending, be it left over from the query      *)
(* before, and the part of the period that is running.                     *)
(***************************************************************************)
Waits(t) == IF at[t] = "wait" THEN tries[t] - 1 ELSE tries[t]

Units(n) == n * Period

Leftover(t) == IF t \in pending THEN Period ELSE 0

Spent(t) == Units(Waits(t)) + Leftover(t) + (Period - left[t])

LEMMA UnitsFacts ==
    /\ Units(0) = 0
    /\ \A n \in Nat : Units(n) \in Nat /\ Units(n + 1) = Units(n) + Period
    /\ Units(Tries) = Tries * Period /\ Units(Tries - 1) = (Tries - 1) * Period
    /\ Units(Tries) = Units(Tries - 1) + Period /\ Units(Tries - 1) \in Nat
<1>1. Units(0) = 0
  BY DEF Units
<1>2. ASSUME NEW n \in Nat
      PROVE  Units(n) \in Nat /\ Units(n + 1) = Units(n) + Period
  BY DEF Units
<1>3. Tries - 1 \in Nat /\ (Tries - 1) + 1 = Tries
  OBVIOUS
<1>4. Units(Tries) = Tries * Period /\ Units(Tries - 1) = (Tries - 1) * Period
  BY DEF Units
<1>5. Units(Tries) = Units(Tries - 1) + Period /\ Units(Tries - 1) \in Nat
  BY <1>2, <1>3
<1>6. QED
  BY <1>1, <1>2, <1>4, <1>5

LEMMA SpentType ==
    ASSUME TypeInv, NEW t \in Tasks, Querying(t)
    PROVE  /\ left[t] \in 1..Period /\ Waits(t) \in Nat /\ Units(Waits(t)) \in Nat
           /\ Leftover(t) \in {0, Period} /\ Spent(t) \in Nat /\ Leftover(t) <= Spent(t)
<1>1. left[t] \in 1..Period /\ tries[t] \in Nat /\ (at[t] = "wait" => tries[t] > 0)
  BY DEF TypeInv, TypeOK, QueryInv
<1>2. Waits(t) \in Nat
  BY <1>1 DEF Waits
<1>3. Units(Waits(t)) \in Nat
  BY <1>2, UnitsFacts
<1>4. Leftover(t) \in {0, Period}
  BY DEF Leftover
<1>5. Period - left[t] \in Nat
  BY <1>1
<1>6. QED
  BY <1>1, <1>2, <1>3, <1>4, <1>5 DEF Spent

LEMMA OthersSpend ==
    ASSUME NEW t \in Tasks, Others(t), NEW u \in Tasks \ {t}
    PROVE  /\ Spent(u)' = Spent(u) /\ Leftover(u)' = Leftover(u)
           /\ Querying(u)' = Querying(u)
<1>1. at'[u] = at[u] /\ tries'[u] = tries[u] /\ left'[u] = left[u]
      /\ (u \in pending' <=> u \in pending)
  BY DEF Others
<1>2. Querying(u)' = Querying(u)
  BY <1>1 DEF Querying
<1>3. Waits(u)' = Waits(u) /\ Leftover(u)' = Leftover(u)
  BY <1>1 DEF Waits, Leftover
<1>4. Spent(u)' = Spent(u)
  BY <1>1, <1>3 DEF Spent, Units
<1>5. QED
  BY <1>2, <1>3, <1>4

\* Only time spends time; beginning a query forgets all but a tick left over.
LEMMA QuerySpends ==
    ASSUME TypeInv, NEW t \in Tasks, Querying(t)', Go(t)
    PROVE  /\ Begin(t) \/ Found(t) \/ Missing(t) \/ Wait(t)
           /\ Begin(t) => Spent(t)' = Leftover(t)
           /\ ~Begin(t) => Spent(t)' = Spent(t) /\ Querying(t)
<1>0. TypeOK
  BY DEF TypeInv
<1>1. CASE Begin(t)
  <2>1. at'[t] = "try" /\ tries'[t] = 0 /\ left'[t] = Period /\ pending' = pending
    BY <1>0, <1>1, BeginEffect DEF Querying
  <2>2. Waits(t)' = 0 /\ Leftover(t)' = Leftover(t)
    BY <2>1 DEF Waits, Leftover
  <2>3. Units(Waits(t))' = 0
    BY <2>2, UnitsFacts DEF Units
  <2>4. QED
    BY <1>1, <2>1, <2>2, <2>3 DEF Spent, Leftover
<1>2. CASE Found(t)
  <2>1. at[t] = "try" /\ at'[t] = "drop" /\ UNCHANGED <<tries, left, pending>>
    BY <1>0, <1>2, FoundEffect
  <2>2. Waits(t)' = Waits(t) /\ Leftover(t)' = Leftover(t)
    BY <2>1 DEF Waits, Leftover
  <2>3. QED
    BY <1>2, <2>1, <2>2 DEF Spent, Units, Querying, Begin
<1>3. CASE Missing(t)
  <2>1. at[t] = "try" /\ at'[t] = "wait" /\ tries'[t] = tries[t] + 1
        /\ UNCHANGED <<left, pending>>
    BY <1>0, <1>3, MissingEffect
  <2>2. tries[t] \in Nat
    BY <1>0 DEF TypeOK
  <2>3. Waits(t)' = Waits(t) /\ Leftover(t)' = Leftover(t)
    BY <2>1, <2>2 DEF Waits, Leftover
  <2>4. QED
    BY <1>3, <2>1, <2>3 DEF Spent, Units, Querying, Begin
<1>4. CASE Wait(t)
  <2>1. at[t] = "wait" /\ at'[t] = "try" /\ t \in pending /\ t \notin pending'
        /\ UNCHANGED <<tries, left>>
    BY <1>0, <1>4, WaitEffect DEF Querying
  <2>2. Querying(t)
    BY <2>1 DEF Querying
  <2>3. Waits(t) \in Nat /\ left[t] \in 1..Period
    BY <2>2, SpentType
  <2>4. tries[t] = Waits(t) + 1 /\ Waits(t)' = tries[t]
    BY <2>1, <2>3 DEF Waits, TypeInv, TypeOK
  <2>5. Leftover(t) = Period /\ Leftover(t)' = 0
    BY <2>1 DEF Leftover
  <2>6. Units(Waits(t))' = Units(Waits(t)) + Period /\ Units(Waits(t)) \in Nat
    BY <2>3, <2>4, UnitsFacts DEF Units
  <2>7. Spent(t)' = Spent(t)
    BY <2>1, <2>3, <2>5, <2>6 DEF Spent
  <2>8. QED
    BY <1>4, <2>1, <2>2, <2>7 DEF Begin
<1>5. ~Deploy(t) /\ ~RegisterFails(t) /\ ~Drop(t)
  BY <1>0, DeployEffect, RegisterFailsEffect, DropEffect DEF Querying
<1>6. QED
  BY <1>1, <1>2, <1>3, <1>4, <1>5 DEF Go

LEMMA ElapseSpends ==
    ASSUME TypeInv, Elapse, NEW t \in Tasks, Querying(t)
    PROVE  Spent(t)' \in Int /\ Spent(t)' <= Spent(t) + 1
<1>0. TypeOK
  BY DEF TypeInv
<1>1. left[t] \in 1..Period /\ Units(Waits(t)) \in Nat /\ Leftover(t) \in {0, Period}
  BY SpentType
<1>2. Waits(t)' = Waits(t) /\ Units(Waits(t))' = Units(Waits(t))
  BY <1>0, ElapseEffect DEF Waits, Units
<1>3. CASE left[t] = 1
  <2>1. left'[t] = Period /\ t \in pending'
    BY <1>0, <1>3, ElapseEffect
  <2>2. Leftover(t)' = Period
    BY <2>1 DEF Leftover
  <2>3. QED
    BY <1>1, <1>2, <1>3, <2>1, <2>2 DEF Spent
<1>4. CASE left[t] > 1
  <2>1. left'[t] = left[t] - 1 /\ (t \in pending' <=> t \in pending)
    BY <1>0, <1>4, ElapseEffect
  <2>2. Leftover(t)' = Leftover(t)
    BY <2>1 DEF Leftover
  <2>3. QED
    BY <1>1, <1>2, <2>1, <2>2 DEF Spent
<1>5. QED
  BY <1>1, <1>3, <1>4

-----------------------------------------------------------------------------
(***************************************************************************)
(* A query is as old as the time it has spent, but for one period, by which*)
(* a tick left over deceives it.                                           *)
(***************************************************************************)
LateInv ==
    \A t \in Tasks :
        /\ Querying(t) => age[t] + Period >= Spent(t) \/ age[t] = Tries * Period
        /\ at[t] = "gaveup" => age[t] >= (Tries - 1) * Period

LEMMA LateStep == TypeInv /\ LateInv /\ [Next]_vars => LateInv'
<1>. SUFFICES ASSUME TypeInv, LateInv, [Next]_vars PROVE LateInv'
  OBVIOUS
<1>0. TypeOK
  BY DEF TypeInv
<1>1. ASSUME NEW t \in Tasks, Go(t)
      PROVE  LateInv'
  <2>1. Others(t)
    BY <1>0, <1>1, DeployEffect, BeginEffect, RegisterFailsEffect, FoundEffect,
       MissingEffect, WaitEffect, DropEffect DEF Go
  <2>2. \A u \in Tasks \ {t} : age'[u] = age[u]
    BY <1>0, <1>1, DeployEffect, BeginEffect, RegisterFailsEffect, FoundEffect,
       MissingEffect, WaitEffect, DropEffect DEF Go
  <2>3. ASSUME NEW u \in Tasks \ {t}
        PROVE  /\ Querying(u)' => age'[u] + Period >= Spent(u)' \/ age'[u] = Tries * Period
               /\ at'[u] = "gaveup" => age'[u] >= (Tries - 1) * Period
    BY <2>1, <2>2, OthersSpend DEF LateInv, Others
  <2>4. Querying(t)' => age'[t] + Period >= Spent(t)' \/ age'[t] = Tries * Period
    <3>1. CASE Begin(t) /\ Querying(t)'
      <4>1. age'[t] = 0
        BY <1>0, <3>1, BeginEffect DEF Querying
      <4>2. Spent(t)' = Leftover(t) /\ Leftover(t) <= Period
        BY <1>1, <3>1, QuerySpends, TimesType DEF Leftover
      <4>3. QED
        BY <4>1, <4>2
    <3>2. CASE ~Begin(t) /\ Querying(t)'
      <4>1. Spent(t)' = Spent(t) /\ Querying(t) /\ (Found(t) \/ Missing(t) \/ Wait(t))
        BY <1>1, <3>2, QuerySpends
      <4>2. age' = age
        BY <1>0, <4>1, FoundEffect, MissingEffect, WaitEffect
      <4>3. QED
        BY <4>1, <4>2 DEF LateInv
    <3>3. QED
      BY <3>1, <3>2
  <2>5. at'[t] = "gaveup" => age'[t] >= (Tries - 1) * Period
    <3>. SUFFICES ASSUME at'[t] = "gaveup" PROVE age'[t] >= (Tries - 1) * Period
      OBVIOUS
    <3>1. Wait(t) /\ tries[t] = Tries
      BY <1>0, <1>1, DeployEffect, BeginEffect, RegisterFailsEffect, FoundEffect,
         MissingEffect, WaitEffect, DropEffect DEF Go
    <3>2. age' = age /\ at[t] = "wait" /\ t \in pending
      BY <1>0, <3>1, WaitEffect
    <3>3. Waits(t) = Tries - 1 /\ Leftover(t) = Period /\ Querying(t)
      BY <3>1, <3>2 DEF Waits, Leftover, Querying
    <3>4. Spent(t) >= Units(Tries - 1) + Period
      BY <3>3, SpentType, UnitsFacts DEF Spent
    <3>5. age[t] \in Nat
      BY <1>0 DEF TypeOK
    <3>6. age[t] + Period >= Spent(t) \/ age[t] = Tries * Period
      BY <3>3 DEF LateInv
    <3>7. Spent(t) \in Nat
      BY <3>3, SpentType
    <3>8. age[t] >= Units(Tries - 1)
      BY <3>4, <3>5, <3>6, <3>7, UnitsFacts, TimesType
    <3>9. QED
      BY <3>2, <3>8, UnitsFacts
  <2>6. QED
    BY <2>3, <2>4, <2>5 DEF LateInv
<1>2. CASE Elapse
  <2>1. ASSUME NEW t \in Tasks, Querying(t)
        PROVE  age'[t] + Period >= Spent(t)' \/ age'[t] = Tries * Period
    <3>1. age[t] \in 0..(Tries * Period) /\ Spent(t) \in Nat
      BY <1>0, <2>1, SpentType DEF TypeOK
    <3>2. Spent(t)' \in Int /\ Spent(t)' <= Spent(t) + 1
      BY <1>2, <2>1, ElapseSpends
    <3>3. age[t] + Period >= Spent(t) \/ age[t] = Tries * Period
      BY <2>1 DEF LateInv
    <3>4. CASE age[t] = Tries * Period
      <4>1. age'[t] = age[t]
        BY <1>0, <1>2, <3>4, TimesType, ElapseEffect
      <4>2. QED
        BY <3>4, <4>1
    <3>5. CASE age[t] # Tries * Period
      <4>1. age[t] < Tries * Period
        BY <3>1, <3>5, TimesType
      <4>2. age'[t] = age[t] + 1
        BY <1>0, <1>2, <2>1, <4>1, ElapseEffect
      <4>3. QED
        BY <3>1, <3>2, <3>3, <3>5, <4>2, TimesType
    <3>6. QED
      BY <3>4, <3>5
  <2>2. ASSUME NEW t \in Tasks, at[t] = "gaveup"
        PROVE  age'[t] = age[t]
    BY <1>0, <1>2, <2>2, ElapseEffect DEF Querying
  <2>3. at' = at
    BY <1>0, <1>2, ElapseEffect
  <2>4. QED
    BY <2>1, <2>2, <2>3 DEF LateInv, Querying
<1>3. CASE UNCHANGED vars
  BY <1>3 DEF vars, LateInv, Querying, Spent, Waits, Units, Leftover
<1>4. QED
  BY <1>1, <1>2, <1>3 DEF Next

\* No query gives up before Tries - 1 periods have passed, whatever else happens: a
\* tick that an earlier query left over costs it no more than one period.
THEOREM NoneGivesUpEarly == Spec => []GivesUpLate
<1>1. Init => LateInv
  BY DEF Init, LateInv, Querying
<1>2. LateInv => GivesUpLate
  BY DEF LateInv, GivesUpLate
<1>3. QED
  BY <1>1, <1>2, TypeCorrectStrong, LateStep, PTL DEF Spec

-----------------------------------------------------------------------------
(***************************************************************************)
(* How far away what a query looks for can be: the units until its task    *)
(* offers it, if the task is held up as long as it may be.  The driver and *)
(* the mirror offer theirs when they start; the network stack first looks  *)
(* for the driver, and may find it only with the tick after it is there.   *)
(***************************************************************************)
ToStart(t) == slack[t] + (IF at[t] = "off" THEN due[t] ELSE 0)

Gap == IF "Ethernet" \in registered THEN 0 ELSE ToStart("driver") + Period

Ahead ==
    IF at["net"] = "off" THEN (IF due["net"] < Gap THEN Gap ELSE due["net"])
    ELSE IF at["net"] = "begin" /\ reached["net"] = 1 THEN 0
    ELSE IF at["net"] = "wait" /\ "Ethernet" \in registered
         THEN (IF "net" \in pending THEN 0 ELSE left["net"])
    ELSE Gap

ToOffer == slack["net"] + Ahead

LEMMA ClocksType ==
    ASSUME TypeInv, NEW t \in Tasks
    PROVE  /\ slack[t] \in 0..Slack /\ due[t] \in 0..Skew /\ left[t] \in 0..Period
           /\ ToStart(t) \in 0..(Skew + Slack)
           /\ at[t] # "off" => ToStart(t) <= Slack
<1>1. slack[t] \in 0..Slack /\ due[t] \in 0..Skew /\ left[t] \in 0..Period
  BY DEF TypeInv, TypeOK
<1>2. QED
  BY <1>1, TimesType DEF ToStart

LEMMA GapType ==
    ASSUME TypeInv
    PROVE  Gap \in Nat /\ (at["driver"] # "off" => Gap <= Slack + Period)
<1>1. /\ ToStart("driver") \in Nat
      /\ at["driver"] # "off" => ToStart("driver") <= Slack
  BY ClocksType, TimesType DEF Tasks
<1>2. QED
  BY <1>1, TimesType DEF Gap

LEMMA AheadType ==
    ASSUME TypeInv
    PROVE  /\ Ahead \in Nat
           /\ at["driver"] # "off" => Ahead <= Skew \/ Ahead <= Slack + Period
<1>1. due["net"] \in 0..Skew /\ left["net"] \in 0..Period
  BY ClocksType DEF Tasks
<1>2. QED
  BY <1>1, GapType, TimesType DEF Ahead

LEMMA AheadTypeNext == TypeInv' => Ahead' \in Nat
<1>1. TypeInv => Ahead \in Nat
  BY AheadType
<1>2. (TypeInv => Ahead \in Nat)'
  BY <1>1, PTL
<1>3. QED
  BY <1>2

\* What a step of a task registers.
LEMMA RegisteredGrows ==
    ASSUME TypeInv, NEW t \in Tasks, Go(t)
    PROVE  /\ Others(t) /\ refused' = refused /\ registered \subseteq registered'
           /\ slack' = slack /\ due' = due
           /\ "Ethernet" \in registered' => "Ethernet" \in registered \/ t = "driver"
           /\ t = "driver" /\ at[t] = "begin" /\ "Ethernet" \notin refused
                => "Ethernet" \in registered'
           /\ t = "net" /\ at[t] = "begin" /\ reached[t] = 1 /\ "Network" \notin refused
                => "Network" \in registered'
<1>0. TypeOK
  BY DEF TypeInv
<1>1. /\ reached["driver"] = 0 /\ reached["net"] \in 0..2 /\ reached["mirror"] \in 0..1
      /\ t = "driver" \/ t = "net" \/ t = "mirror"
  BY <1>0, GoalOf DEF Tasks
<1>2. CASE Begin(t)
  <2>1. Others(t) /\ refused' = refused /\ slack' = slack /\ due' = due
        /\ registered' = registered \cup Offers(t, reached[t])
    BY <1>0, <1>2, BeginEffect
  <2>2. t # "driver" => "Ethernet" \notin Offers(t, reached[t])
    <3>1. CASE t = "net"
      <4>1. reached[t] = 0 \/ reached[t] = 1 \/ reached[t] = 2
        BY <1>1, <3>1
      <4>2. QED
        BY <3>1, <4>1, OfferFacts
    <3>2. CASE t = "mirror"
      <4>1. reached[t] = 0 \/ reached[t] = 1
        BY <1>1, <3>2
      <4>2. QED
        BY <3>2, <4>1, OfferFacts
    <3>3. QED
      BY <1>1, <3>1, <3>2
  <2>3. /\ t = "driver" => "Ethernet" \in registered'
        /\ t = "net" /\ reached[t] = 1 => "Network" \in registered'
    BY <1>1, <2>1, OfferFacts
  <2>4. QED
    BY <2>1, <2>2, <2>3
<1>3. CASE RegisterFails(t)
  <2>1. /\ Offers(t, reached[t]) \cap refused # {}
        /\ Others(t) /\ UNCHANGED <<refused, registered, slack, due>>
    BY <1>0, <1>3, RegisterFailsEffect
  <2>2. /\ t = "driver" => "Ethernet" \in refused
        /\ t = "net" /\ reached[t] = 1 => "Network" \in refused
    BY <1>1, <2>1, OfferFacts
  <2>3. QED
    BY <2>1, <2>2
<1>4. CASE Deploy(t) \/ Found(t) \/ Missing(t) \/ Wait(t) \/ Drop(t)
  <2>1. at[t] # "begin" /\ Others(t) /\ UNCHANGED <<refused, registered, slack, due>>
    BY <1>0, <1>4, DeployEffect, FoundEffect, MissingEffect, WaitEffect, DropEffect
  <2>2. QED
    BY <2>1
<1>5. QED
  BY <1>2, <1>3, <1>4 DEF Go

\* A step of a task brings none further away.
LEMMA StartStays ==
    ASSUME TypeInv, NEW t \in Tasks, Go(t), NEW u \in Tasks
    PROVE  ToStart(u)' = ToStart(u)
<1>0. TypeOK
  BY DEF TypeInv
<1>1. Others(t) /\ slack' = slack /\ due' = due
  BY RegisteredGrows
<1>2. slack[u] \in Nat /\ due[u] \in Nat
  BY ClocksType
<1>3. CASE u # t
  BY <1>1, <1>3 DEF Others, ToStart
<1>4. CASE u = t
  <2>1. CASE Deploy(t)
    BY <1>0, <1>1, <1>2, <1>4, <2>1, DeployEffect DEF ToStart
  <2>2. CASE ~Deploy(t)
    <3>1. at[t] # "off" /\ at'[t] # "off"
      BY <1>0, <2>2, BeginEffect, RegisterFailsEffect, FoundEffect, MissingEffect,
         WaitEffect, DropEffect DEF Go
    <3>2. QED
      BY <1>1, <1>4, <3>1 DEF ToStart
  <2>3. QED
    BY <2>1, <2>2
<1>5. QED
  BY <1>3, <1>4

\* Time brings it nearer, while the task may start or is about to offer it.
LEMMA StartNears ==
    ASSUME TypeInv, Elapse, NEW t \in Tasks
    PROVE  /\ ToStart(t)' \in Int /\ ToStart(t)' <= ToStart(t)
           /\ at[t] \in {"off", "begin"} /\ (t = "driver" \/ NameServerUp)
                => ToStart(t)' <= ToStart(t) - 1
<1>0. TypeOK
  BY DEF TypeInv
<1>1. slack[t] \in Nat /\ due[t] \in Nat
  BY ClocksType
<1>2. /\ CanGo(t) => slack'[t] = slack[t] - 1
      /\ ~CanGo(t) => slack'[t] = slack[t]
      /\ due[t] = 0 => due'[t] = 0
      /\ due[t] > 0 => due'[t] = due[t] - 1
      /\ at'[t] = at[t]
  BY <1>0, ElapseEffect
<1>3. at[t] = "begin" => CanGo(t)
  BY DEF CanGo
<1>4. at[t] = "off" /\ due[t] = 0 /\ (t = "driver" \/ NameServerUp) => CanGo(t)
  BY DEF CanGo
<1>5. QED
  BY <1>1, <1>2, <1>3, <1>4 DEF ToStart

LEMMA GapStays ==
    ASSUME TypeInv, NEW t \in Tasks, Go(t)
    PROVE  /\ Gap' <= Gap
           /\ ("Ethernet" \in registered' <=> "Ethernet" \in registered) => Gap' = Gap
<1>1. "Ethernet" \in registered => "Ethernet" \in registered'
  BY RegisteredGrows
<1>2. ToStart("driver")' = ToStart("driver") /\ ToStart("driver") \in Nat
  BY StartStays, ClocksType, TimesType DEF Tasks
<1>3. QED
  BY <1>1, <1>2, TimesType DEF Gap

LEMMA GapNears ==
    ASSUME TypeInv, Elapse, "Ethernet" \notin refused
    PROVE  /\ Gap' \in Int /\ Gap' <= Gap
           /\ "Ethernet" \notin registered => Gap' <= Gap - 1
<1>1. registered' = registered
  BY ElapseEffect DEF TypeInv
<1>2. "Ethernet" \notin registered => at["driver"] \in {"off", "begin"}
  BY DEF TypeInv, DriverInv
<1>3. /\ ToStart("driver")' \in Int /\ ToStart("driver")' <= ToStart("driver")
      /\ "Ethernet" \notin registered => ToStart("driver")' <= ToStart("driver") - 1
      /\ ToStart("driver") \in Nat
  BY <1>2, StartNears, ClocksType, TimesType DEF Tasks
<1>4. QED
  BY <1>1, <1>3, TimesType DEF Gap

\* While the network stack has not offered its service, but may.
Hopeful == "Network" \notin registered /\ {"Network", "Ethernet"} \cap refused = {}

LEMMA HopefulNet ==
    ASSUME TypeInv, Hopeful
    PROVE  \/ reached["net"] = 0 /\ at["net"] \in {"off", "begin", "try", "wait", "drop", "gaveup"}
           \/ reached["net"] = 1 /\ at["net"] = "begin"
<1>1. reached["net"] \in 0..2 /\ at["net"] \in Places
  BY DEF TypeInv, TypeOK, Tasks, Places
<1>2. reached["net"] = 0 \/ reached["net"] = 1 \/ reached["net"] = 2
  BY <1>1
<1>3. QED
  BY <1>1, <1>2 DEF TypeInv, NetInv, Hopeful, Places

LEMMA OfferStays ==
    ASSUME TypeInv, NEW t \in Tasks, Go(t), Hopeful'
    PROVE  ToOffer' <= ToOffer /\ Hopeful
<1>0. TypeOK
  BY DEF TypeInv
<1>1. Others(t) /\ refused' = refused /\ registered \subseteq registered'
      /\ slack' = slack /\ due' = due
  BY RegisteredGrows
<1>2. Hopeful
  BY <1>1 DEF Hopeful
<1>3. /\ Gap' <= Gap /\ Gap \in Nat
      /\ ("Ethernet" \in registered' <=> "Ethernet" \in registered) => Gap' = Gap
  BY GapStays, GapType
<1>4. /\ slack["net"] \in Nat /\ due["net"] \in Nat /\ left["net"] \in 0..Period
      /\ Ahead \in Nat /\ "net" \in Tasks
  BY ClocksType, AheadType, TimesType DEF Tasks
<1>5. CASE t # "net"
  <2>1. at'["net"] = at["net"] /\ reached'["net"] = reached["net"]
        /\ left'["net"] = left["net"] /\ ("net" \in pending' <=> "net" \in pending)
    BY <1>1, <1>4, <1>5 DEF Others
  <2>2. CASE "Ethernet" \in registered' <=> "Ethernet" \in registered
    <3>1. Gap' = Gap
      BY <1>3, <2>2
    <3>2. Ahead' = Ahead
      BY <1>1, <2>1, <2>2, <3>1 DEF Ahead
    <3>3. QED
      BY <1>1, <1>2, <1>4, <3>2 DEF ToOffer
  <2>3. CASE "Ethernet" \notin registered /\ "Ethernet" \in registered'
    <3>1. Gap' = 0 /\ Gap >= Period
      <4>1. ToStart("driver") \in Nat
        BY ClocksType, TimesType DEF Tasks
      <4>2. QED
        BY <2>3, <4>1, TimesType DEF Gap
    <3>2. Ahead' <= Ahead
      BY <1>1, <1>4, <2>1, <2>3, <3>1, TimesType DEF Ahead
    <3>3. Ahead' \in Int
      BY <1>1, <1>4, <2>1, <3>1, TimesType DEF Ahead
    <3>4. QED
      BY <1>1, <1>2, <1>4, <3>2, <3>3 DEF ToOffer
  <2>4. QED
    BY <1>1, <2>2, <2>3
<1>6. CASE t = "net"
  <2>1. Gap' = Gap /\ ("Ethernet" \in registered' <=> "Ethernet" \in registered)
    BY <1>1, <1>3, <1>6, RegisteredGrows
  <2>2. SUFFICES Ahead' \in Nat /\ Ahead' <= Ahead
    BY <1>1, <1>2, <1>4 DEF ToOffer
  <2>3. \/ reached["net"] = 0
        \/ reached["net"] = 1 /\ at["net"] = "begin"
    BY <1>2, HopefulNet
  <2>4. CASE Deploy("net")
    <3>1. at["net"] = "off" /\ at'["net"] = "begin" /\ due["net"] = 0 /\ reached'["net"] = 0
      BY <1>0, <1>4, <2>4, DeployEffect DEF TypeInv, NetInv
    <3>2. Ahead = Gap /\ Ahead' = Gap
      BY <1>3, <2>1, <3>1 DEF Ahead
    <3>3. QED
      BY <1>3, <3>2
  <2>5. CASE Begin("net")
    <3>1. at["net"] = "begin" /\ reached' = reached
      BY <1>0, <1>4, <2>5, BeginEffect
    <3>2. reached["net"] = 0
      BY <1>1, <1>6, <2>3, <3>1, RegisteredGrows DEF Hopeful
    <3>3. at'["net"] = "try"
      <4>1. Len(Goals("net")) = 2
        BY GoalFacts
      <4>2. QED
        BY <1>0, <1>4, <2>5, <3>2, <4>1, BeginEffect
    <3>4. Ahead = Gap /\ Ahead' = Gap
      BY <2>1, <3>1, <3>2, <3>3 DEF Ahead
    <3>5. QED
      BY <1>3, <3>4
  <2>6. CASE RegisterFails("net")
    <3>1. at["net"] = "begin" /\ at'["net"] = "panicked" /\ reached' = reached
          /\ Offers("net", reached["net"]) \cap refused # {}
      BY <1>0, <1>4, <2>6, RegisterFailsEffect
    <3>2. Offers("net", reached["net"]) \subseteq {"Network"}
      BY <2>3, OfferFacts
    <3>3. QED
      BY <1>2, <3>1, <3>2 DEF Hopeful
  <2>7. CASE Found("net")
    <3>1. at["net"] = "try" /\ at'["net"] = "drop"
      BY <1>0, <1>4, <2>7, FoundEffect
    <3>2. Ahead = Gap /\ Ahead' = Gap
      BY <2>1, <3>1 DEF Ahead
    <3>3. QED
      BY <1>3, <3>2
  <2>8. CASE Missing("net")
    <3>1. at["net"] = "try" /\ at'["net"] = "wait" /\ Goal("net") \notin registered
          /\ registered' = registered
      BY <1>0, <1>4, <2>8, MissingEffect
    <3>2. "Ethernet" \notin registered
      BY <1>0, <2>3, <3>1, GoalOf
    <3>3. Ahead = Gap /\ Ahead' = Gap
      BY <2>1, <3>1, <3>2 DEF Ahead
    <3>4. QED
      BY <1>3, <3>3
  <2>9. CASE Wait("net")
    <3>1. at["net"] = "wait" /\ at'["net"] \in {"try", "gaveup"} /\ "net" \in pending
      BY <1>0, <1>4, <2>9, WaitEffect
    <3>2. Ahead' = Gap
      BY <2>1, <3>1 DEF Ahead
    <3>3. "Ethernet" \in registered => Gap = 0
      BY DEF Gap
    <3>4. Ahead = Gap
      BY <3>1, <3>3 DEF Ahead
    <3>5. QED
      BY <1>3, <3>2, <3>4
  <2>10. CASE Drop("net")
    <3>1. at["net"] = "drop" /\ at'["net"] = "begin" /\ reached'["net"] = reached["net"] + 1
      BY <1>0, <1>4, <2>10, DropEffect
    <3>2. reached'["net"] = 1
      BY <2>3, <3>1
    <3>3. Ahead' = 0
      BY <3>1, <3>2 DEF Ahead
    <3>4. QED
      BY <1>4, <3>3
  <2>11. QED
    BY <1>6, <2>4, <2>5, <2>6, <2>7, <2>8, <2>9, <2>10 DEF Go
<1>7. QED
  BY <1>5, <1>6

LEMMA OfferNears ==
    ASSUME TypeInv, Elapse, Hopeful, NameServerUp, at["net"] # "gaveup"
    PROVE  ToOffer' \in Int /\ ToOffer' <= ToOffer - 1
<1>0. TypeOK
  BY DEF TypeInv
<1>1. /\ Gap \in Nat /\ Gap' \in Int /\ Gap' <= Gap
      /\ "Ethernet" \notin registered => Gap' <= Gap - 1
      /\ "Ethernet" \in registered => Gap = 0
      /\ "Ethernet" \in registered' => Gap' = 0
  BY GapType, GapNears DEF Hopeful, Gap
<1>2. /\ slack["net"] \in Nat /\ due["net"] \in Nat /\ left["net"] \in 0..Period
      /\ "net" \in Tasks
  BY ClocksType, TimesType DEF Tasks
<1>3. /\ CanGo("net") => slack'["net"] = slack["net"] - 1
      /\ ~CanGo("net") => slack'["net"] = slack["net"]
      /\ due["net"] = 0 => due'["net"] = 0
      /\ due["net"] > 0 => due'["net"] = due["net"] - 1
      /\ UNCHANGED <<at, reached, registered>>
  BY <1>0, <1>2, ElapseEffect
<1>4. \/ reached["net"] = 0 /\ at["net"] \in {"off", "begin", "try", "wait", "drop"}
      \/ reached["net"] = 1 /\ at["net"] = "begin"
  BY HopefulNet
<1>5. SUFFICES \/ CanGo("net") /\ Ahead' \in Int /\ Ahead' <= Ahead
               \/ Ahead' \in Int /\ Ahead' <= Ahead - 1
  BY <1>2, <1>3, AheadType DEF ToOffer
<1>6. CASE at["net"] = "off"
  <2>1. CASE due["net"] = 0
    <3>1. CanGo("net")
      BY <1>6, <2>1 DEF CanGo
    <3>2. QED
      BY <1>1, <1>2, <1>3, <1>6, <2>1, <3>1 DEF Ahead
  <2>2. CASE due["net"] > 0
    BY <1>1, <1>2, <1>3, <1>6, <2>2 DEF Ahead
  <2>3. QED
    BY <1>2, <2>1, <2>2
<1>7. CASE at["net"] \in {"begin", "try", "drop"}
  <2>1. CanGo("net")
    BY <1>7 DEF CanGo
  <2>2. QED
    BY <1>1, <1>3, <1>7, <2>1 DEF Ahead
<1>8. CASE at["net"] = "wait" /\ "Ethernet" \notin registered
  BY <1>1, <1>3, <1>8 DEF Ahead
<1>9. CASE at["net"] = "wait" /\ "Ethernet" \in registered
  <2>0. Querying("net")
    BY <1>9 DEF Querying
  <2>1. left["net"] \in 1..Period
    BY <1>2, <2>0, SpentType
  <2>2. /\ left["net"] = 1 => "net" \in pending'
        /\ left["net"] > 1 => /\ left'["net"] = left["net"] - 1
                              /\ "net" \in pending' <=> "net" \in pending
    BY <1>0, <1>2, <2>0, ElapseEffect
  <2>3. CASE "net" \in pending
    <3>1. CanGo("net") /\ "net" \in pending'
      <4>1. left["net"] = 1 \/ left["net"] > 1
        BY <2>1
      <4>2. QED
        BY <1>9, <2>2, <2>3, <4>1 DEF CanGo
    <3>2. Ahead = 0 /\ Ahead' = 0
      BY <1>3, <1>9, <2>3, <3>1 DEF Ahead
    <3>3. QED
      BY <3>1, <3>2
  <2>4. CASE "net" \notin pending
    <3>1. Ahead = left["net"]
      BY <1>9, <2>4 DEF Ahead
    <3>2. CASE left["net"] = 1
      <4>1. Ahead' = 0
        BY <1>3, <1>9, <2>2, <3>2 DEF Ahead
      <4>2. QED
        BY <3>1, <3>2, <4>1
    <3>3. CASE left["net"] > 1
      <4>1. Ahead' = left["net"] - 1
        BY <1>3, <1>9, <2>2, <2>4, <3>3 DEF Ahead
      <4>2. QED
        BY <1>2, <3>1, <4>1
    <3>4. QED
      BY <2>1, <3>2, <3>3
  <2>5. QED
    BY <2>3, <2>4
<1>10. QED
  BY <1>4, <1>6, <1>7, <1>8, <1>9

-----------------------------------------------------------------------------
(***************************************************************************)
(* What a query has spent and what it looks for can still be away from add *)
(* up to no more than the skew and the hold-ups allow: time takes from the *)
(* second what it adds to the first.  A tick left over is paid for by the  *)
(* time of the query before, so it counts there too.                       *)
(***************************************************************************)
Longest == IF Skew < Slack + Period THEN Slack + Period + Slack ELSE Skew + Slack

DriverInTime ==
    "Ethernet" \notin registered \cup refused /\ Querying("net")
        => ToStart("driver") + Spent("net") <= Slack

MirrorInTime ==
    "MirrorName" \notin registered \cup refused =>
        /\ Querying("net") => ToStart("mirror") + Spent("net") <= Skew + Slack
        /\ at["net"] = "begin" => ToStart("mirror") + Leftover("net") <= Skew + Slack

NetInTime == Hopeful /\ Querying("mirror") => ToOffer + Spent("mirror") <= Longest

\* Who has made its last try looks for what will not come.
LastTry(t) == at[t] = "gaveup" \/ (at[t] = "wait" /\ tries[t] = Tries)

LastTryInv ==
    /\ LastTry("net") => /\ reached["net"] = 0 => "Ethernet" \in refused
                         /\ reached["net"] = 1 => "MirrorName" \in refused
                         /\ reached["net"] # 2
    /\ LastTry("mirror") => {"Network", "Ethernet"} \cap refused # {}

InTimeInv == DriverInTime /\ MirrorInTime /\ NetInTime /\ LastTryInv

\* The hypothesis: what the cores and tasks may be late is less than the tries allow.
BootsInTime ==
    /\ Skew + Slack < (Tries - 1) * Period
    /\ 2 * Slack + Period < (Tries - 1) * Period

LEMMA DriverStep ==
    ASSUME TypeInv, InTimeInv, NEW t \in Tasks, Go(t)
    PROVE  DriverInTime'
<1>. SUFFICES ASSUME "Ethernet" \notin registered' \cup refused', Querying("net")'
              PROVE  (ToStart("driver") + Spent("net"))' <= Slack
  BY DEF DriverInTime
<1>0. TypeOK /\ "net" \in Tasks /\ "driver" \in Tasks
  BY DEF TypeInv, Tasks
<1>1. "Ethernet" \notin registered \cup refused /\ Others(t)
  BY RegisteredGrows
<1>2. ToStart("driver")' = ToStart("driver") /\ ToStart("driver") \in Nat
  BY <1>0, StartStays, ClocksType, TimesType
<1>3. CASE t # "net"
  <2>1. Spent("net")' = Spent("net") /\ Querying("net")
    BY <1>0, <1>1, <1>3, OthersSpend
  <2>2. QED
    BY <1>1, <1>2, <2>1 DEF InTimeInv, DriverInTime
<1>4. CASE t = "net" /\ ~Begin("net")
  <2>1. Spent("net")' = Spent("net") /\ Querying("net")
    BY <1>0, <1>4, QuerySpends
  <2>2. QED
    BY <1>1, <1>2, <2>1 DEF InTimeInv, DriverInTime
<1>5. CASE t = "net" /\ Begin("net")
  <2>1. at["net"] = "begin" /\ Spent("net")' = Leftover("net")
    BY <1>0, <1>5, QuerySpends, BeginEffect
  <2>2. reached["net"] = 0
    BY <1>0, <1>1, GoalOf DEF TypeInv, NetInv
  <2>3. Leftover("net") = 0 /\ NameServerUp
    BY <1>0, <2>1, <2>2 DEF TypeInv, QueryInv, Leftover
  <2>4. ToStart("driver") <= Slack
    BY <1>0, <2>3, ClocksType DEF NameServerUp
  <2>5. QED
    BY <1>2, <2>1, <2>3, <2>4
<1>6. QED
  BY <1>3, <1>4, <1>5

LEMMA MirrorStep ==
    ASSUME TypeInv, InTimeInv, NEW t \in Tasks, Go(t)
    PROVE  MirrorInTime'
<1>. SUFFICES ASSUME "MirrorName" \notin registered' \cup refused'
              PROVE  /\ Querying("net")' => (ToStart("mirror") + Spent("net"))' <= Skew + Slack
                     /\ at'["net"] = "begin"
                          => (ToStart("mirror") + Leftover("net"))' <= Skew + Slack
  BY DEF MirrorInTime
<1>0. TypeOK /\ "net" \in Tasks /\ "mirror" \in Tasks
  BY DEF TypeInv, Tasks
<1>1. "MirrorName" \notin registered \cup refused /\ Others(t)
  BY RegisteredGrows
<1>2. /\ Querying("net") => ToStart("mirror") + Spent("net") <= Skew + Slack
      /\ at["net"] = "begin" => ToStart("mirror") + Leftover("net") <= Skew + Slack
  BY <1>1 DEF InTimeInv, MirrorInTime
<1>3. /\ ToStart("mirror")' = ToStart("mirror")
      /\ ToStart("mirror") \in Nat /\ ToStart("mirror") <= Skew + Slack
  BY <1>0, StartStays, ClocksType, TimesType
<1>4. CASE t # "net"
  <2>1. /\ Spent("net")' = Spent("net") /\ Leftover("net")' = Leftover("net")
        /\ Querying("net")' = Querying("net") /\ at'["net"] = at["net"]
    BY <1>0, <1>1, <1>4, OthersSpend DEF Others
  <2>2. QED
    BY <1>2, <1>3, <2>1
<1>5. ASSUME t = "net", Querying("net")'
      PROVE  (ToStart("mirror") + Spent("net"))' <= Skew + Slack
  <2>1. CASE Begin("net")
    <3>1. at["net"] = "begin" /\ Spent("net")' = Leftover("net")
      BY <1>0, <1>5, <2>1, QuerySpends, BeginEffect
    <3>2. QED
      BY <1>2, <1>3, <3>1
  <2>2. CASE ~Begin("net")
    <3>1. Spent("net")' = Spent("net") /\ Querying("net")
      BY <1>0, <1>5, <2>2, QuerySpends
    <3>2. QED
      BY <1>2, <1>3, <3>1
  <2>3. QED
    BY <2>1, <2>2
<1>6. ASSUME t = "net", at'["net"] = "begin"
      PROVE  (ToStart("mirror") + Leftover("net"))' <= Skew + Slack
  <2>1. Deploy("net") \/ Drop("net")
    BY <1>0, <1>6, BeginEffect, RegisterFailsEffect, FoundEffect, MissingEffect,
       WaitEffect DEF Go
  <2>2. CASE Deploy("net")
    <3>1. at["net"] = "off" /\ pending' = pending
      BY <1>0, <2>2, DeployEffect
    <3>2. "net" \notin pending
      BY <1>0, <3>1 DEF TypeInv, NetInv, QueryInv
    <3>3. Leftover("net")' = 0
      BY <3>1, <3>2 DEF Leftover
    <3>4. QED
      BY <1>3, <3>3
  <2>3. CASE Drop("net")
    <3>1. at["net"] = "drop" /\ pending' = pending
      BY <1>0, <2>3, DropEffect
    <3>2. Querying("net") /\ Leftover("net")' = Leftover("net")
      BY <3>1 DEF Querying, Leftover
    <3>3. Leftover("net") <= Spent("net") /\ Spent("net") \in Nat /\ Leftover("net") \in Nat
      BY <1>0, <3>2, SpentType, TimesType
    <3>4. QED
      BY <1>2, <1>3, <3>2, <3>3, TimesType
  <2>4. QED
    BY <2>1, <2>2, <2>3
<1>7. QED
  BY <1>4, <1>5, <1>6

LEMMA NetStep ==
    ASSUME TypeInv, InTimeInv, NEW t \in Tasks, Go(t)
    PROVE  NetInTime'
<1>. SUFFICES ASSUME Hopeful', Querying("mirror")'
              PROVE  (ToOffer + Spent("mirror"))' <= Longest
  BY DEF NetInTime
<1>0. TypeOK /\ "net" \in Tasks /\ "mirror" \in Tasks
  BY DEF TypeInv, Tasks
<1>1. Hopeful /\ ToOffer' <= ToOffer /\ Others(t)
  BY OfferStays, RegisteredGrows
<1>2. slack["net"] \in 0..Slack /\ Ahead \in Nat /\ ToOffer \in Nat
  BY <1>0, ClocksType, AheadType, TimesType DEF ToOffer
<1>3. ToOffer' \in Int
  <2>1. TypeInv'
    BY TypeStep DEF Next
  <2>2. Ahead' \in Nat
    BY <2>1, AheadTypeNext
  <2>3. slack'["net"] = slack["net"]
    BY RegisteredGrows
  <2>4. QED
    BY <1>2, <2>2, <2>3 DEF ToOffer
<1>4. CASE t # "mirror"
  <2>1. Spent("mirror")' = Spent("mirror") /\ Querying("mirror")
    BY <1>0, <1>1, <1>4, OthersSpend
  <2>2. Spent("mirror") \in Nat
    BY <1>0, <2>1, SpentType
  <2>3. ToOffer + Spent("mirror") <= Longest
    BY <1>1, <2>1 DEF InTimeInv, NetInTime
  <2>4. QED
    BY <1>1, <1>2, <1>3, <2>1, <2>2, <2>3, TimesType DEF Longest
<1>5. CASE t = "mirror" /\ ~Begin("mirror")
  <2>1. Spent("mirror")' = Spent("mirror") /\ Querying("mirror")
    BY <1>0, <1>5, QuerySpends
  <2>2. Spent("mirror") \in Nat
    BY <1>0, <2>1, SpentType
  <2>3. ToOffer + Spent("mirror") <= Longest
    BY <1>1, <2>1 DEF InTimeInv, NetInTime
  <2>4. QED
    BY <1>1, <1>2, <1>3, <2>1, <2>2, <2>3, TimesType DEF Longest
<1>6. CASE t = "mirror" /\ Begin("mirror")
  <2>1. at["mirror"] = "begin" /\ Spent("mirror")' = Leftover("mirror") /\ at'["mirror"] = "try"
    BY <1>0, <1>6, QuerySpends, BeginEffect DEF Querying
  <2>2. reached["mirror"] = 0
    <3>1. Len(Goals("mirror")) = 1
      BY GoalFacts
    <3>2. reached["mirror"] # 1
      BY <1>0, <1>6, <2>1, <3>1, BeginEffect
    <3>3. QED
      BY <1>0, <3>2, GoalOf
  <2>3. Leftover("mirror") = 0 /\ NameServerUp
    BY <1>0, <2>1, <2>2 DEF TypeInv, QueryInv, Leftover
  <2>4. Ahead <= Skew \/ Ahead <= Slack + Period
    BY <2>3, AheadType DEF NameServerUp
  <2>5. ToOffer <= Longest
    BY <1>2, <2>4, TimesType DEF ToOffer, Longest
  <2>6. QED
    BY <1>1, <1>2, <1>3, <2>1, <2>3, <2>5, TimesType DEF Longest
<1>7. QED
  BY <1>4, <1>5, <1>6

LEMMA LastTryStep ==
    ASSUME BootsInTime, TypeInv, InTimeInv, NEW t \in Tasks, Go(t)
    PROVE  LastTryInv'
<1>0. TypeOK /\ "net" \in Tasks /\ "mirror" \in Tasks /\ "driver" \in Tasks
  BY DEF TypeInv, Tasks
<1>1. Others(t) /\ refused' = refused
  BY RegisteredGrows
<1>2. /\ LastTry("net") => /\ reached["net"] = 0 => "Ethernet" \in refused
                           /\ reached["net"] = 1 => "MirrorName" \in refused
                           /\ reached["net"] # 2
      /\ LastTry("mirror") => {"Network", "Ethernet"} \cap refused # {}
  BY DEF InTimeInv, LastTryInv
<1>3. CASE LastTry(t)'
  <2>1. Wait(t) \/ Missing(t)
    BY <1>0, <1>3, DeployEffect, BeginEffect, RegisterFailsEffect, FoundEffect,
       DropEffect DEF Go, LastTry
  <2>2. CASE Wait(t)
    <3>1. LastTry(t) /\ reached' = reached
      BY <1>0, <1>3, <2>2, WaitEffect DEF LastTry
    <3>2. QED
      BY <1>1, <1>2, <3>1 DEF LastTryInv, LastTry, Others, Tasks
  <2>3. CASE Missing(t)
    <3>1. /\ at[t] = "try" /\ at'[t] = "wait" /\ Goal(t) \notin registered
          /\ tries'[t] = tries[t] + 1 /\ reached' = reached /\ tries'[t] = Tries
      BY <1>0, <1>3, <2>3, MissingEffect DEF LastTry
    <3>2. Querying(t) /\ tries[t] \in Nat
      BY <1>0, <3>1 DEF Querying, TypeOK
    <3>3. Waits(t) = Tries - 1
      BY <3>1, <3>2 DEF Waits
    <3>4. Spent(t) \in Nat /\ Spent(t) >= Units(Tries - 1)
      BY <3>2, <3>3, SpentType, UnitsFacts DEF Spent
    <3>5. Skew + Slack < Spent(t) /\ 2 * Slack + Period < Spent(t) /\ Longest < Spent(t)
      BY <3>4, UnitsFacts, TimesType DEF BootsInTime, Longest
    <3>6. t # "driver"
      BY <3>1 DEF TypeInv, DriverInv
    <3>7. CASE t = "net"
      <4>1. CASE reached["net"] = 0
        <5>1. "Ethernet" \notin registered
          BY <1>0, <3>1, <3>7, <4>1, GoalOf
        <5>2. ToStart("driver") \in Nat
          BY <1>0, ClocksType, TimesType
        <5>3. "Ethernet" \in refused
          BY <3>2, <3>4, <3>5, <3>7, <5>1, <5>2, TimesType DEF InTimeInv, DriverInTime
        <5>4. QED
          BY <1>1, <1>2, <3>1, <3>7, <4>1, <5>3 DEF LastTryInv, LastTry, Others, Tasks
      <4>2. CASE reached["net"] = 1
        <5>1. "MirrorName" \notin registered
          BY <1>0, <3>1, <3>7, <4>2, GoalOf
        <5>2. ToStart("mirror") \in Nat
          BY <1>0, ClocksType, TimesType
        <5>3. "MirrorName" \in refused
          BY <3>2, <3>4, <3>5, <3>7, <5>1, <5>2, TimesType DEF InTimeInv, MirrorInTime
        <5>4. QED
          BY <1>1, <1>2, <3>1, <3>7, <4>2, <5>3 DEF LastTryInv, LastTry, Others, Tasks
      <4>3. reached["net"] \in 0..2 /\ reached["net"] # 2
        BY <1>0, <3>1, <3>7, GoalOf DEF TypeInv, NetInv
      <4>4. QED
        BY <4>1, <4>2, <4>3
    <3>8. CASE t = "mirror"
      <4>1. "Network" \notin registered
        BY <1>0, <3>1, <3>8, GoalOf DEF TypeInv, MirrorInv
      <4>2. ToOffer \in Nat
        BY <1>0, ClocksType, AheadType, TimesType DEF ToOffer
      <4>3. {"Network", "Ethernet"} \cap refused # {}
        BY <3>2, <3>4, <3>5, <3>8, <4>1, <4>2, TimesType DEF InTimeInv, NetInTime, Hopeful, Longest
      <4>4. QED
        BY <1>1, <1>2, <3>8, <4>3 DEF LastTryInv, LastTry, Others, Tasks
    <3>9. QED
      BY <3>6, <3>7, <3>8 DEF Tasks
  <2>4. QED
    BY <2>1, <2>2, <2>3
<1>4. CASE ~LastTry(t)'
  BY <1>0, <1>1, <1>2, <1>4 DEF LastTryInv, LastTry, Others
<1>5. QED
  BY <1>3, <1>4

LEMMA InTimeElapse ==
    ASSUME TypeInv, InTimeInv, Elapse
    PROVE  InTimeInv'
<1>0. TypeOK /\ "net" \in Tasks /\ "mirror" \in Tasks /\ "driver" \in Tasks
  BY DEF TypeInv, Tasks
<1>1. UNCHANGED <<at, reached, tries, registered, refused>>
  BY <1>0, ElapseEffect
<1>2. \A t \in Tasks : Querying(t)' = Querying(t)
  BY <1>1 DEF Querying
<1>3. DriverInTime'
  <2>. SUFFICES ASSUME "Ethernet" \notin registered \cup refused, Querying("net")
                PROVE  (ToStart("driver") + Spent("net"))' <= Slack
    BY <1>0, <1>1, <1>2 DEF DriverInTime
  <2>1. at["driver"] \in {"off", "begin"}
    BY DEF TypeInv, DriverInv
  <2>2. /\ ToStart("driver")' \in Int /\ ToStart("driver")' <= ToStart("driver") - 1
        /\ ToStart("driver") \in Nat
    BY <1>0, <2>1, StartNears, ClocksType, TimesType
  <2>3. Spent("net")' \in Int /\ Spent("net")' <= Spent("net") + 1 /\ Spent("net") \in Nat
    BY <1>0, ElapseSpends, SpentType
  <2>4. ToStart("driver") + Spent("net") <= Slack
    BY DEF InTimeInv, DriverInTime
  <2>5. QED
    BY <2>2, <2>3, <2>4, TimesType
<1>4. MirrorInTime'
  <2>. SUFFICES ASSUME "MirrorName" \notin registered \cup refused
                PROVE  /\ Querying("net") => (ToStart("mirror") + Spent("net"))' <= Skew + Slack
                       /\ at["net"] = "begin"
                            => (ToStart("mirror") + Leftover("net"))' <= Skew + Slack
    BY <1>0, <1>1, <1>2 DEF MirrorInTime
  <2>1. /\ ToStart("mirror")' \in Int /\ ToStart("mirror")' <= ToStart("mirror")
        /\ ToStart("mirror") \in Nat
    BY <1>0, StartNears, ClocksType, TimesType
  <2>2. ASSUME Querying("net")
        PROVE  (ToStart("mirror") + Spent("net"))' <= Skew + Slack
    <3>1. at["mirror"] \in {"off", "begin"} /\ NameServerUp
      <4>1. at["mirror"] \in {"off", "begin", "panicked"}
        BY DEF TypeInv, MirrorInv
      <4>2. NameServerUp
        BY <1>0, <2>2 DEF TypeInv, QueryInv, Querying
      <4>3. QED
        BY <4>1, <4>2 DEF TypeInv, MirrorInv
    <3>2. ToStart("mirror")' <= ToStart("mirror") - 1
      BY <1>0, <3>1, StartNears
    <3>3. Spent("net")' \in Int /\ Spent("net")' <= Spent("net") + 1 /\ Spent("net") \in Nat
      BY <1>0, <2>2, ElapseSpends, SpentType
    <3>4. ToStart("mirror") + Spent("net") <= Skew + Slack
      BY <2>2 DEF InTimeInv, MirrorInTime
    <3>5. QED
      BY <2>1, <3>2, <3>3, <3>4, TimesType
  <2>3. ASSUME at["net"] = "begin"
        PROVE  (ToStart("mirror") + Leftover("net"))' <= Skew + Slack
    <3>1. ~Querying("net")
      BY <2>3 DEF Querying
    <3>2. "net" \in pending' <=> "net" \in pending
      BY <1>0, <3>1, ElapseEffect
    <3>3. Leftover("net")' = Leftover("net") /\ Leftover("net") \in Nat
      BY <3>2, TimesType DEF Leftover
    <3>4. ToStart("mirror") + Leftover("net") <= Skew + Slack
      BY <2>3 DEF InTimeInv, MirrorInTime
    <3>5. QED
      BY <2>1, <3>3, <3>4, TimesType
  <2>4. QED
    BY <2>2, <2>3
<1>5. NetInTime'
  <2>. SUFFICES ASSUME Hopeful, Querying("mirror")
                PROVE  (ToOffer + Spent("mirror"))' <= Longest
    BY <1>0, <1>1, <1>2 DEF NetInTime, Hopeful
  <2>1. NameServerUp
    BY <1>0 DEF TypeInv, QueryInv, Querying
  <2>2. at["net"] # "gaveup"
    BY HopefulNet DEF InTimeInv, LastTryInv, LastTry, Hopeful
  <2>3. ToOffer' \in Int /\ ToOffer' <= ToOffer - 1
    BY <2>1, <2>2, OfferNears
  <2>4. ToOffer \in Nat
    BY <1>0, ClocksType, AheadType, TimesType DEF ToOffer
  <2>5. Spent("mirror")' \in Int /\ Spent("mirror")' <= Spent("mirror") + 1
        /\ Spent("mirror") \in Nat
    BY <1>0, ElapseSpends, SpentType
  <2>6. ToOffer + Spent("mirror") <= Longest /\ Longest \in Nat
    BY TimesType DEF InTimeInv, NetInTime, Longest
  <2>7. QED
    BY <2>3, <2>4, <2>5, <2>6
<1>6. LastTryInv'
  BY <1>1 DEF InTimeInv, LastTryInv, LastTry
<1>7. QED
  BY <1>3, <1>4, <1>5, <1>6 DEF InTimeInv

LEMMA NoHope ==
    /\ refused \subseteq Unavailable
    /\ "Ethernet" \in refused => "Network" \in Unavailable
<1>1. refused \subseteq Unavailable
  BY DEF Unavailable
<1>2. ASSUME "Ethernet" \in refused
      PROVE  "Network" \in Unavailable
  <2>1. /\ "net" \in Tasks /\ 1 \in 1..Len(Goals("net")) /\ "Network" \in Offers("net", 1)
        /\ Goals("net")[1] \in refused /\ 1 \in 1..1 /\ "Network" \in Services
    BY <1>2, GoalFacts, OfferFacts DEF Tasks, Services
  <2>2. QED
    BY <2>1 DEF Unavailable
<1>3. QED
  BY <1>1, <1>2

\* If the cores and tasks are late by less than a query's tries but one take, no query
\* gives up what comes to be registered, though it has no say in when that is.
THEOREM NobodyMissesAGoal == ASSUME BootsInTime PROVE Spec => []NobodyGivesUp
<1>1. Init => InTimeInv
  BY DEF Init, InTimeInv, DriverInTime, MirrorInTime, NetInTime, LastTryInv, LastTry,
         Querying, Tasks
<1>2. TypeInv /\ InTimeInv /\ [Next]_vars => InTimeInv'
  <2>. SUFFICES ASSUME TypeInv, InTimeInv, [Next]_vars PROVE InTimeInv'
    OBVIOUS
  <2>1. CASE \E t \in Tasks : Go(t)
    BY <2>1, BootsInTime, DriverStep, MirrorStep, NetStep, LastTryStep DEF InTimeInv
  <2>2. CASE Elapse
    BY <2>2, InTimeElapse
  <2>3. CASE UNCHANGED vars
    <3>1. /\ \A t \in Tasks : /\ Spent(t)' = Spent(t) /\ Leftover(t)' = Leftover(t)
                              /\ Querying(t)' = Querying(t) /\ ToStart(t)' = ToStart(t)
          /\ ToOffer' = ToOffer /\ Hopeful' = Hopeful
      BY <2>3 DEF vars, Spent, Waits, Units, Leftover, Querying, ToStart, ToOffer, Ahead,
                  Gap, Hopeful
    <3>2. "net" \in Tasks /\ "mirror" \in Tasks /\ "driver" \in Tasks
      BY DEF Tasks
    <3>3. DriverInTime' /\ MirrorInTime' /\ NetInTime'
      BY <2>3, <3>1, <3>2 DEF vars, InTimeInv, DriverInTime, MirrorInTime, NetInTime
    <3>4. LastTryInv'
      BY <2>3 DEF vars, InTimeInv, LastTryInv, LastTry
    <3>5. QED
      BY <3>3, <3>4 DEF InTimeInv
  <2>4. QED
    BY <2>1, <2>2, <2>3 DEF Next
<1>3. TypeInv /\ InTimeInv => NobodyGivesUp
  <2>. SUFFICES ASSUME TypeInv, InTimeInv, NEW t \in Tasks, at[t] = "gaveup"
                PROVE  Goal(t) \in Unavailable
    BY DEF NobodyGivesUp
  <2>1. LastTryInv /\ LastTry(t) /\ TypeOK
    BY DEF InTimeInv, LastTry, TypeInv
  <2>2. CASE t = "net"
    <3>1. reached["net"] = 0 \/ reached["net"] = 1
      BY <2>1, <2>2, GoalOf DEF LastTryInv
    <3>2. QED
      BY <2>1, <2>2, <3>1, GoalOf, NoHope DEF LastTryInv
  <2>3. CASE t = "mirror"
    <3>1. reached["mirror"] = 0
      BY <2>1, <2>3, GoalOf DEF TypeInv, MirrorInv
    <3>2. QED
      BY <2>1, <2>3, <3>1, GoalOf, NoHope DEF LastTryInv
  <2>4. t # "driver"
    BY DEF TypeInv, DriverInv
  <2>5. QED
    BY <2>2, <2>3, <2>4 DEF Tasks
<1>4. QED
  BY <1>1, <1>2, <1>3, TypeCorrectStrong, PTL DEF Spec
=============================================================================
