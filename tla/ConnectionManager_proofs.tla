----------------------- MODULE ConnectionManager_proofs -----------------------
(***************************************************************************)
(* Proofs about ConnectionManager, for any goroutines, sessions, saved     *)
(* connections, databases and number of instances.                         *)
(***************************************************************************)
EXTENDS ConnectionManager, TLAPS

Phases == {"idle", "register", "read", "lookup", "open", "insert", "run",
           "use", "record", "reopen", "swap", "drop"}

Call == [phase : Phases, id : SUBSET Identifiers, stored : SUBSET Stored,
         session : SUBSET Sessions, database : SUBSET Databases,
         config : SUBSET Databases, instance : Nat, first : Nat]

Instance == [open : BOOLEAN, database : Databases, inPlace : BOOLEAN]

\* The types of the maps, element by element, and of what TypeOK says least about.
Types ==
    /\ \A s \in DOMAIN connections :
         /\ s \in Sessions /\ s \in DOMAIN connectionConfigs
         /\ connections[s] \in 1 .. Len(instances)
    /\ \A s \in DOMAIN connectionConfigs : s \in Sessions /\ connectionConfigs[s] \in Databases
    /\ \A n \in DOMAIN connectionNames : n \in Stored \cup Databases /\ connectionNames[n] \in Sessions
    /\ \A k \in DOMAIN dbConnections :
         /\ k \in Sessions \X Databases
         /\ dbConnections[k] \in 1 .. Len(instances)
    /\ instances \in Seq(Instance)
    /\ calls \in [Callers -> Call]

\* A call that will put its instance into a map, and one that has an instance of its own.
Carries(call) == call.phase \in {"register", "insert", "swap"}

Owns(call) == call.phase \in {"register", "insert", "swap", "drop"}

AtMostOne(target) == target = {} \/ \E d \in Databases : target = {d}

\* What a call has read is about one session and one database.
Shape(call) ==
    /\ call.phase \in {"idle", "register", "read", "run", "drop"} => call.session = {}
    /\ call.phase \in {"lookup", "open", "insert", "use", "record", "reopen", "swap"} =>
         /\ \E s \in Sessions : call.session = {s}
         /\ \E d \in Databases : call.database = {d}
    /\ call.phase = "read" => AtMostOne(call.database)
    /\ call.phase = "register" =>
         /\ \E x \in Stored : call.stored = {x}
         /\ \E d \in Databases : call.database = {d}

\* The instance of a call.
Holds(call) ==
    /\ call.instance \in 0 .. Len(instances) /\ call.first \in 0 .. Len(instances)
    /\ Carries(call) \/ call.phase \in {"use", "run"} => call.instance # 0
    /\ Carries(call) => instances[call.instance].open
    /\ call.phase \in {"insert", "swap"} => ~instances[call.instance].inPlace
    /\ Carries(call) /\ ~instances[call.instance].inPlace =>
         instances[call.instance].database \in call.database
    /\ call.phase = "use" => instances[call.instance].inPlace
    /\ call.phase = "run" /\ call.database # {} /\ ~instances[call.instance].inPlace =>
         SameName(instances[call.instance].database, call.database)

\* The session of a call: a call that has read a session that is gone is the reason why
\* it is in overlapped.
Reads(call) ==
    /\ call.session \subseteq DOMAIN connections \cup removed
    /\ call.session \cap removed \subseteq overlapped
    /\ \A s \in call.session \cap DOMAIN connections :
         /\ call.phase \in {"use", "record"} => instances[connections[s]].inPlace
         /\ call.phase \in {"reopen", "swap"} => ~instances[connections[s]].inPlace

CallsOK == \A c \in Callers : Shape(calls[c]) /\ Holds(calls[c]) /\ Reads(calls[c])

\* A session is switched in place or by reconnecting, not both.
OneSort ==
    \A c, o \in Callers :
        calls[c].phase \in {"use", "record"} /\ calls[o].phase \in {"reopen", "swap"} =>
            calls[c].session \cap calls[o].session = {}

\* No instance is in the maps twice, and those in the maps are open.
MapsOK ==
    /\ \A s, t \in DOMAIN connections : connections[s] = connections[t] => s = t
    /\ \A j, k \in DOMAIN dbConnections : dbConnections[j] = dbConnections[k] => j = k
    /\ \A s \in DOMAIN connections, k \in DOMAIN dbConnections :
         connections[s] # dbConnections[k]
    /\ \A s \in DOMAIN connections : instances[connections[s]].open
    /\ \A k \in DOMAIN dbConnections : instances[dbConnections[k]].open

\* The instance of a call that owns one is in no map and no other call's.
CallsApart ==
    \A c \in Callers : Owns(calls[c]) =>
        /\ \A s \in DOMAIN connections : connections[s] # calls[c].instance
        /\ \A k \in DOMAIN dbConnections : dbConnections[k] # calls[c].instance
        /\ \A o \in Callers \ {c} :
             Owns(calls[o]) /\ calls[c].instance # 0 => calls[o].instance # calls[c].instance

\* Instances that are bound to a database are filed under it.
Filed ==
    /\ \A k \in DOMAIN dbConnections : /\ ~instances[dbConnections[k]].inPlace
                                       /\ instances[dbConnections[k]].database = k[2]
    /\ \A s \in DOMAIN connections :
         ~instances[connections[s]].inPlace =>
            instances[connections[s]].database = connectionConfigs[s]

\* InstancesOwned, element by element.
Owned ==
    \A h \in 1 .. Len(instances) :
        instances[h].open =>
            \/ \E s \in DOMAIN connections : connections[s] = h
            \/ \E k \in DOMAIN dbConnections : dbConnections[k] = h
            \/ \E c \in Callers : Owns(calls[c]) /\ calls[c].instance = h

\* The inductive invariant.
ManagerInv ==
    Types /\ CallsOK /\ OneSort /\ MapsOK /\ CallsApart /\ Filed /\ Owned /\ RemovedStaysGone

-----------------------------------------------------------------------------
(* Instances. *)

(***************************************************************************)
(* Connecting adds an instance, disconnecting closes some.                 *)
(***************************************************************************)
LEMMA AppendFacts ==
    ASSUME NEW q \in Seq(Instance), NEW i \in Instance
    PROVE  /\ Append(q, i) \in Seq(Instance)
           /\ Len(q) \in Nat
           /\ Len(Append(q, i)) = Len(q) + 1
           /\ \A h \in 1 .. Len(q) : Append(q, i)[h] = q[h]
           /\ Append(q, i)[Len(q) + 1] = i
OBVIOUS

LEMMA DisconnectedFacts ==
    ASSUME Types, NEW H
    PROVE  /\ Disconnected(H) \in Seq(Instance)
           /\ Len(Disconnected(H)) = Len(instances)
           /\ \A h \in 1 .. Len(instances) :
                /\ Disconnected(H)[h].inPlace = instances[h].inPlace
                /\ Disconnected(H)[h].database = instances[h].database
                /\ h \in H => ~Disconnected(H)[h].open
                /\ h \notin H => Disconnected(H)[h] = instances[h]
<1>1. instances \in Seq(Instance) /\ DOMAIN instances = 1 .. Len(instances)
      /\ Len(instances) \in Nat
  BY DEF Types
<1>2. ASSUME NEW h \in 1 .. Len(instances)
      PROVE  /\ Disconnected(H)[h] \in Instance
             /\ Disconnected(H)[h].inPlace = instances[h].inPlace
             /\ Disconnected(H)[h].database = instances[h].database
             /\ h \in H => ~Disconnected(H)[h].open
             /\ h \notin H => Disconnected(H)[h] = instances[h]
  <2>1. instances[h] \in Instance
    BY <1>1
  <2>2. [instances[h] EXCEPT !.open = FALSE] \in Instance
        /\ [instances[h] EXCEPT !.open = FALSE].inPlace = instances[h].inPlace
        /\ [instances[h] EXCEPT !.open = FALSE].database = instances[h].database
        /\ ~[instances[h] EXCEPT !.open = FALSE].open
    BY <2>1 DEF Instance
  <2>3. Disconnected(H)[h] = IF h \in H THEN [instances[h] EXCEPT !.open = FALSE]
                                        ELSE instances[h]
    BY <1>1 DEF Disconnected
  <2>4. QED
    BY <2>1, <2>2, <2>3
<1>3. DOMAIN Disconnected(H) = 1 .. Len(instances)
  BY <1>1 DEF Disconnected
<1>4. Disconnected(H) = [h \in 1 .. Len(instances) |-> Disconnected(H)[h]]
  BY <1>1 DEF Disconnected
<1>5. Disconnected(H) \in [1 .. Len(instances) -> Instance]
  BY <1>2, <1>3, <1>4
<1>6. Disconnected(H) \in Seq(Instance) /\ Len(Disconnected(H)) = Len(instances)
  BY <1>1, <1>5
<1>7. QED
  BY <1>2, <1>6

-----------------------------------------------------------------------------
(* The invariant. *)

LEMMA InitManagerInv == Init => ManagerInv
<1> SUFFICES ASSUME Init PROVE ManagerInv
  OBVIOUS
<1>1. /\ DOMAIN connections = {} /\ DOMAIN connectionConfigs = {}
      /\ DOMAIN connectionNames = {} /\ DOMAIN dbConnections = {}
  BY DEF Init, Nothing
<1>2. Idle \in Call /\ Idle.phase = "idle" /\ Idle.session = {} /\ Idle.instance = 0
      /\ Idle.first = 0
  BY DEF Idle, Call, Phases
<1>3. calls = [c \in Callers |-> Idle] /\ instances = <<>> /\ Len(instances) = 0
      /\ instances \in Seq(Instance) /\ removed = {}
  BY DEF Init
<1>4. Types
  BY <1>1, <1>2, <1>3 DEF Types
<1>5. CallsOK
  BY <1>2, <1>3 DEF CallsOK, Shape, Holds, Reads, Carries
<1>6. OneSort /\ CallsApart /\ MapsOK /\ Filed /\ Owned /\ RemovedStaysGone
  BY <1>1, <1>2, <1>3 DEF OneSort, CallsApart, MapsOK, Filed, Owned, RemovedStaysGone, Owns
<1>7. QED
  BY <1>4, <1>5, <1>6 DEF ManagerInv

Switching(call) == call.phase \in {"use", "record", "reopen", "swap"}

\* The call c goes from one that owns no instance to another one, "new".
Proceeds(c, new) ==
    /\ UNCHANGED <<maps, instances, removed, overlapped>>
    /\ calls' = [calls EXCEPT ![c] = new]
    /\ new \in Call
    /\ Shape(new) /\ Holds(new) /\ Reads(new)
    /\ ~Owns(calls[c]) /\ ~Owns(new)
    /\ \/ ~Switching(new)
       \/ new.phase = "record" /\ calls[c].phase = "use" /\ new.session = calls[c].session
       \/ new.session \subseteq DOMAIN connections

LEMMA ProceedsStep ==
    ASSUME ManagerInv, NEW c \in Callers, NEW new, Proceeds(c, new)
    PROVE  ManagerInv'
<1>1. /\ connections' = connections /\ connectionNames' = connectionNames
      /\ connectionConfigs' = connectionConfigs /\ dbConnections' = dbConnections
      /\ instances' = instances /\ removed' = removed /\ overlapped' = overlapped
  BY DEF Proceeds, maps
<1>2. /\ calls \in [Callers -> Call] /\ calls' \in [Callers -> Call]
      /\ calls'[c] = new
      /\ \A o \in Callers \ {c} : calls'[o] = calls[o]
  BY DEF Proceeds, ManagerInv, Types
<1>3. Types'
  BY <1>1, <1>2 DEF ManagerInv, Types
<1>4. CallsOK'
  <2> SUFFICES ASSUME NEW o \in Callers
               PROVE  (Shape(calls[o]) /\ Holds(calls[o]) /\ Reads(calls[o]))'
    BY DEF CallsOK
  <2>1. Shape(calls'[o]) /\ Holds(calls'[o]) /\ Reads(calls'[o])
    BY <1>2 DEF Proceeds, ManagerInv, CallsOK
  <2>2. QED
    BY <1>1, <2>1 DEF Shape, Holds, Reads, Carries
<1>5. OneSort'
  <2> SUFFICES ASSUME NEW a \in Callers, NEW b \in Callers,
                      calls'[a].phase \in {"use", "record"},
                      calls'[b].phase \in {"reopen", "swap"},
                      NEW s \in calls'[a].session \cap calls'[b].session
               PROVE  FALSE
    BY DEF OneSort
  <2>1. a # b
    OBVIOUS
  <2>2. CASE a # c /\ b # c
    BY <1>2, <2>2 DEF ManagerInv, OneSort
  <2>3. CASE a = c
    <3>1. calls'[b] = calls[b] /\ calls'[a] = new
      BY <1>2, <2>1, <2>3
    <3>2. CASE calls[c].phase = "use" /\ new.session = calls[c].session
      BY <2>3, <3>1, <3>2 DEF ManagerInv, OneSort
    <3>3. CASE s \in DOMAIN connections
      BY <3>1, <3>3 DEF Proceeds, ManagerInv, CallsOK, Reads
    <3>4. QED
      BY <3>1, <3>2, <3>3 DEF Proceeds, Switching
  <2>4. CASE b = c
    <3>1. calls'[a] = calls[a] /\ calls'[b] = new
      BY <1>2, <2>1, <2>4
    <3>2. s \in DOMAIN connections
      BY <3>1 DEF Proceeds, Switching
    <3>3. QED
      BY <3>1, <3>2 DEF Proceeds, ManagerInv, CallsOK, Reads
  <2>5. QED
    BY <2>2, <2>3, <2>4
<1>6. MapsOK' /\ Filed' /\ RemovedStaysGone'
  BY <1>1 DEF ManagerInv, MapsOK, Filed, RemovedStaysGone
<1>7. \A o \in Callers : Owns(calls'[o]) => o # c /\ calls'[o] = calls[o]
  BY <1>2 DEF Proceeds
<1>8. CallsApart'
  BY <1>1, <1>7 DEF ManagerInv, CallsApart, Owns
<1>9. Owned'
  <2>1. \A o \in Callers : Owns(calls[o]) => calls'[o] = calls[o]
    BY <1>2 DEF Proceeds
  <2>2. QED
    BY <1>1, <2>1 DEF ManagerInv, Owned, Owns
<1>10. QED
  BY <1>3, <1>4, <1>5, <1>6, <1>8, <1>9 DEF ManagerInv

\* The call c, which owns no instance, connects a new one for the database d.
Connects(c, d, inPlace, new) ==
    /\ UNCHANGED <<maps, removed, overlapped>>
    /\ d \in Databases /\ inPlace \in BOOLEAN
    /\ instances' = Append(instances, [open |-> TRUE, database |-> d, inPlace |-> inPlace])
    /\ calls' = [calls EXCEPT ![c] = new]
    /\ new \in Call
    /\ new.instance = Len(instances) + 1 /\ new.first \in 0 .. Len(instances)
    /\ Shape(new) /\ Reads(new)
    /\ d \in new.database
    /\ Carries(new)
    /\ new.phase \in {"insert", "swap"} => ~inPlace
    /\ ~Owns(calls[c])
    /\ new.phase = "swap" => calls[c].phase = "reopen" /\ new.session = calls[c].session

LEMMA ConnectsStep ==
    ASSUME ManagerInv, NEW c \in Callers, NEW d, NEW inPlace, NEW new,
           Connects(c, d, inPlace, new)
    PROVE  ManagerInv'
<1> DEFINE i == [open |-> TRUE, database |-> d, inPlace |-> inPlace]
           n == Len(instances)
<1>1. /\ connections' = connections /\ connectionNames' = connectionNames
      /\ connectionConfigs' = connectionConfigs /\ dbConnections' = dbConnections
      /\ removed' = removed /\ overlapped' = overlapped
  BY DEF Connects, maps
<1>2. /\ calls \in [Callers -> Call] /\ calls' \in [Callers -> Call]
      /\ calls'[c] = new
      /\ \A o \in Callers \ {c} : calls'[o] = calls[o]
  BY DEF Connects, ManagerInv, Types
<1>3. i \in Instance /\ i.open /\ i.database = d /\ i.inPlace = inPlace
  BY DEF Connects, Instance
<1>4. /\ instances' \in Seq(Instance)
      /\ n \in Nat /\ Len(instances') = n + 1
      /\ \A h \in 1 .. n : instances'[h] = instances[h]
      /\ instances'[n + 1] = i
  <2> HIDE DEF i
  <2>1. instances' = Append(instances, i) /\ instances \in Seq(Instance)
    BY DEF Connects, ManagerInv, Types, i
  <2>2. QED
    BY <1>3, <2>1, AppendFacts
<1> HIDE DEF i, n
<1>5. /\ \A s \in DOMAIN connections : connections[s] \in 1 .. n
      /\ \A k \in DOMAIN dbConnections : dbConnections[k] \in 1 .. n
  BY DEF ManagerInv, Types, n
<1>6. \A o \in Callers : calls[o].instance \in 0 .. n /\ calls[o].first \in 0 .. n
  BY DEF ManagerInv, CallsOK, Holds, n
<1>7. Types'
  <2>1. \A h \in 1 .. n : h \in 1 .. Len(instances')
    BY <1>4
  <2>2. QED
    BY <1>1, <1>2, <1>4, <1>5, <2>1 DEF ManagerInv, Types
<1>8. CallsOK'
  <2>1. ASSUME NEW o \in Callers \ {c}
        PROVE  (Shape(calls[o]) /\ Holds(calls[o]) /\ Reads(calls[o]))'
    <3>1. /\ Shape(calls[o]) /\ Holds(calls[o]) /\ Reads(calls[o])
          /\ calls'[o] = calls[o]
      BY <1>2 DEF ManagerInv, CallsOK
    <3>2. Shape(calls[o])'
      BY <3>1 DEF Shape
    <3>3. Holds(calls[o])'
      <4>1. /\ calls[o].instance \in 0 .. Len(instances')
            /\ calls[o].first \in 0 .. Len(instances')
        BY <1>4, <1>6
      <4>2. calls[o].instance # 0 => instances'[calls[o].instance] = instances[calls[o].instance]
        BY <1>4, <1>6
      <4>3. QED
        BY <3>1, <4>1, <4>2 DEF Holds, Carries
    <3>4. Reads(calls[o])'
      BY <1>1, <1>4, <1>5, <3>1 DEF Reads
    <3>5. QED
      BY <3>2, <3>3, <3>4
  <2>2. (Shape(calls[c]) /\ Holds(calls[c]) /\ Reads(calls[c]))'
    <3>1. Shape(calls[c])'
      BY <1>2 DEF Connects, Shape
    <3>2. Holds(calls[c])'
      <4>1. /\ new.instance \in 0 .. Len(instances') /\ new.first \in 0 .. Len(instances')
            /\ new.instance # 0 /\ instances'[new.instance] = i
        BY <1>4 DEF Connects, n
      <4>2. new.phase \notin {"use", "run"}
        BY DEF Connects, Carries
      <4>3. QED
        BY <1>2, <1>3, <4>1, <4>2 DEF Connects, Holds, Carries
    <3>3. Reads(calls[c])'
      BY <1>1, <1>2, <1>4, <1>5 DEF Connects, Reads
    <3>4. QED
      BY <3>1, <3>2, <3>3
  <2>3. QED
    BY <2>1, <2>2 DEF CallsOK
<1>9. OneSort'
  <2>1. \A o \in Callers : calls'[o].phase \in {"use", "record"} => calls'[o] = calls[o]
    BY <1>2 DEF Connects, Carries
  <2>2. \A o \in Callers : calls'[o].phase \in {"reopen", "swap"} =>
            calls[o].phase \in {"reopen", "swap"} /\ calls'[o].session = calls[o].session
    BY <1>2 DEF Connects, Carries
  <2>3. QED
    BY <2>1, <2>2 DEF ManagerInv, OneSort
<1>10. MapsOK' /\ Filed' /\ RemovedStaysGone'
  BY <1>1, <1>4, <1>5 DEF ManagerInv, MapsOK, Filed, RemovedStaysGone
<1>11. CallsApart'
  <2>1. \A s \in DOMAIN connections : connections[s] # n + 1
    BY <1>4, <1>5
  <2>2. \A k \in DOMAIN dbConnections : dbConnections[k] # n + 1
    BY <1>4, <1>5
  <2>3. \A o \in Callers : calls[o].instance # n + 1
    BY <1>4, <1>6
  <2>4. calls'[c].instance = n + 1
    BY <1>2 DEF Connects, n
  <2>5. QED
    BY <1>1, <1>2, <2>1, <2>2, <2>3, <2>4 DEF ManagerInv, CallsApart, Owns
<1>12. Owned'
  <2> SUFFICES ASSUME NEW h \in 1 .. n + 1, instances'[h].open
               PROVE  \/ \E s \in DOMAIN connections : connections[s] = h
                      \/ \E k \in DOMAIN dbConnections : dbConnections[k] = h
                      \/ \E o \in Callers : Owns(calls'[o]) /\ calls'[o].instance = h
    BY <1>1, <1>4 DEF Owned, Owns
  <2>1. CASE h = n + 1
    BY <1>2, <2>1 DEF Connects, Carries, Owns, n
  <2>2. CASE h \in 1 .. n
    <3>1. instances[h].open
      BY <1>4, <2>2
    <3>2. \A o \in Callers : Owns(calls[o]) => calls'[o] = calls[o]
      BY <1>2 DEF Connects
    <3>3. QED
      BY <2>2, <3>1, <3>2 DEF ManagerInv, Owned, n
  <2>3. QED
    BY <1>4, <2>1, <2>2
<1>13. QED
  BY <1>7, <1>8, <1>9, <1>10, <1>11, <1>12 DEF ManagerInv

-----------------------------------------------------------------------------
(* Steps that change one call and no map. *)

LEMMA IdleOK ==
    ASSUME Types
    PROVE  Idle \in Call /\ Shape(Idle) /\ Holds(Idle) /\ Reads(Idle) /\ ~Owns(Idle)
           /\ Idle.phase = "idle"
<1>1. Len(instances) \in Nat
  BY DEF Types
<1>2. Idle \in Call /\ Idle.phase = "idle" /\ Idle.session = {} /\ Idle.instance = 0
      /\ Idle.first = 0
  BY DEF Idle, Call, Phases
<1>3. QED
  BY <1>1, <1>2 DEF Shape, Holds, Reads, Owns, Carries

(***************************************************************************)
(* A resolved target: any instance if none is named, else one that is not  *)
(* bound to another database.                                              *)
(***************************************************************************)
LEMMA ReturnOK ==
    ASSUME Types, NEW call \in Call, AtMostOne(call.database),
           call.first \in 0 .. Len(instances), NEW h \in 1 .. Len(instances),
           \/ call.database = {}
           \/ instances[h].inPlace
           \/ SameName(instances[h].database, call.database)
    PROVE  /\ Return(call, h) \in Call
           /\ Shape(Return(call, h)) /\ Holds(Return(call, h)) /\ Reads(Return(call, h))
           /\ ~Owns(Return(call, h)) /\ ~Switching(Return(call, h))
<1> DEFINE new == Return(call, h)
<1>1. Len(instances) \in Nat
  BY DEF Types
<1>2. CASE call.first = 0
  <2>1. new = [phase |-> "read", id |-> call.id, stored |-> {}, session |-> {},
               database |-> call.database, config |-> {}, instance |-> 0,
               first |-> h]
    BY <1>2 DEF Return, Idle
  <2>2. call.id \subseteq Identifiers /\ call.database \subseteq Databases
        /\ h \in Nat /\ call.first \in Nat
    BY <1>1 DEF Call
  <2>3. /\ new \in Call /\ new.phase = "read" /\ new.session = {} /\ new.instance = 0
        /\ new.first = h /\ new.database = call.database
    <3> HIDE DEF new
    <3>1. QED
      BY <2>1, <2>2 DEF Call, Phases
  <2> HIDE DEF new
  <2>4. Holds(new)
    BY <1>1, <2>3 DEF Holds, Carries
  <2>5. Shape(new) /\ Reads(new) /\ ~Owns(new) /\ ~Switching(new)
    BY <2>3 DEF Shape, Reads, Owns, Switching
  <2>6. QED
    BY <2>3, <2>4, <2>5 DEF new
<1>3. CASE call.first # 0
  <2>1. new = [phase |-> "run", id |-> {}, stored |-> {}, session |-> {},
               database |-> call.database, config |-> {}, instance |-> h,
               first |-> call.first]
    BY <1>3 DEF Return, Idle
  <2>2. call.id \subseteq Identifiers /\ call.database \subseteq Databases
        /\ h \in Nat /\ call.first \in Nat
    BY <1>1 DEF Call
  <2>3. /\ new \in Call /\ new.phase = "run" /\ new.session = {} /\ new.instance = h
        /\ new.first = call.first /\ new.database = call.database
    <3> HIDE DEF new
    <3>1. QED
      BY <2>1, <2>2 DEF Call, Phases
  <2> HIDE DEF new
  <2>4. Holds(new)
    BY <1>1, <2>3 DEF Holds, Carries
  <2>5. Shape(new) /\ Reads(new) /\ ~Owns(new) /\ ~Switching(new)
    BY <2>3 DEF Shape, Reads, Owns, Switching
  <2>6. QED
    BY <2>3, <2>4, <2>5 DEF new
<1>4. QED
  BY <1>2, <1>3

LEMMA AfterReadOK ==
    ASSUME ManagerInv, NEW call \in Call, AtMostOne(call.database),
           call.instance \in 0 .. Len(instances), call.first \in 0 .. Len(instances)
    PROVE  LET new == AfterRead(call) IN
           /\ new \in Call
           /\ Shape(new) /\ Holds(new) /\ Reads(new)
           /\ ~Owns(new) /\ ~Switching(new)
<1> DEFINE s == CHOOSE x \in {Resolved(id) : id \in call.id} : TRUE
<1> HIDE DEF s
<1>1. Types /\ Len(instances) \in Nat
  BY DEF ManagerInv, Types
<1>2. CASE s \notin DOMAIN connections
  <2>1. AfterRead(call) = Idle
    BY <1>2 DEF AfterRead, s
  <2>2. QED
    BY <1>1, <2>1, IdleOK DEF Switching
<1>3. CASE s \in DOMAIN connections /\ (\/ call.database = {}
                                        \/ SameName(connectionConfigs[s], call.database)
                                        \/ instances[connections[s]].inPlace)
  <2>1. AfterRead(call) = Return(call, connections[s])
    BY <1>3 DEF AfterRead, s
  <2>2. connections[s] \in 1 .. Len(instances)
    BY <1>1, <1>3 DEF Types
  <2>3. \/ call.database = {}
        \/ instances[connections[s]].inPlace
        \/ SameName(instances[connections[s]].database, call.database)
    BY <1>3 DEF ManagerInv, Filed
  <2> DEFINE h == connections[s]
  <2>4. AfterRead(call) = Return(call, h) /\ h \in 1 .. Len(instances)
        /\ (\/ call.database = {} \/ instances[h].inPlace
            \/ SameName(instances[h].database, call.database))
    BY <2>1, <2>2, <2>3
  <2> HIDE DEF h
  <2>5. QED
    BY <1>1, <2>4, ReturnOK
<1>4. CASE s \in DOMAIN connections /\ ~(\/ call.database = {}
                                         \/ SameName(connectionConfigs[s], call.database)
                                         \/ instances[connections[s]].inPlace)
  <2> DEFINE new == [call EXCEPT !.phase = "lookup", !.session = {s},
                                 !.id = IF call.first = 0 THEN @ ELSE {}]
  <2>1. AfterRead(call) = new
    BY <1>4 DEF AfterRead, s
  <2>2. s \in Sessions
    BY <1>1, <1>4 DEF Types
  <2>3. /\ new \in Call /\ new.phase = "lookup" /\ new.session = {s}
        /\ new.database = call.database
        /\ new.instance = call.instance /\ new.first = call.first
    BY <2>2 DEF Call, Phases
  <2> HIDE DEF new
  <2>4. Shape(new) /\ Holds(new)
    BY <1>4, <2>2, <2>3 DEF Shape, Holds, Carries, AtMostOne
  <2>5. Reads(new)
    <3>1. s \in removed => s \in overlapped
      BY <1>4 DEF ManagerInv, RemovedStaysGone
    <3>2. QED
      BY <1>4, <2>3, <3>1 DEF Reads
  <2>6. QED
    BY <2>1, <2>3, <2>4, <2>5 DEF Owns, Switching
<1>5. QED
  BY <1>2, <1>3, <1>4

(***************************************************************************)
(* What is known of the call of a goroutine.                               *)
(***************************************************************************)
LEMMA CallFacts ==
    ASSUME ManagerInv, NEW c \in Callers
    PROVE  /\ calls[c] \in Call
           /\ calls[c].instance \in 0 .. Len(instances)
           /\ calls[c].first \in 0 .. Len(instances)
           /\ Shape(calls[c]) /\ Holds(calls[c]) /\ Reads(calls[c])
           /\ Len(instances) \in Nat
BY DEF ManagerInv, Types, CallsOK, Holds

LEMMA GivesUp ==
    ASSUME ManagerInv, NEW c \in Callers, ~Owns(calls[c]),
           UNCHANGED <<maps, instances, removed, overlapped>>,
           calls' = [calls EXCEPT ![c] = Idle]
    PROVE  ManagerInv'
<1>1. Proceeds(c, Idle)
  BY IdleOK DEF Proceeds, ManagerInv, Switching
<1>2. QED
  BY <1>1, ProceedsStep

LEMMA QueryStep ==
    ASSUME ManagerInv, NEW c \in Callers, NEW id \in Identifiers,
           NEW target \in {{}} \cup {{d} : d \in Targets}, Query(c, id, target)
    PROVE  ManagerInv'
<1> DEFINE call == [Idle EXCEPT !.id = {id}, !.database = target]
           new == AfterRead(call)
<1>1. Idle \in Call /\ Idle.phase = "idle" /\ Idle.instance = 0 /\ Idle.first = 0
  BY DEF Idle, Call, Phases
<1>2. AtMostOne(target) /\ target \subseteq Databases
  BY ConnectionManagerAssumption DEF AtMostOne
<1>3. /\ call \in Call /\ call.database = target /\ call.instance = 0 /\ call.first = 0
  BY <1>1, <1>2 DEF Call
<1>4. calls' = [calls EXCEPT ![c] = new]
  BY Zenon DEF Query
<1> HIDE DEF call, new
<1>5. UNCHANGED <<maps, instances, removed, overlapped>> /\ ~Owns(calls[c])
  BY DEF Query, history, Owns
<1>6. new \in Call /\ Shape(new) /\ Holds(new) /\ Reads(new) /\ ~Owns(new) /\ ~Switching(new)
  BY <1>2, <1>3, CallFacts, AfterReadOK DEF new
<1>7. Proceeds(c, new)
  BY <1>4, <1>5, <1>6 DEF Proceeds
<1>8. QED
  BY <1>7, ProceedsStep

LEMMA QueryAgainStep ==
    ASSUME ManagerInv, NEW c \in Callers, QueryAgain(c)
    PROVE  ManagerInv'
<1> DEFINE call == calls[c]
           new == AfterRead(call)
<1>1. call \in Call /\ AtMostOne(call.database)
      /\ call.instance \in 0 .. Len(instances) /\ call.first \in 0 .. Len(instances)
  BY CallFacts DEF QueryAgain, Shape
<1>2. UNCHANGED <<maps, instances, removed, overlapped>> /\ ~Owns(calls[c])
      /\ calls' = [calls EXCEPT ![c] = new]
  BY DEF QueryAgain, history, Owns
<1> HIDE DEF call
<1>3. new \in Call /\ Shape(new) /\ Holds(new) /\ Reads(new) /\ ~Owns(new) /\ ~Switching(new)
  BY <1>1, AfterReadOK
<1> HIDE DEF new
<1>4. Proceeds(c, new)
  BY <1>2, <1>3 DEF Proceeds
<1>5. QED
  BY <1>4, ProceedsStep

LEMMA LookupTargetStep ==
    ASSUME ManagerInv, NEW c \in Callers, LookupTarget(c)
    PROVE  ManagerInv'
<1> DEFINE call == calls[c]
           cached == DbKey(call) \cap DOMAIN dbConnections
           k == CHOOSE x \in cached : TRUE
           h == dbConnections[k]
<1>1. /\ call \in Call /\ Shape(call) /\ Holds(call) /\ Reads(call)
      /\ call.first \in 0 .. Len(instances) /\ call.phase = "lookup"
      /\ Types
  BY CallFacts DEF LookupTarget, ManagerInv
<1>2. PICK d \in Databases : call.database = {d}
  BY <1>1 DEF Shape
<1>3. UNCHANGED <<maps, instances, removed, overlapped>> /\ ~Owns(calls[c])
      /\ calls' = [calls EXCEPT ![c] = IF cached = {} THEN [call EXCEPT !.phase = "open"]
                                                      ELSE Return(call, h)]
  BY DEF LookupTarget, history, Owns
<1>4. CASE cached = {}
  <2> DEFINE new == [call EXCEPT !.phase = "open"]
  <2> HIDE DEF call, cached
  <2>1. /\ new \in Call /\ new.phase = "open" /\ new.session = call.session
        /\ new.database = call.database /\ new.instance = call.instance
        /\ new.first = call.first
    BY <1>1 DEF Call, Phases
  <2>2. calls' = [calls EXCEPT ![c] = new]
    BY <1>3, <1>4
  <2> HIDE DEF new
  <2>3. Shape(new) /\ Holds(new) /\ Reads(new) /\ ~Owns(new) /\ ~Switching(new)
    BY <1>1, <2>1 DEF Shape, Holds, Reads, Owns, Switching, Carries
  <2>4. Proceeds(c, new)
    BY <1>3, <2>1, <2>2, <2>3 DEF Proceeds
  <2>5. QED
    BY <2>4, ProceedsStep
<1>5. CASE cached # {}
  <2>1. k \in DOMAIN dbConnections /\ k \in DbKey(call)
    BY <1>5
  <2>2. k[2] = d
    BY <1>2, <2>1 DEF DbKey
  <2>3. h \in 1 .. Len(instances) /\ SameName(instances[h].database, call.database)
    BY <1>1, <1>2, <2>1, <2>2 DEF Types, ManagerInv, Filed, SameName
  <2> DEFINE new == Return(call, h)
  <2>4. AtMostOne(call.database)
    BY <1>2 DEF AtMostOne
  <2>5. calls' = [calls EXCEPT ![c] = new]
    BY <1>3, <1>5
  <2> HIDE DEF call, cached, k, h
  <2>6. new \in Call /\ Shape(new) /\ Holds(new) /\ Reads(new) /\ ~Owns(new) /\ ~Switching(new)
    BY <1>1, <2>3, <2>4, ReturnOK
  <2> HIDE DEF new
  <2>7. Proceeds(c, new)
    BY <1>3, <2>5, <2>6 DEF Proceeds
  <2>8. QED
    BY <2>7, ProceedsStep
<1>6. QED
  BY <1>4, <1>5

LEMMA RunQueryStep ==
    ASSUME ManagerInv, NEW c \in Callers, RunQuery(c)
    PROVE  ManagerInv'
<1>1. ~Owns(calls[c]) /\ UNCHANGED <<maps, instances, removed, overlapped>>
  BY DEF RunQuery, Owns, history
<1>2. QED
  BY <1>1, GivesUp DEF RunQuery

LEMMA ReadSwitchStep ==
    ASSUME ManagerInv, NEW c \in Callers, NEW s \in Sessions, NEW d \in Databases,
           ReadSwitch(c, s, d)
    PROVE  ManagerInv'
<1> DEFINE h == connections[s]
           phase == IF instances[h].inPlace THEN "use" ELSE "reopen"
           new == [Idle EXCEPT !.phase = phase, !.session = {s}, !.database = {d},
                               !.config = {connectionConfigs[s]}, !.instance = h]
<1>1. calls' = [calls EXCEPT ![c] = new]
  BY Zenon DEF ReadSwitch
<1>2. s \in DOMAIN connections /\ ~Owns(calls[c])
      /\ UNCHANGED <<maps, instances, removed, overlapped>>
  BY DEF ReadSwitch, Owns, history
<1>3. h \in 1 .. Len(instances) /\ connectionConfigs[s] \in Databases /\ Len(instances) \in Nat
  BY <1>2 DEF ManagerInv, Types
<1>4. phase \in Phases /\ (phase = "use" => instances[h].inPlace)
      /\ (phase = "reopen" => ~instances[h].inPlace) /\ phase \in {"use", "reopen"}
  BY DEF Phases
<1>5. s \in removed => s \in overlapped
  BY <1>2 DEF ManagerInv, RemovedStaysGone
<1> HIDE DEF phase
<1>6. Idle \in Call /\ Idle.first = 0
  BY DEF Idle, Call, Phases
<1>7. /\ new \in Call /\ new.phase = phase /\ new.session = {s} /\ new.database = {d}
      /\ new.instance = h /\ new.first = 0
  <2>1. /\ h \in Nat /\ {s} \in SUBSET Sessions /\ {d} \in SUBSET Databases
        /\ {connectionConfigs[s]} \in SUBSET Databases
    BY <1>3
  <2> DEFINE S == {s}
             D == {d}
             F == {connectionConfigs[s]}
  <2>2. phase \in Phases /\ Idle \in Call /\ Idle.first = 0
    BY <1>4, <1>6
  <2>3. S \in SUBSET Sessions /\ D \in SUBSET Databases /\ F \in SUBSET Databases /\ h \in Nat
    BY <2>1
  <2> HIDE DEF h, S, D, F
  <2>4. new = [Idle EXCEPT !.phase = phase, !.session = S, !.database = D, !.config = F,
                           !.instance = h]
    BY Zenon DEF S, D, F
  <2> HIDE DEF new
  <2>5. new = [phase |-> phase, id |-> {}, stored |-> {}, session |-> S, database |-> D,
               config |-> F, instance |-> h, first |-> 0]
    BY <2>4 DEF Idle
  <2>6. /\ new \in Call /\ new.phase = phase /\ new.session = S /\ new.database = D
        /\ new.instance = h /\ new.first = 0
    BY <2>2, <2>3, <2>5 DEF Call
  <2>7. QED
    BY <2>6, Zenon DEF S, D, new, h
<1> HIDE DEF new
<1>8. Shape(new) /\ Holds(new) /\ ~Owns(new)
  BY <1>3, <1>4, <1>7 DEF Shape, Holds, Carries, Owns
<1>9. Reads(new) /\ new.session \subseteq DOMAIN connections
  BY <1>2, <1>4, <1>5, <1>7 DEF Reads
<1>10. Proceeds(c, new)
  BY <1>1, <1>2, <1>7, <1>8, <1>9 DEF Proceeds
<1>11. QED
  BY <1>10, ProceedsStep

-----------------------------------------------------------------------------
(* Steps that connect. *)

LEMMA CreateConnectionStep ==
    ASSUME ManagerInv, NEW c \in Callers, NEW x \in Stored, CreateConnection(c, x)
    PROVE  ManagerInv'
<1> DEFINE d == Home[x]
           n == Len(instances) + 1
           X == {x}
           D == {d}
           request == [Idle EXCEPT !.phase = "register", !.stored = X, !.database = D]
           new == [request EXCEPT !.instance = n]
<1>1. ~Owns(calls[c]) /\ UNCHANGED <<maps, removed, overlapped>>
  BY DEF CreateConnection, Owns, history
<1>2. d \in Databases
  BY ConnectionManagerAssumption
<1>3. Types /\ Len(instances) \in Nat
  BY DEF ManagerInv, Types
<1>4. CASE calls' = [calls EXCEPT ![c] = Idle] /\ UNCHANGED instances
  BY <1>1, <1>4, GivesUp
<1>5. CASE /\ instances' = Append(instances, [open |-> TRUE, database |-> d,
                                               inPlace |-> x \in InPlace])
           /\ calls' = [calls EXCEPT ![c] = new]
  <2> HIDE DEF d, n, X, D
  <2>1. /\ request \in Call /\ request.phase = "register" /\ request.stored = X
        /\ request.session = {} /\ request.database = D /\ request.first = 0
    <3>1. X \subseteq Stored /\ D \subseteq Databases
      BY <1>2 DEF X, D
    <3>2. Idle \in Call /\ Idle.session = {} /\ Idle.first = 0
      BY DEF Idle, Call, Phases
    <3>3. QED
      BY <3>1, <3>2 DEF Call, Phases
  <2> HIDE DEF request
  <2>2. n \in Nat
    BY <1>3 DEF n
  <2>3. /\ new \in Call /\ new.phase = "register" /\ new.stored = {x} /\ new.session = {}
        /\ new.database = {d} /\ new.instance = n /\ new.first = 0
    <3>1. /\ new \in Call /\ new.phase = request.phase /\ new.stored = request.stored
          /\ new.session = request.session /\ new.database = request.database
          /\ new.instance = n /\ new.first = request.first
      BY <2>1, <2>2 DEF Call
    <3>2. QED
      BY <2>1, <3>1 DEF X, D
  <2> HIDE DEF new
  <2>4. Shape(new) /\ Reads(new) /\ Carries(new)
    BY <1>2, <2>3 DEF Shape, Reads, Carries
  <2>5. Connects(c, d, x \in InPlace, new)
    BY <1>1, <1>2, <1>3, <1>5, <2>3, <2>4 DEF Connects, n
  <2>6. QED
    BY <2>5, ConnectsStep
<1>6. QED
  BY <1>4, <1>5, Zenon DEF CreateConnection, Connect

LEMMA OpenTargetStep ==
    ASSUME ManagerInv, NEW c \in Callers, OpenTarget(c)
    PROVE  ManagerInv'
<1> DEFINE call == calls[c]
           n == Len(instances) + 1
           new == [[call EXCEPT !.phase = "insert"] EXCEPT !.instance = n]
<1>1. ~Owns(call) /\ call.phase = "open" /\ UNCHANGED <<maps, removed, overlapped>>
  BY DEF OpenTarget, Owns, history
<1>2. PICK d \in call.database : Connect(c, d, FALSE, [call EXCEPT !.phase = "insert"])
  BY DEF OpenTarget
<1>3. /\ call \in Call /\ Shape(call) /\ Holds(call) /\ Reads(call)
      /\ call.first \in 0 .. Len(instances) /\ Len(instances) \in Nat
  BY CallFacts
<1>4. d \in Databases
  BY <1>2, <1>3 DEF Call
<1>5. CASE calls' = [calls EXCEPT ![c] = Idle] /\ UNCHANGED instances
  BY <1>1, <1>5, GivesUp
<1>6. CASE /\ instances' = Append(instances, [open |-> TRUE, database |-> d,
                                               inPlace |-> FALSE])
           /\ calls' = [calls EXCEPT ![c] = new]
  <2> HIDE DEF call, n
  <2>1. n \in Nat
    BY <1>3 DEF n
  <2>2. /\ new \in Call /\ new.phase = "insert" /\ new.session = call.session
        /\ new.database = call.database /\ new.instance = n /\ new.first = call.first
    BY <1>3, <2>1 DEF Call, Phases
  <2> HIDE DEF new
  <2>3. Shape(new) /\ Reads(new) /\ Carries(new)
    BY <1>1, <1>3, <2>2 DEF Shape, Reads, Carries
  <2>4. Connects(c, d, FALSE, new)
    BY <1>1, <1>2, <1>3, <1>4, <1>6, <2>2, <2>3 DEF Connects, n, call
  <2>5. QED
    BY <2>4, ConnectsStep
<1>7. QED
  BY <1>2, <1>5, <1>6, Zenon DEF Connect

LEMMA ReopenStep ==
    ASSUME ManagerInv, NEW c \in Callers, Reopen(c)
    PROVE  ManagerInv'
<1> DEFINE call == calls[c]
           n == Len(instances) + 1
           new == [[call EXCEPT !.phase = "swap"] EXCEPT !.instance = n]
<1>1. ~Owns(call) /\ call.phase = "reopen" /\ UNCHANGED <<maps, removed, overlapped>>
  BY DEF Reopen, Owns, history
<1>2. PICK d \in call.database : Connect(c, d, FALSE, [call EXCEPT !.phase = "swap"])
  BY DEF Reopen
<1>3. /\ call \in Call /\ Shape(call) /\ Holds(call) /\ Reads(call)
      /\ call.first \in 0 .. Len(instances) /\ Len(instances) \in Nat
  BY CallFacts
<1>4. d \in Databases
  BY <1>2, <1>3 DEF Call
<1>5. CASE calls' = [calls EXCEPT ![c] = Idle] /\ UNCHANGED instances
  BY <1>1, <1>5, GivesUp
<1>6. CASE /\ instances' = Append(instances, [open |-> TRUE, database |-> d,
                                               inPlace |-> FALSE])
           /\ calls' = [calls EXCEPT ![c] = new]
  <2> HIDE DEF call, n
  <2>1. n \in Nat
    BY <1>3 DEF n
  <2>2. /\ new \in Call /\ new.phase = "swap" /\ new.session = call.session
        /\ new.database = call.database /\ new.instance = n /\ new.first = call.first
    BY <1>3, <2>1 DEF Call, Phases
  <2> HIDE DEF new
  <2>3. Shape(new) /\ Reads(new) /\ Carries(new)
    BY <1>1, <1>3, <2>2 DEF Shape, Reads, Carries
  <2>4. Connects(c, d, FALSE, new)
    BY <1>1, <1>2, <1>3, <1>4, <1>6, <2>2, <2>3 DEF Connects, n, call
  <2>5. QED
    BY <2>4, ConnectsStep
<1>7. QED
  BY <1>2, <1>5, <1>6, Zenon DEF Connect

-----------------------------------------------------------------------------
(* What most steps preserve. *)

\* Instances may be disconnected, and those that take a USE change their database.
Kept ==
    /\ instances' \in Seq(Instance)
    /\ Len(instances') = Len(instances)
    /\ \A h \in 1 .. Len(instances) :
         /\ instances'[h].inPlace = instances[h].inPlace
         /\ ~instances[h].inPlace => instances'[h].database = instances[h].database

LEMMA DisconnectKeeps ==
    ASSUME ManagerInv, NEW H, instances' = Disconnected(H)
    PROVE  Kept
BY DisconnectedFacts DEF Kept, ManagerInv

LEMMA HoldsKept ==
    ASSUME ManagerInv, NEW o \in Callers, calls'[o] = calls[o], Kept,
           Carries(calls[o]) => instances'[calls[o].instance].open
    PROVE  Holds(calls[o])'
<1> DEFINE call == calls[o]
           h == call.instance
           n == Len(instances)
<1>1. Holds(call) /\ n \in Nat
  BY CallFacts
<1>2. h \in 0 .. n /\ call.first \in 0 .. n
  BY <1>1 DEF Holds
<1>3. h # 0 => /\ instances'[h].inPlace = instances[h].inPlace
               /\ ~instances[h].inPlace => instances'[h].database = instances[h].database
  BY <1>1, <1>2 DEF Kept
<1>4. Len(instances') = n /\ calls'[o] = call
  BY DEF Kept
<1>5. QED
  BY <1>1, <1>2, <1>3, <1>4 DEF Holds, Carries

LEMMA ShapeKept ==
    ASSUME ManagerInv, NEW o \in Callers, calls'[o] = calls[o]
    PROVE  Shape(calls[o])'
BY CallFacts DEF Shape

LEMMA ReadsKept ==
    ASSUME ManagerInv, NEW o \in Callers, calls'[o] = calls[o], Kept,
           UNCHANGED <<connections, removed, overlapped>>
    PROVE  Reads(calls[o])'
<1>1. \A s \in DOMAIN connections : connections[s] \in 1 .. Len(instances)
  BY DEF ManagerInv, Types
<1>2. Reads(calls[o])
  BY CallFacts
<1>3. QED
  BY <1>1, <1>2 DEF Reads, Kept

(***************************************************************************)
(* No call but c changes, and c is not switching afterwards.               *)
(***************************************************************************)
LEMMA OneSortKept ==
    ASSUME ManagerInv, NEW c \in Callers,
           \A o \in Callers \ {c} : calls'[o] = calls[o],
           ~Switching(calls'[c])
    PROVE  OneSort'
<1> SUFFICES ASSUME NEW a \in Callers, NEW b \in Callers,
                    calls'[a].phase \in {"use", "record"},
                    calls'[b].phase \in {"reopen", "swap"}
             PROVE  calls'[a].session \cap calls'[b].session = {}
  BY DEF OneSort
<1>1. a # c /\ b # c
  BY DEF Switching
<1>2. QED
  BY <1>1 DEF ManagerInv, OneSort

LEMMA DropOldStep ==
    ASSUME ManagerInv, NEW c \in Callers, DropOld(c)
    PROVE  ManagerInv'
<1> DEFINE h == calls[c].instance
<1>1. /\ calls[c].phase = "drop" /\ Owns(calls[c])
      /\ instances' = Disconnected({h})
      /\ calls' = [calls EXCEPT ![c] = Idle]
      /\ connections' = connections /\ connectionNames' = connectionNames
      /\ connectionConfigs' = connectionConfigs /\ dbConnections' = dbConnections
      /\ removed' = removed /\ overlapped' = overlapped
  BY DEF DropOld, Old, Owns, maps, history
<1>2. /\ calls \in [Callers -> Call] /\ calls' \in [Callers -> Call]
      /\ calls'[c] = Idle
      /\ \A o \in Callers \ {c} : calls'[o] = calls[o]
  BY <1>1, IdleOK DEF ManagerInv, Types
<1>3. Kept /\ Types /\ Len(instances) \in Nat
  BY <1>1, DisconnectKeeps DEF ManagerInv, Types
<1>4. \A i \in 1 .. Len(instances) : i # h => instances'[i] = instances[i]
  BY <1>1, <1>3, DisconnectedFacts
<1>5. \A i \in 1 .. Len(instances) : i = h => ~instances'[i].open
  BY <1>1, <1>3, DisconnectedFacts
<1>6. Idle.phase = "idle" /\ Idle.session = {} /\ Idle.instance = 0 /\ Idle.first = 0
  BY DEF Idle
<1> HIDE DEF h
<1>7. /\ \A s \in DOMAIN connections : connections[s] # h /\ connections[s] \in 1 .. Len(instances)
      /\ \A k \in DOMAIN dbConnections : dbConnections[k] # h
                                         /\ dbConnections[k] \in 1 .. Len(instances)
  BY <1>1 DEF ManagerInv, CallsApart, Types, h
<1>8. Types'
  BY <1>1, <1>2, <1>3 DEF Types, Kept
<1>9. CallsOK'
  <2>1. ASSUME NEW o \in Callers \ {c}
        PROVE  (Shape(calls[o]) /\ Holds(calls[o]) /\ Reads(calls[o]))'
    <3>1. calls'[o] = calls[o]
      BY <1>2
    <3>2. ASSUME Carries(calls[o])
          PROVE  instances'[calls[o].instance].open
      <4>1. calls[o].instance \in 1 .. Len(instances) /\ instances[calls[o].instance].open
        BY <1>3, <3>2, CallFacts DEF Holds
      <4>2. calls[o].instance # h
        BY <1>1, <3>2, <4>1 DEF ManagerInv, CallsApart, Owns, Carries, h
      <4>3. QED
        BY <1>4, <4>1, <4>2
    <3>3. QED
      BY <1>1, <1>3, <3>1, <3>2, ShapeKept, HoldsKept, ReadsKept
  <2>2. (Shape(calls[c]) /\ Holds(calls[c]) /\ Reads(calls[c]))'
    BY <1>2, <1>3, <1>6 DEF Shape, Holds, Reads, Carries, Kept
  <2>3. QED
    BY <2>1, <2>2 DEF CallsOK
<1>10. OneSort'
  BY <1>2, <1>6, OneSortKept DEF Switching
<1>11. MapsOK'
  BY <1>1, <1>4, <1>7 DEF ManagerInv, MapsOK
<1>12. CallsApart'
  <2>1. \A o \in Callers : Owns(calls'[o]) => o # c /\ calls'[o] = calls[o]
    BY <1>2, <1>6 DEF Owns
  <2>2. QED
    BY <1>1, <2>1 DEF ManagerInv, CallsApart, Owns
<1>13. Filed'
  BY <1>1, <1>4, <1>7 DEF ManagerInv, Filed
<1>14. Owned'
  <2> SUFFICES ASSUME NEW i \in 1 .. Len(instances), instances'[i].open
               PROVE  \/ \E s \in DOMAIN connections : connections[s] = i
                      \/ \E k \in DOMAIN dbConnections : dbConnections[k] = i
                      \/ \E o \in Callers : Owns(calls'[o]) /\ calls'[o].instance = i
    BY <1>1, <1>3 DEF Owned, Owns, Kept
  <2>1. i # h /\ instances[i].open
    BY <1>4, <1>5
  <2>2. QED
    BY <1>2, <2>1 DEF ManagerInv, Owned, h
<1>15. RemovedStaysGone'
  BY <1>1 DEF ManagerInv, RemovedStaysGone
<1>16. QED
  BY <1>8, <1>9, <1>10, <1>11, <1>12, <1>13, <1>14, <1>15 DEF ManagerInv

-----------------------------------------------------------------------------
(* Switching. *)

LEMMA UseDatabaseStep ==
    ASSUME ManagerInv, NEW c \in Callers, UseDatabase(c)
    PROVE  ManagerInv'
<1> DEFINE call == calls[c]
           h == call.instance
<1>1. /\ call.phase = "use" /\ ~Owns(call)
      /\ connections' = connections /\ connectionNames' = connectionNames
      /\ connectionConfigs' = connectionConfigs /\ dbConnections' = dbConnections
      /\ removed' = removed /\ overlapped' = overlapped
  BY DEF UseDatabase, Owns, maps
<1>2. CASE calls' = [calls EXCEPT ![c] = Idle] /\ UNCHANGED instances
  <2>1. UNCHANGED <<maps, instances, removed, overlapped>>
    BY <1>1, <1>2 DEF maps
  <2>2. QED
    BY <1>1, <1>2, <2>1, GivesUp
<1>3. ASSUME NEW d \in call.database,
             instances' = [instances EXCEPT ![h].database = d],
             calls' = [calls EXCEPT ![c].phase = "record"]
      PROVE  ManagerInv'
  <2>1. /\ call \in Call /\ Shape(call) /\ Holds(call) /\ Reads(call)
        /\ Len(instances) \in Nat /\ instances \in Seq(Instance)
    BY CallFacts DEF ManagerInv, Types
  <2>2. h \in 1 .. Len(instances) /\ instances[h].inPlace /\ d \in Databases
    BY <1>1, <1>3, <2>1 DEF Holds, Call
  <2>3. /\ calls \in [Callers -> Call] /\ calls' \in [Callers -> Call]
        /\ \A o \in Callers \ {c} : calls'[o] = calls[o]
        /\ calls'[c].phase = "record" /\ calls'[c].session = call.session
        /\ calls'[c].database = call.database /\ calls'[c].instance = h
        /\ calls'[c].first = call.first
    <3> DEFINE new == [call EXCEPT !.phase = "record"]
    <3>1. /\ new \in Call /\ new.phase = "record" /\ new.session = call.session
          /\ new.database = call.database /\ new.instance = h /\ new.first = call.first
      <4> HIDE DEF call
      <4>1. QED
        BY <2>1 DEF Call, Phases
    <3>2. calls' = [calls EXCEPT ![c] = new] /\ calls \in [Callers -> Call]
      BY <1>3 DEF ManagerInv, Types
    <3> HIDE DEF new, call
    <3>3. QED
      BY <3>1, <3>2
  <2>4. Kept /\ \A i \in 1 .. Len(instances) : instances'[i].open = instances[i].open
    <3> DEFINE e == [instances[h] EXCEPT !.database = d]
    <3>1. /\ e \in Instance /\ e.open = instances[h].open /\ e.inPlace = instances[h].inPlace
      <4>1. instances[h] \in Instance
        BY <2>1, <2>2
      <4>2. QED
        BY <2>2, <4>1 DEF Instance
    <3>2. instances' = [instances EXCEPT ![h] = e]
      BY <1>3
    <3> HIDE DEF e, call, h
    <3>3. /\ instances' \in Seq(Instance) /\ Len(instances') = Len(instances)
          /\ instances'[h] = e
          /\ \A i \in 1 .. Len(instances) : i # h => instances'[i] = instances[i]
      BY <2>1, <2>2, <3>1, <3>2
    <3>4. QED
      BY <2>2, <3>1, <3>3 DEF Kept
  <2> HIDE DEF call, h
  <2>5. /\ \A s \in DOMAIN connections : connections[s] \in 1 .. Len(instances)
        /\ \A k \in DOMAIN dbConnections : dbConnections[k] \in 1 .. Len(instances)
    BY DEF ManagerInv, Types
  <2>6. Types'
    BY <1>1, <2>3, <2>4 DEF ManagerInv, Types, Kept
  <2>7. CallsOK'
    <3>1. ASSUME NEW o \in Callers \ {c}
          PROVE  (Shape(calls[o]) /\ Holds(calls[o]) /\ Reads(calls[o]))'
      <4>1. calls'[o] = calls[o]
        BY <2>3
      <4>2. Carries(calls[o]) => instances'[calls[o].instance].open
        BY <2>1, <2>4, CallFacts DEF Holds
      <4>3. QED
        BY <1>1, <2>4, <4>1, <4>2, ShapeKept, HoldsKept, ReadsKept
    <3>2. Shape(calls[c])'
      BY <1>1, <2>1, <2>3 DEF Shape
    <3>3. Holds(calls[c])'
      BY <1>1, <2>1, <2>3, <2>4 DEF Holds, Kept, Carries, h
    <3>4. Reads(calls[c])'
      BY <1>1, <2>1, <2>3, <2>4, <2>5 DEF Reads, Kept
    <3>5. QED
      BY <3>1, <3>2, <3>3, <3>4 DEF CallsOK
  <2>8. OneSort'
    <3>1. \A o \in Callers : /\ calls'[o].session = calls[o].session
                             /\ calls'[o].phase \in {"use", "record"} =>
                                  calls[o].phase \in {"use", "record"}
                             /\ calls'[o].phase \in {"reopen", "swap"} =>
                                  calls[o].phase \in {"reopen", "swap"}
      BY <1>1, <2>3 DEF call
    <3>2. QED
      BY <3>1 DEF ManagerInv, OneSort
  <2>9. MapsOK' /\ Filed'
    BY <1>1, <2>4, <2>5 DEF ManagerInv, MapsOK, Filed, Kept
  <2>10. \A o \in Callers : /\ Owns(calls'[o]) => o # c /\ calls'[o] = calls[o]
                            /\ Owns(calls[o]) => calls'[o] = calls[o]
    BY <1>1, <2>3 DEF Owns, call
  <2>11. CallsApart'
    BY <1>1, <2>10 DEF ManagerInv, CallsApart, Owns
  <2>12. Owned'
    BY <1>1, <2>4, <2>10 DEF ManagerInv, Owned, Owns, Kept
  <2>13. RemovedStaysGone'
    BY <1>1 DEF ManagerInv, RemovedStaysGone
  <2>14. QED
    BY <2>6, <2>7, <2>8, <2>9, <2>11, <2>12, <2>13 DEF ManagerInv
<1>4. QED
  BY <1>2, <1>3, Zenon DEF UseDatabase

(***************************************************************************)
(* The aliases after a switch of the session s to the database d.          *)
(***************************************************************************)
LEMMA AliasFacts ==
    ASSUME Types, NEW call, NEW s \in Sessions, NEW d \in Databases,
           call.session = {s}, call.database = {d}
    PROVE  \A n \in DOMAIN AliasesAfter(call) :
              n \in Stored \cup Databases /\ AliasesAfter(call)[n] \in Sessions
<1> DEFINE K == call.config \cap
                  {n \in DOMAIN connectionNames : connectionNames[n] \in call.session}
           rest == Without(connectionNames, K)
           v == CHOOSE x \in call.session : TRUE
<1>1. AliasesAfter(call) = Put(rest, call.database, v)
  BY Zenon DEF AliasesAfter
<1>2. v = s
  OBVIOUS
<1> HIDE DEF K, v
<1>3. DOMAIN rest \subseteq DOMAIN connectionNames
      /\ \A n \in DOMAIN rest : rest[n] = connectionNames[n]
  BY DEF rest, Without, Restrict
<1> HIDE DEF rest
<1>4. /\ DOMAIN Put(rest, call.database, v) = DOMAIN rest \cup call.database
      /\ \A n \in call.database : Put(rest, call.database, v)[n] = v
      /\ \A n \in DOMAIN rest \ call.database : Put(rest, call.database, v)[n] = rest[n]
  BY DEF Put
<1>5. QED
  BY <1>1, <1>2, <1>3, <1>4 DEF Types

LEMMA RecordSwitchStep ==
    ASSUME ManagerInv, NEW c \in Callers, RecordSwitch(c)
    PROVE  ManagerInv'
<1> DEFINE call == calls[c]
<1>1. /\ call \in Call /\ Shape(call) /\ Reads(call) /\ call.phase = "record"
      /\ Types
  BY CallFacts DEF RecordSwitch, ManagerInv
<1>2. PICK s \in Sessions : call.session = {s}
  BY <1>1 DEF Shape
<1>3. PICK d \in Databases : call.database = {d}
  BY <1>1 DEF Shape
<1>4. /\ connectionConfigs' = Put(connectionConfigs, {s}, d)
      /\ connectionNames' = AliasesAfter(call)
      /\ calls' = [calls EXCEPT ![c] = Idle]
      /\ connections' = connections /\ dbConnections' = dbConnections
      /\ instances' = instances /\ removed' = removed /\ overlapped' = overlapped
  <2>1. (CHOOSE x \in {d} : TRUE) = d
    OBVIOUS
  <2>2. QED
    BY <1>2, <1>3, <2>1 DEF RecordSwitch, history
<1>5. /\ calls \in [Callers -> Call] /\ calls' \in [Callers -> Call]
      /\ calls'[c] = Idle
      /\ \A o \in Callers \ {c} : calls'[o] = calls[o]
  BY <1>1, <1>4, IdleOK DEF Types
<1>6. Idle.phase = "idle" /\ Idle.session = {} /\ Idle.instance = 0 /\ Idle.first = 0
      /\ ~Owns(call)
  BY <1>1 DEF Idle, Owns
<1> HIDE DEF call
<1>7. /\ DOMAIN connectionConfigs' = DOMAIN connectionConfigs \cup {s}
      /\ connectionConfigs'[s] = d
      /\ \A t \in DOMAIN connectionConfigs \ {s} :
           connectionConfigs'[t] = connectionConfigs[t]
  BY <1>4 DEF Put
<1>8. \A n \in DOMAIN connectionNames' :
        n \in Stored \cup Databases /\ connectionNames'[n] \in Sessions
  BY <1>1, <1>2, <1>3, <1>4, AliasFacts
<1>9. Kept
  BY <1>1, <1>4 DEF Kept, Types
<1>10. Types'
  BY <1>1, <1>4, <1>5, <1>7, <1>8 DEF Types
<1>11. CallsOK'
  <2>1. ASSUME NEW o \in Callers \ {c}
        PROVE  (Shape(calls[o]) /\ Holds(calls[o]) /\ Reads(calls[o]))'
    <3>1. calls'[o] = calls[o] /\ (Carries(calls[o]) => instances'[calls[o].instance].open)
      BY <1>4, <1>5, CallFacts DEF Holds
    <3>2. QED
      BY <1>4, <1>9, <3>1, ShapeKept, HoldsKept, ReadsKept
  <2>2. (Shape(calls[c]) /\ Holds(calls[c]) /\ Reads(calls[c]))'
    BY <1>1, <1>4, <1>5, <1>6 DEF Shape, Holds, Reads, Carries, Types
  <2>3. QED
    BY <2>1, <2>2 DEF CallsOK
<1>12. OneSort'
  BY <1>5, <1>6, OneSortKept DEF Switching
<1>13. Filed'
  <2>1. s \in DOMAIN connections => instances[connections[s]].inPlace
    BY <1>1, <1>2 DEF Reads
  <2>2. QED
    BY <1>4, <1>7, <2>1 DEF ManagerInv, Filed, Types
<1>14. MapsOK' /\ RemovedStaysGone'
  BY <1>4 DEF ManagerInv, MapsOK, RemovedStaysGone
<1>15. \A o \in Callers : /\ Owns(calls'[o]) => o # c /\ calls'[o] = calls[o]
                          /\ Owns(calls[o]) => calls'[o] = calls[o]
  BY <1>5, <1>6 DEF Owns, call
<1>16. CallsApart' /\ Owned'
  BY <1>4, <1>15 DEF ManagerInv, CallsApart, Owned, Owns
<1>17. QED
  BY <1>10, <1>11, <1>12, <1>13, <1>14, <1>16 DEF ManagerInv

LEMMA SwapStep ==
    ASSUME ManagerInv, NEW c \in Callers, Swap(c)
    PROVE  ManagerInv'
<1> DEFINE call == calls[c]
           h == call.instance
<1>1. /\ call \in Call /\ Shape(call) /\ Reads(call) /\ Holds(call) /\ call.phase = "swap"
      /\ Types /\ Len(instances) \in Nat
  BY CallFacts DEF Swap, ManagerInv
<1>2. PICK s \in Sessions : call.session = {s}
  BY <1>1 DEF Shape
<1>3. PICK d \in Databases : call.database = {d}
  BY <1>1 DEF Shape
<1> DEFINE old == InstanceOf(s)
           new == [Idle EXCEPT !.phase = "drop", !.instance = old]
<1>4. /\ connections' = Put(connections, {s}, h)
      /\ connectionConfigs' = Put(connectionConfigs, {s}, d)
      /\ connectionNames' = AliasesAfter(call)
      /\ calls' = [calls EXCEPT ![c] = new]
      /\ dbConnections' = dbConnections
      /\ instances' = instances /\ removed' = removed /\ overlapped' = overlapped
  <2>1. (CHOOSE x \in {d} : TRUE) = d
    OBVIOUS
  <2>2. (CHOOSE x \in {InstanceOf(t) : t \in {s}} : TRUE) = old
    OBVIOUS
  <2>3. calls' = [calls EXCEPT ![c] = new]
    BY <1>2, <2>2, Zenon DEF Swap
  <2>4. QED
    BY <1>2, <1>3, <2>1, <2>3 DEF Swap, ConfigAfter, history
<1>5. old \in 0 .. Len(instances) /\ (old # 0 => s \in DOMAIN connections /\ connections[s] = old)
      /\ (s \in DOMAIN connections => connections[s] = old)
  BY <1>1 DEF InstanceOf, Types
<1> HIDE DEF old
<1>6. /\ new \in Call /\ new.phase = "drop" /\ new.session = {} /\ new.instance = old
      /\ new.first = 0
  <2>1. Idle \in Call /\ Idle.session = {} /\ Idle.first = 0
    BY DEF Idle, Call, Phases
  <2>2. old \in Nat
    BY <1>1, <1>5
  <2>3. QED
    BY <2>1, <2>2 DEF Call, Phases
<1> HIDE DEF new
<1>7. /\ calls \in [Callers -> Call] /\ calls' \in [Callers -> Call]
      /\ calls'[c] = new
      /\ \A o \in Callers \ {c} : calls'[o] = calls[o]
  BY <1>1, <1>4, <1>6 DEF Types
<1>8. /\ h \in 1 .. Len(instances) /\ instances[h].open /\ ~instances[h].inPlace
      /\ instances[h].database = d /\ Owns(call)
  BY <1>1, <1>3 DEF Holds, Carries, Owns
<1>9. /\ \A t \in DOMAIN connections : connections[t] # h
      /\ \A k \in DOMAIN dbConnections : dbConnections[k] # h
      /\ \A o \in Callers \ {c} : Owns(calls[o]) => calls[o].instance # h
  BY <1>8 DEF ManagerInv, CallsApart
<1> HIDE DEF call, h
<1>10. /\ DOMAIN connections' = DOMAIN connections \cup {s} /\ connections'[s] = h
       /\ \A t \in DOMAIN connections \ {s} : connections'[t] = connections[t]
  BY <1>4 DEF Put
<1>11. /\ DOMAIN connectionConfigs' = DOMAIN connectionConfigs \cup {s}
       /\ connectionConfigs'[s] = d
       /\ \A t \in DOMAIN connectionConfigs \ {s} :
            connectionConfigs'[t] = connectionConfigs[t]
  BY <1>4 DEF Put
<1>12. \A n \in DOMAIN connectionNames' :
         n \in Stored \cup Databases /\ connectionNames'[n] \in Sessions
  BY <1>1, <1>2, <1>3, <1>4, AliasFacts
<1>13. Kept
  BY <1>1, <1>4 DEF Kept, Types
<1>14. Types'
  BY <1>1, <1>4, <1>7, <1>8, <1>10, <1>11, <1>12 DEF Types
<1>15. CallsOK'
  <2>1. ASSUME NEW o \in Callers \ {c}
        PROVE  (Shape(calls[o]) /\ Holds(calls[o]) /\ Reads(calls[o]))'
    <3>1. calls'[o] = calls[o] /\ (Carries(calls[o]) => instances'[calls[o].instance].open)
      BY <1>4, <1>7, CallFacts DEF Holds
    <3>2. Reads(calls[o])
      BY CallFacts
    <3>3. calls[o].phase \in {"use", "record"} => s \notin calls[o].session
      BY <1>1, <1>2 DEF ManagerInv, OneSort, call
    <3>4. Reads(calls[o])'
      BY <1>4, <1>8, <1>10, <3>1, <3>2, <3>3 DEF Reads
    <3>5. QED
      BY <1>13, <3>1, <3>4, ShapeKept, HoldsKept
  <2>2. (Shape(calls[c]) /\ Holds(calls[c]) /\ Reads(calls[c]))'
    BY <1>1, <1>4, <1>5, <1>6, <1>7 DEF Shape, Holds, Reads, Carries
  <2>3. QED
    BY <2>1, <2>2 DEF CallsOK
<1>16. OneSort'
  BY <1>6, <1>7, OneSortKept DEF Switching
<1>17. MapsOK'
  <2>1. \A t, u \in DOMAIN connections' : connections'[t] = connections'[u] => t = u
    BY <1>9, <1>10 DEF ManagerInv, MapsOK
  <2>2. \A t \in DOMAIN connections', k \in DOMAIN dbConnections :
          connections'[t] # dbConnections[k]
    BY <1>9, <1>10 DEF ManagerInv, MapsOK
  <2>3. \A t \in DOMAIN connections' : instances[connections'[t]].open
    BY <1>8, <1>10 DEF ManagerInv, MapsOK
  <2>4. QED
    BY <1>4, <2>1, <2>2, <2>3 DEF ManagerInv, MapsOK
<1>18. CallsApart'
  <2>1. \A o \in Callers \ {c} : Owns(calls[o]) =>
          /\ \A t \in DOMAIN connections' : connections'[t] # calls[o].instance
          /\ \A k \in DOMAIN dbConnections : dbConnections[k] # calls[o].instance
          /\ old # 0 => old # calls[o].instance
    BY <1>5, <1>9, <1>10 DEF ManagerInv, CallsApart
  <2>2. /\ \A t \in DOMAIN connections' : connections'[t] # old
        /\ \A k \in DOMAIN dbConnections : dbConnections[k] # old
    <3>1. old = 0 => /\ \A t \in DOMAIN connections' : connections'[t] # old
                     /\ \A k \in DOMAIN dbConnections : dbConnections[k] # old
      BY <1>1, <1>8, <1>10 DEF Types
    <3>2. old # 0 => /\ \A t \in DOMAIN connections' : connections'[t] # old
                     /\ \A k \in DOMAIN dbConnections : dbConnections[k] # old
      BY <1>5, <1>9, <1>10 DEF ManagerInv, MapsOK
    <3>3. QED
      BY <3>1, <3>2
  <2>3. \A o \in Callers, a \in Callers \ {c} :
          o # c /\ o # a /\ Owns(calls[o]) /\ Owns(calls[a]) /\ calls[o].instance # 0 =>
             calls[a].instance # calls[o].instance
    BY DEF ManagerInv, CallsApart
  <2>4. ASSUME NEW a \in Callers, Owns(calls'[a])
        PROVE  /\ \A t \in DOMAIN connections' : connections'[t] # calls'[a].instance
               /\ \A k \in DOMAIN dbConnections : dbConnections[k] # calls'[a].instance
               /\ \A o \in Callers \ {a} :
                    Owns(calls'[o]) /\ calls'[a].instance # 0 =>
                       calls'[o].instance # calls'[a].instance
    <3>1. CASE a = c
      BY <1>6, <1>7, <2>1, <2>2, <3>1
    <3>2. CASE a # c
      <4>1. calls'[a] = calls[a]
        BY <1>7, <3>2
      <4>2. \A o \in Callers \ {a} : o # c => calls'[o] = calls[o]
        BY <1>7
      <4>3. QED
        BY <1>6, <1>7, <2>1, <2>3, <2>4, <3>2, <4>1, <4>2
    <3>3. QED
      BY <3>1, <3>2
  <2>5. QED
    BY <1>4, <2>4 DEF CallsApart, Owns
<1>19. Filed'
  BY <1>4, <1>8, <1>10, <1>11 DEF ManagerInv, Filed, Types
<1>20. Owned'
  <2> SUFFICES ASSUME NEW i \in 1 .. Len(instances), instances[i].open
               PROVE  \/ \E t \in DOMAIN connections' : connections'[t] = i
                      \/ \E k \in DOMAIN dbConnections : dbConnections[k] = i
                      \/ \E o \in Callers : Owns(calls'[o]) /\ calls'[o].instance = i
    BY <1>4 DEF Owned, Owns
  <2>1. CASE i = h
    BY <1>10, <2>1
  <2>2. CASE i = old
    BY <1>6, <1>7, <2>2 DEF Owns
  <2>3. CASE i # h /\ i # old
    <3>1. CASE \E t \in DOMAIN connections : connections[t] = i
      BY <1>5, <1>10, <2>3, <3>1
    <3>2. CASE \E o \in Callers : Owns(calls[o]) /\ calls[o].instance = i
      BY <1>7, <2>3, <3>2 DEF h, call
    <3>3. QED
      BY <3>1, <3>2 DEF ManagerInv, Owned
  <2>4. QED
    BY <2>1, <2>2, <2>3
<1>21. RemovedStaysGone'
  BY <1>1, <1>2, <1>4, <1>10 DEF ManagerInv, RemovedStaysGone, Reads
<1>22. QED
  BY <1>14, <1>15, <1>16, <1>17, <1>18, <1>19, <1>20, <1>21 DEF ManagerInv

-----------------------------------------------------------------------------
(* Registering a connection and inserting a target. *)

LEMMA RegisterStep ==
    ASSUME ManagerInv, NEW c \in Callers, NEW s \in Sessions, Register(c, s)
    PROVE  ManagerInv'
<1> DEFINE call == calls[c]
           h == call.instance
<1>1. /\ call \in Call /\ Shape(call) /\ Holds(call) /\ call.phase = "register"
      /\ Types /\ Len(instances) \in Nat
  BY CallFacts DEF Register, ManagerInv
<1>2. PICK d \in Databases : call.database = {d}
  BY <1>1 DEF Shape
<1>3. PICK x \in Stored : call.stored = {x}
  BY <1>1 DEF Shape
<1>4. /\ connections' = Put(connections, {s}, h)
      /\ connectionConfigs' = Put(connectionConfigs, {s}, d)
      /\ connectionNames' = Put(connectionNames, {x} \cup {d}, s)
      /\ calls' = [calls EXCEPT ![c] = Idle]
      /\ dbConnections' = dbConnections
      /\ instances' = instances /\ removed' = removed /\ overlapped' = overlapped
  <2>1. (CHOOSE y \in {d} : TRUE) = d
    OBVIOUS
  <2>2. QED
    BY <1>2, <1>3, <2>1 DEF Register
<1>5. s \notin DOMAIN connectionConfigs /\ s \notin DOMAIN connections /\ s \notin removed
  BY <1>1 DEF Register, Fresh, Types
<1>6. /\ calls \in [Callers -> Call] /\ calls' \in [Callers -> Call]
      /\ calls'[c] = Idle
      /\ \A o \in Callers \ {c} : calls'[o] = calls[o]
  BY <1>1, <1>4, IdleOK DEF Types
<1>7. Idle.phase = "idle" /\ Idle.session = {} /\ Idle.instance = 0 /\ Idle.first = 0
  BY DEF Idle
<1>8. /\ h \in 1 .. Len(instances) /\ instances[h].open /\ Owns(call)
      /\ ~instances[h].inPlace => instances[h].database = d
  BY <1>1, <1>2 DEF Holds, Carries, Owns
<1>9. /\ \A t \in DOMAIN connections : connections[t] # h
      /\ \A k \in DOMAIN dbConnections : dbConnections[k] # h
      /\ \A o \in Callers \ {c} : Owns(calls[o]) => calls[o].instance # h
  BY <1>8 DEF ManagerInv, CallsApart
<1> HIDE DEF call, h
<1>10. /\ DOMAIN connections' = DOMAIN connections \cup {s} /\ connections'[s] = h
       /\ \A t \in DOMAIN connections : connections'[t] = connections[t]
  BY <1>4, <1>5 DEF Put
<1>11. /\ DOMAIN connectionConfigs' = DOMAIN connectionConfigs \cup {s}
       /\ connectionConfigs'[s] = d
       /\ \A t \in DOMAIN connectionConfigs : connectionConfigs'[t] = connectionConfigs[t]
  BY <1>4, <1>5 DEF Put
<1>12. \A n \in DOMAIN connectionNames' :
         n \in Stored \cup Databases /\ connectionNames'[n] \in Sessions
  BY <1>1, <1>4 DEF Types, Put
<1>13. Kept
  BY <1>1, <1>4 DEF Kept, Types
<1>14. /\ dbConnections' = dbConnections /\ instances' = instances
       /\ removed' = removed /\ overlapped' = overlapped
  BY <1>4
<1>15. Types'
  <2>1. \A t \in DOMAIN connections' :
          /\ t \in Sessions /\ t \in DOMAIN connectionConfigs'
          /\ connections'[t] \in 1 .. Len(instances)
    BY <1>1, <1>8, <1>10, <1>11 DEF Types
  <2>2. \A t \in DOMAIN connectionConfigs' :
          t \in Sessions /\ connectionConfigs'[t] \in Databases
    BY <1>1, <1>11 DEF Types
  <2>3. QED
    BY <1>1, <1>6, <1>12, <1>14, <2>1, <2>2 DEF Types
<1>16. CallsOK'
  <2>1. ASSUME NEW o \in Callers \ {c}
        PROVE  (Shape(calls[o]) /\ Holds(calls[o]) /\ Reads(calls[o]))'
    <3>1. calls'[o] = calls[o] /\ (Carries(calls[o]) => instances'[calls[o].instance].open)
      BY <1>14, <1>6, CallFacts DEF Holds
    <3>2. Reads(calls[o]) /\ s \notin calls[o].session
      BY <1>5, CallFacts DEF Reads
    <3>3. Reads(calls[o])'
      BY <1>14, <1>10, <3>1, <3>2 DEF Reads
    <3>4. QED
      BY <1>13, <3>1, <3>3, ShapeKept, HoldsKept
  <2>2. (Shape(calls[c]) /\ Holds(calls[c]) /\ Reads(calls[c]))'
    BY <1>1, <1>14, <1>6, <1>7 DEF Shape, Holds, Reads, Carries
  <2>3. QED
    BY <2>1, <2>2 DEF CallsOK
<1>17. OneSort'
  BY <1>6, <1>7, OneSortKept DEF Switching
<1>18. MapsOK'
  <2>1. \A t, u \in DOMAIN connections' : connections'[t] = connections'[u] => t = u
    BY <1>9, <1>10 DEF ManagerInv, MapsOK
  <2>2. \A t \in DOMAIN connections', k \in DOMAIN dbConnections :
          connections'[t] # dbConnections[k]
    BY <1>9, <1>10 DEF ManagerInv, MapsOK
  <2>3. \A t \in DOMAIN connections' : instances[connections'[t]].open
    BY <1>8, <1>10 DEF ManagerInv, MapsOK
  <2>4. QED
    BY <1>14, <2>1, <2>2, <2>3 DEF ManagerInv, MapsOK
<1>19. CallsApart'
  <2>1. \A o \in Callers : Owns(calls'[o]) => o # c /\ calls'[o] = calls[o]
    BY <1>6, <1>7 DEF Owns
  <2>2. \A o \in Callers : Owns(calls'[o]) =>
          \A t \in DOMAIN connections' : connections'[t] # calls[o].instance
    BY <1>9, <1>10, <2>1 DEF ManagerInv, CallsApart
  <2>3. QED
    BY <1>14, <2>1, <2>2 DEF ManagerInv, CallsApart, Owns
<1>20. Filed'
  <2>1. \A t \in DOMAIN connections' : ~instances[connections'[t]].inPlace =>
          instances[connections'[t]].database = connectionConfigs'[t]
    BY <1>1, <1>8, <1>10, <1>11 DEF ManagerInv, Filed, Types
  <2>2. QED
    BY <1>14, <2>1 DEF ManagerInv, Filed
<1>21. Owned'
  <2> SUFFICES ASSUME NEW i \in 1 .. Len(instances), instances[i].open
               PROVE  \/ \E t \in DOMAIN connections' : connections'[t] = i
                      \/ \E k \in DOMAIN dbConnections : dbConnections[k] = i
                      \/ \E o \in Callers : Owns(calls'[o]) /\ calls'[o].instance = i
    BY <1>14 DEF Owned, Owns
  <2>1. CASE i = h
    BY <1>10, <2>1
  <2>2. CASE i # h
    BY <1>6, <1>10, <2>2 DEF ManagerInv, Owned, h, call
  <2>3. QED
    BY <2>1, <2>2
<1>22. RemovedStaysGone'
  BY <1>14, <1>5, <1>10 DEF ManagerInv, RemovedStaysGone
<1>23. QED
  BY <1>15, <1>16, <1>17, <1>18, <1>19, <1>20, <1>21, <1>22 DEF ManagerInv

LEMMA InsertTargetStep ==
    ASSUME ManagerInv, NEW c \in Callers, InsertTarget(c)
    PROVE  ManagerInv'
<1> DEFINE call == calls[c]
           n == call.instance
           cached == DbKey(call) \cap DOMAIN dbConnections
<1>1. /\ call \in Call /\ Shape(call) /\ Holds(call) /\ Reads(call) /\ call.phase = "insert"
      /\ call.first \in 0 .. Len(instances) /\ Types /\ Len(instances) \in Nat
  BY CallFacts DEF InsertTarget, ManagerInv
<1>2. PICK s \in Sessions : call.session = {s}
  BY <1>1 DEF Shape
<1>3. PICK d \in Databases : call.database = {d}
  BY <1>1 DEF Shape
<1> DEFINE key == <<s, d>>
           h == IF key \in DOMAIN dbConnections THEN dbConnections[key] ELSE n
           new == Return(call, h)
<1>4. /\ connections' = connections /\ connectionNames' = connectionNames
      /\ connectionConfigs' = connectionConfigs
      /\ removed' = removed /\ overlapped' = overlapped
  BY DEF InsertTarget, history
<1>5. DbKey(call) = {key}
  BY <1>2, <1>3 DEF DbKey
<1>6. /\ n \in 1 .. Len(instances) /\ instances[n].open /\ ~instances[n].inPlace
      /\ instances[n].database = d /\ Owns(call)
  BY <1>1, <1>3 DEF Holds, Carries, Owns
<1>7. /\ \A t \in DOMAIN connections : connections[t] # n
      /\ \A k \in DOMAIN dbConnections : dbConnections[k] # n
      /\ \A o \in Callers \ {c} : Owns(calls[o]) => calls[o].instance # n
  BY <1>6 DEF ManagerInv, CallsApart
<1>8. /\ h \in 1 .. Len(instances) /\ instances[h].open /\ ~instances[h].inPlace
      /\ instances[h].database = d
      /\ key \in DOMAIN dbConnections => dbConnections[key] = h
      /\ key \notin DOMAIN dbConnections => h = n
  BY <1>1, <1>6 DEF Types, ManagerInv, MapsOK, Filed
<1>9. /\ calls' = [calls EXCEPT ![c] = new]
      /\ \/ /\ key \notin DOMAIN dbConnections
            /\ dbConnections' = Put(dbConnections, {key}, n)
            /\ instances' = instances
         \/ /\ key \in DOMAIN dbConnections
            /\ dbConnections' = dbConnections
            /\ instances' = Disconnected({n})
  <2>1. CASE key \notin DOMAIN dbConnections
    <3>1. DbKey(call) \cap DOMAIN dbConnections = {} /\ h = n
      BY <1>5, <2>1
    <3>2. QED
      BY <1>5, <2>1, <3>1 DEF InsertTarget
  <2>2. CASE key \in DOMAIN dbConnections
    <3>1. cached = {key} /\ h = dbConnections[key]
      BY <1>5, <2>2
    <3>2. (CHOOSE k \in {key} : TRUE) = key
      OBVIOUS
    <3>3. dbConnections[CHOOSE k \in cached : TRUE] = h /\ cached # {}
      BY <3>1, <3>2
    <3>4. QED
      BY <2>2, <3>3, Zenon DEF InsertTarget, Redundant
  <2>3. QED
    BY <2>1, <2>2
<1> HIDE DEF h
<1>10. /\ new \in Call /\ Shape(new) /\ Holds(new) /\ Reads(new)
       /\ ~Owns(new) /\ ~Switching(new)
  BY <1>1, <1>3, <1>8, ReturnOK DEF AtMostOne, SameName
<1> HIDE DEF new, call, n, cached, key
<1>11. /\ calls \in [Callers -> Call] /\ calls' \in [Callers -> Call]
       /\ calls'[c] = new
       /\ \A o \in Callers \ {c} : calls'[o] = calls[o]
  BY <1>1, <1>9, <1>10 DEF Types
<1>12. Kept
  BY <1>1, <1>9, DisconnectKeeps DEF Kept, Types
<1>13. /\ \A i \in 1 .. Len(instances) : i # n => instances'[i] = instances[i]
       /\ key \notin DOMAIN dbConnections => instances' = instances
       /\ key \in DOMAIN dbConnections => ~instances'[n].open
  BY <1>1, <1>6, <1>9, DisconnectedFacts
<1>14. /\ DOMAIN dbConnections' = DOMAIN dbConnections \cup {key} /\ dbConnections'[key] = h
       /\ \A k \in DOMAIN dbConnections : dbConnections'[k] = dbConnections[k]
  BY <1>8, <1>9 DEF Put
<1>15. key \in Sessions \X Databases /\ key[1] = s /\ key[2] = d
  BY DEF key
<1>16. Types'
  BY <1>1, <1>4, <1>8, <1>11, <1>12, <1>14, <1>15 DEF Types, Kept
<1>17. CallsOK'
  <2>1. ASSUME NEW o \in Callers \ {c}
        PROVE  (Shape(calls[o]) /\ Holds(calls[o]) /\ Reads(calls[o]))'
    <3>1. calls'[o] = calls[o]
      BY <1>11
    <3>2. ASSUME Carries(calls[o])
          PROVE  instances'[calls[o].instance].open
      <4>1. calls[o].instance \in 1 .. Len(instances) /\ instances[calls[o].instance].open
        BY <1>1, <3>2, CallFacts DEF Holds
      <4>2. calls[o].instance # n
        BY <1>7, <3>2 DEF Owns, Carries
      <4>3. QED
        BY <1>13, <4>1, <4>2
    <3>3. QED
      BY <1>4, <1>12, <3>1, <3>2, ShapeKept, HoldsKept, ReadsKept
  <2>2. Shape(calls[c])'
    BY <1>10, <1>11 DEF Shape
  <2>3. Holds(calls[c])'
    <3>1. /\ new.instance \in 0 .. Len(instances) /\ new.first \in 0 .. Len(instances)
          /\ ~Carries(new)
      BY <1>10 DEF Holds, Owns, Carries
    <3>2. new.instance # 0 =>
            /\ instances'[new.instance].inPlace = instances[new.instance].inPlace
            /\ ~instances[new.instance].inPlace =>
                 instances'[new.instance].database = instances[new.instance].database
      BY <1>1, <1>12, <3>1 DEF Kept
    <3>3. QED
      BY <1>10, <1>11, <1>12, <3>1, <3>2 DEF Holds, Carries, Kept, Switching
  <2>4. Reads(calls[c])'
    BY <1>4, <1>10, <1>11 DEF Reads, Switching
  <2>5. QED
    BY <2>1, <2>2, <2>3, <2>4 DEF CallsOK
<1>18. OneSort'
  BY <1>10, <1>11, OneSortKept
<1>19. MapsOK'
  <2>1. \A k \in DOMAIN dbConnections' : dbConnections'[k] = h /\ key \notin DOMAIN dbConnections
                                         => k = key
    BY <1>7, <1>8, <1>14
  <2>2. \A j, k \in DOMAIN dbConnections' : dbConnections'[j] = dbConnections'[k] => j = k
    BY <1>14, <2>1 DEF ManagerInv, MapsOK
  <2>3. \A t \in DOMAIN connections, k \in DOMAIN dbConnections' :
          connections[t] # dbConnections'[k]
    BY <1>7, <1>8, <1>14 DEF ManagerInv, MapsOK
  <2>4. \A t \in DOMAIN connections : instances'[connections[t]].open
    BY <1>1, <1>7, <1>13 DEF ManagerInv, MapsOK, Types
  <2>5. \A k \in DOMAIN dbConnections' : instances'[dbConnections'[k]].open
    <3>1. \A k \in DOMAIN dbConnections : instances'[dbConnections[k]].open
      BY <1>1, <1>7, <1>13 DEF ManagerInv, MapsOK, Types
    <3>2. instances'[h].open
      BY <1>8, <1>13, <3>1
    <3>3. QED
      BY <1>14, <3>1, <3>2
  <2>6. QED
    BY <1>4, <2>2, <2>3, <2>4, <2>5 DEF ManagerInv, MapsOK
<1>20. CallsApart'
  <2>1. \A o \in Callers : Owns(calls'[o]) =>
          /\ o # c /\ calls'[o] = calls[o] /\ Owns(calls[o])
          /\ calls[o].instance # n
    BY <1>7, <1>10, <1>11
  <2>2. \A o \in Callers : Owns(calls'[o]) =>
          \A k \in DOMAIN dbConnections' : dbConnections'[k] # calls[o].instance
    BY <1>8, <1>14, <2>1 DEF ManagerInv, CallsApart
  <2>3. \A o, a \in Callers : o # a /\ Owns(calls'[o]) /\ Owns(calls'[a])
                               /\ calls[o].instance # 0 => calls[a].instance # calls[o].instance
    BY <2>1 DEF ManagerInv, CallsApart
  <2>4. QED
    BY <1>4, <2>1, <2>2, <2>3 DEF ManagerInv, CallsApart, Owns
<1>21. Filed'
  <2>1. \A k \in DOMAIN dbConnections' : /\ ~instances'[dbConnections'[k]].inPlace
                                         /\ instances'[dbConnections'[k]].database = k[2]
    <3>1. \A k \in DOMAIN dbConnections : /\ ~instances'[dbConnections[k]].inPlace
                                          /\ instances'[dbConnections[k]].database = k[2]
      BY <1>1, <1>7, <1>13 DEF ManagerInv, Filed, Types
    <3>2. ~instances'[h].inPlace /\ instances'[h].database = d
      BY <1>1, <1>8, <1>12 DEF Kept
    <3>3. QED
      BY <1>14, <1>15, <3>1, <3>2
  <2>2. QED
    BY <1>1, <1>4, <1>7, <1>13, <2>1 DEF ManagerInv, Filed, Types
<1>22. Owned'
  <2> SUFFICES ASSUME NEW i \in 1 .. Len(instances), instances'[i].open
               PROVE  \/ \E t \in DOMAIN connections : connections[t] = i
                      \/ \E k \in DOMAIN dbConnections' : dbConnections'[k] = i
                      \/ \E o \in Callers : Owns(calls'[o]) /\ calls'[o].instance = i
    BY <1>4, <1>12 DEF Owned, Owns, Kept
  <2>1. CASE i = n
    BY <1>8, <1>13, <1>14, <2>1
  <2>2. CASE i # n
    <3>1. instances[i].open
      BY <1>13, <2>2
    <3>2. QED
      BY <1>11, <1>14, <2>2, <3>1 DEF ManagerInv, Owned, n, call
  <2>3. QED
    BY <2>1, <2>2
<1>23. RemovedStaysGone'
  <2>1. s \in removed => s \in overlapped
    BY <1>1, <1>2 DEF Reads
  <2>2. QED
    BY <1>4, <1>14, <1>15, <2>1 DEF ManagerInv, RemovedStaysGone
<1>24. QED
  BY <1>16, <1>17, <1>18, <1>19, <1>20, <1>21, <1>22, <1>23 DEF ManagerInv

-----------------------------------------------------------------------------
(* Removing. *)

(***************************************************************************)
(* The sessions S go, and the cached instances K, theirs among them.  The  *)
(* instances H that leave the maps are disconnected.                       *)
(***************************************************************************)
Removes(S, K, H) ==
    /\ S \subseteq DOMAIN connections
    /\ K \subseteq DOMAIN dbConnections
    /\ \A k \in DOMAIN dbConnections : k[1] \in S => k \in K
    /\ H = {connections[s] : s \in S} \cup {dbConnections[k] : k \in K}
    /\ instances' = Disconnected(H)
    /\ connections' = Without(connections, S)
    /\ dbConnections' = Without(dbConnections, K)
    /\ removed' = removed \cup S
    /\ overlapped \subseteq overlapped'
    /\ \A s \in S : Reading(s) # {} => s \in overlapped'
    /\ calls' = calls
    /\ DOMAIN connections' \subseteq DOMAIN connectionConfigs'
    /\ DOMAIN connectionConfigs' \subseteq DOMAIN connectionConfigs
    /\ \A s \in DOMAIN connectionConfigs' : connectionConfigs'[s] = connectionConfigs[s]
    /\ DOMAIN connectionNames' \subseteq DOMAIN connectionNames
    /\ \A n \in DOMAIN connectionNames' : connectionNames'[n] = connectionNames[n]

LEMMA RemovesStep ==
    ASSUME ManagerInv, NEW S, NEW K, NEW H, Removes(S, K, H)
    PROVE  ManagerInv'
<1>1. Types /\ Len(instances) \in Nat /\ instances' = Disconnected(H)
      /\ calls' = calls
  BY DEF ManagerInv, Types, Removes
<1>2. /\ DOMAIN connections' = DOMAIN connections \ S
      /\ \A t \in DOMAIN connections' : connections'[t] = connections[t]
      /\ DOMAIN dbConnections' = DOMAIN dbConnections \ K
      /\ \A k \in DOMAIN dbConnections' : dbConnections'[k] = dbConnections[k]
  BY DEF Removes, Without, Restrict
<1>3. Kept
  BY <1>1, DisconnectKeeps
<1>4. \A i \in 1 .. Len(instances) : /\ i \notin H => instances'[i] = instances[i]
                                     /\ i \in H => ~instances'[i].open
  BY <1>1, DisconnectedFacts
<1>5. /\ \A t \in DOMAIN connections' : connections[t] \in 1 .. Len(instances)
      /\ \A k \in DOMAIN dbConnections' : dbConnections[k] \in 1 .. Len(instances)
  BY <1>1, <1>2 DEF Types
<1>6. /\ \A t \in DOMAIN connections' : connections[t] \notin H
      /\ \A k \in DOMAIN dbConnections' : dbConnections[k] \notin H
  <2>1. \A t \in DOMAIN connections \ S, u \in S : connections[t] # connections[u]
    BY DEF ManagerInv, MapsOK, Removes
  <2>2. \A j \in DOMAIN dbConnections \ K, k \in K : dbConnections[j] # dbConnections[k]
    BY DEF ManagerInv, MapsOK, Removes
  <2>3. /\ \A t \in DOMAIN connections, k \in K : connections[t] # dbConnections[k]
        /\ \A t \in S, k \in DOMAIN dbConnections : connections[t] # dbConnections[k]
    BY DEF ManagerInv, MapsOK, Removes
  <2>4. H = {connections[s] : s \in S} \cup {dbConnections[k] : k \in K}
    BY DEF Removes
  <2>5. QED
    BY <1>2, <2>1, <2>2, <2>3, <2>4
<1>7. \A o \in Callers : Owns(calls[o]) => calls[o].instance \notin H
  BY DEF ManagerInv, CallsApart, Removes
<1>8. Types'
  <2>1. \A t \in DOMAIN connections' :
          /\ t \in Sessions /\ t \in DOMAIN connectionConfigs'
          /\ connections'[t] \in 1 .. Len(instances)
    BY <1>1, <1>2 DEF Types, Removes
  <2>2. /\ \A t \in DOMAIN connectionConfigs' :
             t \in Sessions /\ connectionConfigs'[t] \in Databases
        /\ \A n \in DOMAIN connectionNames' :
             n \in Stored \cup Databases /\ connectionNames'[n] \in Sessions
    BY <1>1 DEF Types, Removes
  <2>3. \A k \in DOMAIN dbConnections' :
          k \in Sessions \X Databases /\ dbConnections'[k] \in 1 .. Len(instances)
    BY <1>1, <1>2 DEF Types
  <2>4. QED
    BY <1>1, <1>3, <2>1, <2>2, <2>3 DEF Types, Kept
<1>9. CallsOK'
  <2> SUFFICES ASSUME NEW o \in Callers
               PROVE  (Shape(calls[o]) /\ Holds(calls[o]) /\ Reads(calls[o]))'
    BY DEF CallsOK
  <2>1. calls'[o] = calls[o] /\ Shape(calls[o]) /\ Reads(calls[o])
    BY <1>1, CallFacts
  <2>2. ASSUME Carries(calls[o])
        PROVE  instances'[calls[o].instance].open
    <3>1. calls[o].instance \in 1 .. Len(instances) /\ instances[calls[o].instance].open
      BY <1>1, <2>2, CallFacts DEF Holds
    <3>2. QED
      BY <1>4, <1>7, <2>2, <3>1 DEF Owns, Carries
  <2>3. calls[o].session \subseteq DOMAIN connections' \cup removed'
    BY <1>2, <2>1 DEF Reads, Removes
  <2>4. calls[o].session \cap removed' \subseteq overlapped'
    <3> SUFFICES ASSUME NEW s \in calls[o].session, s \in removed'
                 PROVE  s \in overlapped'
      OBVIOUS
    <3>1. CASE s \in removed
      BY <2>1, <3>1 DEF Reads, Removes
    <3>2. CASE s \in S
      <4>1. calls[o].phase # "run"
        BY <2>1 DEF Shape
      <4>2. o \in Reading(s)
        BY <4>1 DEF Reading
      <4>3. QED
        BY <3>2, <4>2 DEF Removes
    <3>3. QED
      BY <3>1, <3>2 DEF Removes
  <2>5. \A s \in calls[o].session \cap DOMAIN connections' :
          instances'[connections'[s]].inPlace = instances[connections[s]].inPlace
    BY <1>2, <1>3, <1>5 DEF Kept
  <2>6. Reads(calls[o])'
    BY <1>2, <2>1, <2>3, <2>4, <2>5 DEF Reads
  <2>7. QED
    BY <1>3, <2>1, <2>2, <2>6, ShapeKept, HoldsKept
<1>10. OneSort'
  BY <1>1 DEF ManagerInv, OneSort
<1>11. MapsOK'
  <2>1. /\ \A t \in DOMAIN connections' : instances'[connections'[t]].open
        /\ \A k \in DOMAIN dbConnections' : instances'[dbConnections'[k]].open
    BY <1>2, <1>4, <1>5, <1>6 DEF ManagerInv, MapsOK
  <2>2. QED
    BY <1>2, <2>1 DEF ManagerInv, MapsOK
<1>12. CallsApart'
  BY <1>1, <1>2 DEF ManagerInv, CallsApart, Owns
<1>13. Filed'
  <2>1. \A t \in DOMAIN connections' : connectionConfigs'[t] = connectionConfigs[t]
    BY DEF Removes
  <2>2. QED
    BY <1>2, <1>4, <1>5, <1>6, <2>1 DEF ManagerInv, Filed
<1>14. Owned'
  <2> SUFFICES ASSUME NEW i \in 1 .. Len(instances), instances'[i].open
               PROVE  \/ \E t \in DOMAIN connections' : connections'[t] = i
                      \/ \E k \in DOMAIN dbConnections' : dbConnections'[k] = i
                      \/ \E o \in Callers : Owns(calls[o]) /\ calls[o].instance = i
    BY <1>1, <1>3 DEF Owned, Owns, Kept
  <2>1. i \notin H /\ instances[i].open
    BY <1>4
  <2>2. /\ \A t \in DOMAIN connections : connections[t] = i => t \in DOMAIN connections'
        /\ \A k \in DOMAIN dbConnections : dbConnections[k] = i => k \in DOMAIN dbConnections'
    BY <1>2, <2>1 DEF Removes
  <2>3. QED
    BY <1>2, <2>1, <2>2 DEF ManagerInv, Owned
<1>15. RemovedStaysGone'
  <2> SUFFICES ASSUME NEW s \in removed' \ overlapped'
               PROVE  s \notin DOMAIN connections' /\ \A k \in DOMAIN dbConnections' : k[1] # s
    BY DEF RemovedStaysGone
  <2>1. CASE s \in removed
    BY <1>2, <2>1 DEF ManagerInv, RemovedStaysGone, Removes
  <2>2. CASE s \in S
    BY <1>2, <2>2 DEF Removes
  <2>3. QED
    BY <2>1, <2>2 DEF Removes
<1>16. QED
  BY <1>8, <1>9, <1>10, <1>11, <1>12, <1>13, <1>14, <1>15 DEF ManagerInv

LEMMA RemoveConnectionStep ==
    ASSUME ManagerInv, NEW s \in Sessions, RemoveConnection(s)
    PROVE  ManagerInv'
<1> DEFINE K == KeysOf(s)
           H == {connections[t] : t \in {s}} \cup {dbConnections[k] : k \in K}
<1>1. {connections[s]} \cup {dbConnections[k] : k \in K} = H
  OBVIOUS
<1>2. /\ s \in DOMAIN connections
      /\ instances' = Disconnected(H)
      /\ connections' = Without(connections, {s})
      /\ connectionConfigs' = Without(connectionConfigs, {s})
      /\ dbConnections' = Without(dbConnections, K)
      /\ removed' = removed \cup {s} /\ calls' = calls
      /\ overlapped \subseteq overlapped'
      /\ Reading(s) # {} => s \in overlapped'
  BY <1>1 DEF RemoveConnection
<1>3. K = {k \in DOMAIN dbConnections : k[1] \in {s}}
  BY DEF KeysOf
<1>4. /\ DOMAIN connectionNames' \subseteq DOMAIN connectionNames
      /\ \A n \in DOMAIN connectionNames' : connectionNames'[n] = connectionNames[n]
  BY DEF RemoveConnection, Without, Restrict
<1>5. /\ DOMAIN connections' \subseteq DOMAIN connectionConfigs'
      /\ DOMAIN connectionConfigs' \subseteq DOMAIN connectionConfigs
      /\ \A t \in DOMAIN connectionConfigs' : connectionConfigs'[t] = connectionConfigs[t]
  BY <1>2 DEF Without, Restrict, ManagerInv, Types
<1> HIDE DEF K
<1>6. Removes({s}, K, H)
  <2>1. H = {connections[t] : t \in {s}} \cup {dbConnections[k] : k \in K}
    OBVIOUS
  <2>2. K \subseteq DOMAIN dbConnections /\ \A k \in DOMAIN dbConnections : k[1] \in {s} => k \in K
    BY <1>3
  <2> HIDE DEF H
  <2>3. QED
    BY <1>2, <1>4, <1>5, <2>1, <2>2 DEF Removes
<1> HIDE DEF H
<1>7. QED
  BY <1>6, RemovesStep

LEMMA CloseStep ==
    ASSUME ManagerInv, Close
    PROVE  ManagerInv'
<1> DEFINE S == DOMAIN connections
           K == DOMAIN dbConnections
           H == {connections[s] : s \in S} \cup {dbConnections[k] : k \in K}
<1>1. Range(connections) \cup Range(dbConnections) = H
  BY DEF Range
<1>2. /\ instances' = Disconnected(H)
      /\ removed' = removed \cup S /\ calls' = calls
      /\ overlapped \subseteq overlapped'
      /\ \A s \in S : Reading(s) # {} => s \in overlapped'
      /\ connectionNames' = connectionNames /\ connectionConfigs' = connectionConfigs
      /\ connections' = Nothing /\ dbConnections' = Nothing
  BY <1>1 DEF Close
<1>3. Without(connections, S) = Nothing /\ Without(dbConnections, K) = Nothing
  BY DEF Without, Restrict, Nothing
<1>4. DOMAIN connections' = {}
  BY <1>2 DEF Nothing
<1> HIDE DEF H
<1>5. Removes(S, K, H)
  BY <1>2, <1>3, <1>4 DEF Removes, H
<1>6. QED
  BY <1>5, RemovesStep

-----------------------------------------------------------------------------
(* The theorems. *)

LEMMA NextManagerInv == ManagerInv /\ [Next]_vars => ManagerInv'
<1> SUFFICES ASSUME ManagerInv, [Next]_vars PROVE ManagerInv'
  OBVIOUS
<1>1. CASE UNCHANGED vars
  <2>1. /\ connections' = connections /\ connectionNames' = connectionNames
        /\ connectionConfigs' = connectionConfigs /\ dbConnections' = dbConnections
        /\ instances' = instances /\ calls' = calls
        /\ removed' = removed /\ overlapped' = overlapped
    BY <1>1 DEF vars
  <2>2. Types' /\ OneSort' /\ MapsOK' /\ CallsApart' /\ Filed' /\ Owned' /\ RemovedStaysGone'
    BY <2>1 DEF ManagerInv, Types, OneSort, MapsOK, CallsApart, Filed, Owned, Owns,
                RemovedStaysGone
  <2>3. CallsOK'
    BY <2>1 DEF ManagerInv, CallsOK, Shape, Holds, Reads, Carries
  <2>4. QED
    BY <2>2, <2>3 DEF ManagerInv
<1>2. ASSUME NEW s \in Sessions, RemoveConnection(s) PROVE ManagerInv'
  BY <1>2, RemoveConnectionStep
<1>3. CASE Close
  BY <1>3, CloseStep
<1>4. ASSUME NEW c \in Callers,
             \/ \E x \in Stored : CreateConnection(c, x)
             \/ \E s \in Sessions : Register(c, s)
             \/ Reopen(c) \/ Swap(c) \/ DropOld(c)
      PROVE  ManagerInv'
  BY <1>4, CreateConnectionStep, RegisterStep, ReopenStep, SwapStep, DropOldStep
<1>5. ASSUME NEW c \in Callers,
             \/ \E id \in Identifiers, target \in {{}} \cup {{d} : d \in Targets} :
                  Query(c, id, target)
             \/ QueryAgain(c) \/ LookupTarget(c) \/ OpenTarget(c) \/ InsertTarget(c)
             \/ RunQuery(c)
      PROVE  ManagerInv'
  BY <1>5, QueryStep, QueryAgainStep, LookupTargetStep, OpenTargetStep, InsertTargetStep,
     RunQueryStep
<1>6. ASSUME NEW c \in Callers,
             \/ \E s \in Sessions, d \in Targets : ReadSwitch(c, s, d)
             \/ UseDatabase(c) \/ RecordSwitch(c)
      PROVE  ManagerInv'
  <2>1. Targets \subseteq Databases
    BY ConnectionManagerAssumption
  <2>2. QED
    BY <1>6, <2>1, ReadSwitchStep, UseDatabaseStep, RecordSwitchStep
<1>7. QED
  BY <1>1, <1>2, <1>3, <1>4, <1>5, <1>6, Zenon DEF Next

(***************************************************************************)
(* The invariant holds in every reachable state.                           *)
(***************************************************************************)
THEOREM ManagerInvariant == Spec => []ManagerInv
BY InitManagerInv, NextManagerInv, PTL DEF Spec

LEMMA RangesOK ==
    ASSUME Types
    PROVE  /\ DOMAIN instances = 1 .. Len(instances)
           /\ \A h : h \in Range(connections) <=> \E s \in DOMAIN connections : connections[s] = h
           /\ \A h : h \in Range(dbConnections) <=>
                        \E k \in DOMAIN dbConnections : dbConnections[k] = h
BY DEF Types, Range

(***************************************************************************)
(* The types of all variables.                                             *)
(***************************************************************************)
THEOREM TypeCorrect == Spec => []TypeOK
<1>1. ManagerInv => TypeOK
  <2> SUFFICES ASSUME ManagerInv PROVE TypeOK
    OBVIOUS
  <2>1. Types /\ DOMAIN instances = 1 .. Len(instances)
    BY RangesOK DEF ManagerInv
  <2>2. Range(connections) \cup Range(dbConnections) \subseteq DOMAIN instances
    BY <2>1 DEF Types, Range
  <2>3. Range(connectionNames) \subseteq Sessions /\ Range(connectionConfigs) \subseteq Databases
    BY <2>1 DEF Types, Range
  <2>4. instances \in Seq([open : BOOLEAN, database : Databases, inPlace : BOOLEAN])
    BY <2>1 DEF Types, Instance
  <2>5. ASSUME NEW c \in Callers
        PROVE  /\ calls[c].phase \in Phases
               /\ calls[c].instance \in 0 .. Len(instances)
               /\ calls[c].first \in 0 .. Len(instances)
    BY CallFacts DEF Call
  <2>6. QED
    BY <2>1, <2>2, <2>3, <2>4, <2>5 DEF TypeOK, Types, Phases
<1>2. QED
  BY <1>1, ManagerInvariant, PTL

(***************************************************************************)
(* No connected instance is lost: each is in a map or in the hands of a    *)
(* call that will register or disconnect it.                               *)
(***************************************************************************)
THEOREM InstancesOwnedHolds == Spec => []InstancesOwned
<1>1. ManagerInv => InstancesOwned
  BY RangesOK DEF ManagerInv, Owned, Owns, InstancesOwned
<1>2. QED
  BY <1>1, ManagerInvariant, PTL

(***************************************************************************)
(* No map hands out an instance that has been disconnected.                *)
(***************************************************************************)
THEOREM RegisteredAreOpenHolds == Spec => []RegisteredAreOpen
<1>1. ManagerInv => RegisteredAreOpen
  BY RangesOK DEF ManagerInv, MapsOK, RegisteredAreOpen
<1>2. QED
  BY <1>1, ManagerInvariant, PTL

(***************************************************************************)
(* A removed session comes back, or leaves a cached instance behind, only  *)
(* by a call that had read it before.                                      *)
(***************************************************************************)
THEOREM RemovedStaysGoneHolds == Spec => []RemovedStaysGone
BY ManagerInvariant, PTL DEF ManagerInv

(***************************************************************************)
(* A query that targets a database runs on an instance of a database of    *)
(* that name, case aside, where an instance is bound to one.               *)
(***************************************************************************)
THEOREM TargetIsRightHolds == Spec => []TargetIsRight
<1>1. ManagerInv => TargetIsRight
  BY DEF ManagerInv, CallsOK, Holds, TargetIsRight
<1>2. QED
  BY <1>1, ManagerInvariant, PTL

-----------------------------------------------------------------------------
(* The ids of saved connections. *)

(* The sessions registered for saved connections: each is registered or removed. *)
Registered ==
    \A x \in DOMAIN latest : x \in Stored /\ latest[x] \in DOMAIN connections \cup removed

NamesInv == Registered /\ NamesLead

(***************************************************************************)
(* The sessions that become registered were removed, and the aliases that  *)
(* change are names of databases, or led to sessions that are not there    *)
(* any more.                                                               *)
(***************************************************************************)
LEMMA NamesKept ==
    ASSUME NamesInv, latest' = latest, removed \subseteq removed',
           DOMAIN connections' \subseteq DOMAIN connections \cup removed,
           DOMAIN connections \subseteq DOMAIN connections' \cup removed',
           \A n \in DOMAIN connectionNames \ Databases :
               \/ connectionNames[n] \notin DOMAIN connections' \ removed'
               \/ n \in DOMAIN connectionNames' /\ connectionNames'[n] = connectionNames[n]
    PROVE  NamesInv'
BY DEF NamesInv, Registered, NamesLead

LEMMA SwitchedAliases ==
    ASSUME NEW call \in Call, NEW d \in Databases, call.database = {d}
    PROVE  \A n \in DOMAIN connectionNames \ Databases :
              n \in DOMAIN AliasesAfter(call) /\ AliasesAfter(call)[n] = connectionNames[n]
<1> DEFINE K == call.config \cap
                  {n \in DOMAIN connectionNames : connectionNames[n] \in call.session}
           rest == Without(connectionNames, K)
           v == CHOOSE x \in call.session : TRUE
<1>1. AliasesAfter(call) = Put(rest, call.database, v)
  BY Zenon DEF AliasesAfter
<1>2. K \subseteq Databases
  BY DEF Call
<1> HIDE DEF K, v
<1>3. DOMAIN rest = DOMAIN connectionNames \ K
      /\ \A n \in DOMAIN rest : rest[n] = connectionNames[n]
  BY DEF rest, Without, Restrict
<1> HIDE DEF rest
<1>4. /\ DOMAIN Put(rest, call.database, v) = DOMAIN rest \cup call.database
      /\ \A n \in DOMAIN rest \ call.database : Put(rest, call.database, v)[n] = rest[n]
  BY DEF Put
<1>5. QED
  BY <1>1, <1>2, <1>3, <1>4

LEMMA RegisterNames ==
    ASSUME ManagerInv, NamesInv, NEW c \in Callers, NEW s \in Sessions, Register(c, s)
    PROVE  NamesInv'
<1> DEFINE call == calls[c]
<1>1. Types /\ Shape(call) /\ call.phase = "register"
  BY CallFacts DEF Register, ManagerInv
<1>2. PICK d \in Databases : call.database = {d}
  BY <1>1 DEF Shape
<1>3. PICK x \in Stored : call.stored = {x}
  BY <1>1 DEF Shape
<1>4. /\ connections' = Put(connections, {s}, call.instance)
      /\ connectionNames' = Put(connectionNames, {x} \cup {d}, s)
      /\ latest' = Put(latest, {x}, s)
      /\ removed' = removed
  BY <1>2, <1>3 DEF Register
<1>5. s \notin DOMAIN connections /\ s \notin removed
  BY <1>1 DEF Register, Fresh, Types
<1>6. /\ DOMAIN connections' = DOMAIN connections \cup {s}
      /\ DOMAIN connectionNames' = DOMAIN connectionNames \cup {x, d}
      /\ connectionNames'[x] = s
      /\ \A n \in DOMAIN connectionNames \ {x, d} : connectionNames'[n] = connectionNames[n]
      /\ DOMAIN latest' = DOMAIN latest \cup {x} /\ latest'[x] = s
      /\ \A y \in DOMAIN latest \ {x} : latest'[y] = latest[y]
  BY <1>4 DEF Put
<1>7. QED
  BY <1>4, <1>5, <1>6 DEF NamesInv, Registered, NamesLead

LEMMA RemoveNames ==
    ASSUME ManagerInv, NamesInv, NEW s \in Sessions, RemoveConnection(s)
    PROVE  NamesInv'
<1>1. /\ DOMAIN connections' = DOMAIN connections \ {s}
      /\ removed' = removed \cup {s} /\ latest' = latest
  BY DEF RemoveConnection, Without, Restrict
<1>2. \A n \in DOMAIN connectionNames :
        \/ connectionNames[n] = s
        \/ n \in DOMAIN connectionNames' /\ connectionNames'[n] = connectionNames[n]
  <2>1. CASE UNCHANGED connectionNames
    BY <2>1
  <2>2. ASSUME NEW name \in NamesOf(s), connectionNames' = Without(connectionNames, {name})
        PROVE  <1>2
    BY <2>2 DEF NamesOf, Without, Restrict
  <2>3. QED
    BY <2>1, <2>2 DEF RemoveConnection
<1>3. QED
  BY <1>1, <1>2, NamesKept

LEMMA SwitchNames ==
    ASSUME ManagerInv, NamesInv, NEW c \in Callers, RecordSwitch(c) \/ Swap(c)
    PROVE  NamesInv'
<1> DEFINE call == calls[c]
<1>1. call \in Call /\ Shape(call) /\ Reads(call) /\ call.phase \in {"record", "swap"}
  BY CallFacts DEF RecordSwitch, Swap
<1>2. PICK d \in Databases : call.database = {d}
  BY <1>1 DEF Shape
<1>3. /\ connectionNames' = AliasesAfter(call)
      /\ \/ connections' = connections
         \/ connections' = Put(connections, call.session, call.instance)
      /\ removed' = removed /\ latest' = latest
  BY DEF RecordSwitch, Swap, history
<1>4. /\ DOMAIN connections' \subseteq DOMAIN connections \cup call.session
      /\ DOMAIN connections \subseteq DOMAIN connections'
  BY <1>3 DEF Put
<1>5. call.session \subseteq DOMAIN connections \cup removed
  BY <1>1 DEF Reads
<1> HIDE DEF call
<1>6. \A n \in DOMAIN connectionNames \ Databases :
         n \in DOMAIN connectionNames' /\ connectionNames'[n] = connectionNames[n]
  BY <1>1, <1>2, <1>3, SwitchedAliases
<1>7. QED
  BY <1>3, <1>4, <1>5, <1>6, NamesKept

LEMMA NextNames == ManagerInv /\ NamesInv /\ [Next]_vars => NamesInv'
<1> SUFFICES ASSUME ManagerInv, NamesInv, [Next]_vars PROVE NamesInv'
  OBVIOUS
<1>1. ASSUME connections' = connections, connectionNames' = connectionNames,
             latest' = latest, removed' = removed
      PROVE  NamesInv'
  BY <1>1, NamesKept
<1>2. CASE UNCHANGED vars
  BY <1>1, <1>2 DEF vars
<1>3. ASSUME NEW s \in Sessions, RemoveConnection(s) PROVE NamesInv'
  BY <1>3, RemoveNames
<1>4. CASE Close
  <2>1. /\ DOMAIN connections' = {} /\ removed' = removed \cup DOMAIN connections
        /\ latest' = latest /\ connectionNames' = connectionNames
    BY <1>4 DEF Close, Nothing
  <2>2. QED
    BY <2>1, NamesKept
<1>5. ASSUME NEW c \in Callers,
             \/ \E s \in Sessions : Register(c, s)
             \/ RecordSwitch(c) \/ Swap(c)
      PROVE  NamesInv'
  BY <1>5, RegisterNames, SwitchNames
<1>6. ASSUME NEW c \in Callers,
             \/ \E x \in Stored : CreateConnection(c, x)
             \/ \E id \in Identifiers, target \in {{}} \cup {{d} : d \in Targets} :
                  Query(c, id, target)
             \/ QueryAgain(c) \/ LookupTarget(c) \/ OpenTarget(c) \/ InsertTarget(c)
             \/ RunQuery(c)
             \/ \E s \in Sessions, d \in Targets : ReadSwitch(c, s, d)
             \/ UseDatabase(c) \/ Reopen(c) \/ DropOld(c)
      PROVE  NamesInv'
  <2>1. /\ connections' = connections /\ connectionNames' = connectionNames
        /\ latest' = latest /\ removed' = removed
    BY <1>6 DEF CreateConnection, Query, QueryAgain, LookupTarget, OpenTarget, InsertTarget,
                RunQuery, ReadSwitch, UseDatabase, Reopen, DropOld, maps, history
  <2>2. QED
    BY <1>1, <2>1
<1>7. QED
  BY <1>2, <1>3, <1>4, <1>5, <1>6, Zenon DEF Next

(***************************************************************************)
(* The id of a saved connection leads to the last session registered for   *)
(* it, as long as that is there.                                           *)
(***************************************************************************)
THEOREM NamesLeadHolds == Spec => []NamesLead
<1>1. Init => NamesInv
  BY DEF Init, Nothing, NamesInv, Registered, NamesLead
<1>2. QED
  BY <1>1, NextNames, ManagerInvariant, PTL DEF Spec, NamesInv

-----------------------------------------------------------------------------
(* The recorded databases. *)

\* The instance that a USE will reach is its session's, or nobody's.
UseReaches ==
    \A c \in Callers : calls[c].phase = "use" =>
        \A s \in DOMAIN connections : connections[s] = calls[c].instance <=> s \in calls[c].session

\* It is not one that is about to be registered.
UseApart ==
    \A c, o \in Callers : calls[c].phase = "use" /\ calls[o].phase = "register" =>
        calls[o].instance # calls[c].instance

RegistersRight ==
    \A c \in Callers : calls[c].phase = "register" =>
        instances[calls[c].instance].database \in calls[c].database

\* What is about to be recorded is so already.
RecordsRight ==
    \A c \in Callers : calls[c].phase = "record" =>
        \A s \in (calls[c].session \cap DOMAIN connections) \ contested :
            instances[connections[s]].database \in calls[c].database

ConfigInv == UseReaches /\ UseApart /\ RegistersRight /\ RecordsRight /\ ConfigAgrees

\* A call that goes on to neither a USE nor its record, nor registers but what is new.
Moves(c) ==
    /\ calls[c].phase # "record"
    /\ calls'[c].phase \notin {"use", "record"}
    /\ calls'[c].phase = "register" =>
         /\ calls'[c].instance = Len(instances) + 1
         /\ instances'[calls'[c].instance].database \in calls'[c].database

LEMMA CallNumbers ==
    ASSUME ManagerInv, NEW c \in Callers
    PROVE  /\ Len(instances) \in Nat
           /\ calls[c].phase \in {"use", "register", "swap"} =>
                calls[c].instance \in 1 .. Len(instances)
BY CallFacts DEF Holds, Carries

(***************************************************************************)
(* Sessions may go, and instances come and be disconnected.                *)
(***************************************************************************)
LEMMA ConfigKept ==
    ASSUME ManagerInv, ConfigInv, contested' = contested,
           DOMAIN connections' \subseteq DOMAIN connections,
           \A s \in DOMAIN connections' : /\ connections'[s] = connections[s]
                                          /\ connectionConfigs'[s] = connectionConfigs[s],
           \A h \in 1 .. Len(instances) : instances'[h].database = instances[h].database,
           \A c \in Callers : calls'[c] = calls[c] \/ Moves(c)
    PROVE  ConfigInv'
<1>1. /\ \A s \in DOMAIN connections : connections[s] \in 1 .. Len(instances)
      /\ Len(instances) \in Nat
  BY DEF ManagerInv, Types
<1>2. \A s \in DOMAIN connections' : instances'[connections'[s]].database = instances[connections[s]].database
  BY <1>1
<1>3. \A c \in Callers : calls'[c].phase \in {"use", "record"} => calls'[c] = calls[c]
  BY DEF Moves
<1>4. \A c \in Callers : calls'[c].phase = "register" =>
          \/ calls'[c] = calls[c] /\ calls[c].instance \in 1 .. Len(instances)
          \/ calls'[c].instance = Len(instances) + 1
             /\ instances'[calls'[c].instance].database \in calls'[c].database
  BY CallNumbers DEF Moves
<1>5. UseReaches'
  BY <1>3 DEF ConfigInv, UseReaches
<1>6. UseApart'
  <2> SUFFICES ASSUME NEW c \in Callers, NEW o \in Callers, calls'[c].phase = "use",
                      calls'[o].phase = "register"
               PROVE  calls'[o].instance # calls'[c].instance
    BY DEF UseApart
  <2>1. calls'[c] = calls[c] /\ calls[c].instance \in 1 .. Len(instances)
    BY <1>3, CallNumbers
  <2>2. CASE calls'[o] = calls[o]
    BY <2>1, <2>2 DEF ConfigInv, UseApart
  <2>3. QED
    BY <1>1, <1>4, <2>1, <2>2
<1>7. RegistersRight'
  BY <1>4 DEF ConfigInv, RegistersRight
<1>8. RecordsRight'
  BY <1>2, <1>3 DEF ConfigInv, RecordsRight
<1>9. ConfigAgrees'
  <2> SUFFICES ASSUME NEW s \in DOMAIN connections' \ contested
               PROVE  \/ connectionConfigs'[s] = instances'[connections'[s]].database
                      \/ \E c \in Callers : calls'[c].phase = "record" /\ calls'[c].session = {s}
    BY DEF ConfigAgrees
  <2>1. \A c \in Callers : calls[c].phase = "record" => calls'[c] = calls[c]
    BY DEF Moves
  <2>2. QED
    BY <1>2, <2>1 DEF ConfigInv, ConfigAgrees
<1>10. QED
  BY <1>5, <1>6, <1>7, <1>8, <1>9 DEF ConfigInv

LEMMA RegisterConfig ==
    ASSUME ManagerInv, ConfigInv, NEW c \in Callers, NEW s \in Sessions, Register(c, s)
    PROVE  ConfigInv'
<1> DEFINE call == calls[c]
           h == call.instance
<1>1. Types /\ Shape(call) /\ call.phase = "register"
  BY CallFacts DEF Register, ManagerInv
<1>2. PICK d \in Databases : call.database = {d}
  BY <1>1 DEF Shape
<1>3. /\ connections' = Put(connections, {s}, h)
      /\ connectionConfigs' = Put(connectionConfigs, {s}, d)
      /\ instances' = instances /\ contested' = contested
  BY <1>2 DEF Register
<1>4. s \notin DOMAIN connections /\ s \notin removed
  BY <1>1 DEF Register, Fresh, Types
<1>5. /\ DOMAIN connections' = DOMAIN connections \cup {s}
      /\ connections'[s] = h /\ connectionConfigs'[s] = d
      /\ \A t \in DOMAIN connections : connections'[t] = connections[t]
                                       /\ connectionConfigs'[t] = connectionConfigs[t]
  BY <1>1, <1>3, <1>4 DEF Put, Types
<1>6. \A o \in Callers : calls'[o] = IF o = c THEN Idle ELSE calls[o]
  BY DEF Register, ManagerInv, Types
<1>7. \A o \in Callers : calls'[o].phase # "idle" => o # c /\ calls'[o] = calls[o]
  BY <1>6 DEF Idle
<1>8. \A o \in Callers : s \notin calls[o].session
  BY <1>4 DEF ManagerInv, CallsOK, Reads
<1>9. instances[h].database = d
  BY <1>1, <1>2 DEF ConfigInv, RegistersRight
<1>10. \A o \in Callers : calls[o].phase = "use" => calls[o].instance # h
  BY <1>1 DEF ConfigInv, UseApart
<1>11. UseReaches'
  BY <1>5, <1>7, <1>8, <1>10 DEF ConfigInv, UseReaches
<1>12. UseApart' /\ RegistersRight' /\ RecordsRight'
  <2>1. UseApart' /\ RegistersRight'
    BY <1>3, <1>7 DEF ConfigInv, UseApart, RegistersRight
  <2>2. \A o \in Callers : calls'[o].phase = "record" => calls'[o] = calls[o]
    BY <1>7
  <2>3. \A o \in Callers : calls[o].session \cap DOMAIN connections' \subseteq DOMAIN connections
    BY <1>5, <1>8
  <2>4. RecordsRight'
    BY <1>3, <1>5, <2>2, <2>3 DEF ConfigInv, RecordsRight
  <2>5. QED
    BY <2>1, <2>4
<1>13. ConfigAgrees'
  <2> SUFFICES ASSUME NEW t \in DOMAIN connections' \ contested
               PROVE  \/ connectionConfigs'[t] = instances[connections'[t]].database
                      \/ \E o \in Callers : calls'[o].phase = "record" /\ calls'[o].session = {t}
    BY <1>3 DEF ConfigAgrees
  <2>1. CASE t = s
    BY <1>5, <1>9, <2>1
  <2>2. CASE t \in DOMAIN connections
    <3>1. \A o \in Callers : calls[o].phase = "record" => calls'[o] = calls[o]
      BY <1>1, <1>6
    <3>2. QED
      BY <1>5, <2>2, <3>1 DEF ConfigInv, ConfigAgrees
  <2>3. QED
    BY <1>5, <2>1, <2>2
<1>14. QED
  BY <1>11, <1>12, <1>13 DEF ConfigInv

LEMMA ReadSwitchConfig ==
    ASSUME ManagerInv, ConfigInv, NEW c \in Callers, NEW s \in Sessions, NEW d \in Databases,
           ReadSwitch(c, s, d)
    PROVE  ConfigInv'
<1>1. /\ s \in DOMAIN connections /\ calls[c].phase = "idle"
      /\ calls'[c].phase \in {"use", "reopen"}
      /\ calls'[c].session = {s} /\ calls'[c].instance = connections[s]
      /\ \A o \in Callers \ {c} : calls'[o] = calls[o]
  BY DEF ReadSwitch, Idle, ManagerInv, Types
<1>2. /\ connections' = connections /\ connectionConfigs' = connectionConfigs
      /\ instances' = instances /\ contested' = contested
  BY DEF ReadSwitch, maps, history
<1>3. UseReaches'
  BY <1>1, <1>2 DEF ConfigInv, UseReaches, ManagerInv, MapsOK
<1>4. UseApart'
  BY <1>1, <1>2 DEF ConfigInv, UseApart, ManagerInv, CallsApart, Owns
<1>5. RegistersRight' /\ RecordsRight'
  BY <1>1, <1>2 DEF ConfigInv, RegistersRight, RecordsRight
<1>6. ConfigAgrees'
  BY <1>1, <1>2 DEF ConfigInv, ConfigAgrees
<1>7. QED
  BY <1>3, <1>4, <1>5, <1>6 DEF ConfigInv

LEMMA UseConfig ==
    ASSUME ManagerInv, ConfigInv, NEW c \in Callers, UseDatabase(c)
    PROVE  ConfigInv'
<1> DEFINE call == calls[c]
           h == call.instance
<1>1. /\ connections' = connections /\ connectionConfigs' = connectionConfigs
      /\ call.phase = "use" /\ call \in Call /\ Shape(call)
      /\ h \in 1 .. Len(instances)
  BY CallFacts, CallNumbers DEF UseDatabase, maps
<1>2. CASE calls' = [calls EXCEPT ![c] = Idle] /\ UNCHANGED <<instances, contested>>
  <2>1. \A o \in Callers : calls'[o] = calls[o] \/ Moves(o)
    BY <1>1, <1>2 DEF Moves, Idle, ManagerInv, Types
  <2>2. QED
    BY <1>1, <1>2, <2>1, ConfigKept
<1>3. ASSUME NEW d \in call.database,
             instances' = [instances EXCEPT ![h].database = d],
             calls' = [calls EXCEPT ![c].phase = "record"],
             contested' = IF \E o \in Callers : calls[o].phase = "record"
                                                 /\ calls[o].session = call.session
                          THEN contested \cup call.session ELSE contested
      PROVE  ConfigInv'
  <2>1. PICK s \in Sessions : call.session = {s}
    BY <1>1 DEF Shape
  <2>2. /\ calls'[c].phase = "record" /\ calls'[c].session = {s}
        /\ calls'[c].database = call.database
        /\ \A o \in Callers \ {c} : calls'[o] = calls[o]
    BY <1>1, <1>3, <2>1 DEF ManagerInv, Types, Call
  <2>3. /\ instances'[h].database = d
        /\ \A i \in 1 .. Len(instances) : i # h => instances'[i] = instances[i]
    <3>1. instances \in Seq(Instance) /\ Len(instances) \in Nat
      BY DEF ManagerInv, Types
    <3>2. DOMAIN instances = 1 .. Len(instances) /\ instances[h] \in Instance
      BY <1>1, <3>1
    <3>3. [instances[h] EXCEPT !.database = d].database = d
      BY <3>2 DEF Instance
    <3>4. QED
      BY <1>1, <1>3, <3>2, <3>3
  <2>4. \A t \in DOMAIN connections : connections[t] = h <=> t = s
    BY <1>1, <2>1 DEF ConfigInv, UseReaches
  <2>5. \A t \in DOMAIN connections : connections[t] \in 1 .. Len(instances)
    BY DEF ManagerInv, Types
  <2>6. \A o \in Callers : calls'[o].phase \in {"use", "register"} =>
            o # c /\ calls'[o] = calls[o]
    BY <2>2
  <2>7. UseReaches' /\ UseApart'
    BY <1>1, <2>6 DEF ConfigInv, UseReaches, UseApart
  <2>8. RegistersRight'
    <3> SUFFICES ASSUME NEW o \in Callers, calls'[o].phase = "register"
                 PROVE  instances'[calls'[o].instance].database \in calls'[o].database
      BY DEF RegistersRight
    <3>1. calls'[o] = calls[o] /\ calls[o].instance \in 1 .. Len(instances)
      BY <2>6, CallNumbers
    <3>2. calls[o].instance # h
      BY <1>1, <3>1 DEF ConfigInv, UseApart
    <3>3. QED
      BY <2>3, <3>1, <3>2 DEF ConfigInv, RegistersRight
  <2>9. RecordsRight'
    <3> SUFFICES ASSUME NEW o \in Callers, calls'[o].phase = "record",
                        NEW t \in (calls'[o].session \cap DOMAIN connections') \ contested'
                 PROVE  instances'[connections'[t]].database \in calls'[o].database
      BY DEF RecordsRight
    <3>1. t \in DOMAIN connections /\ connections'[t] = connections[t] /\ t \notin contested
      BY <1>1, <1>3
    <3>2. CASE o = c
      BY <1>3, <2>2, <2>3, <2>4, <3>1, <3>2
    <3>3. CASE o # c
      <4>1. calls'[o] = calls[o] /\ calls[o].phase = "record"
        BY <2>2, <3>3
      <4>2. PICK u \in Sessions : calls[o].session = {u}
        BY <4>1, CallFacts DEF Shape
      <4>3. t # s
        BY <1>3, <2>1, <4>1, <4>2
      <4>4. QED
        BY <2>3, <2>4, <2>5, <3>1, <4>1, <4>3 DEF ConfigInv, RecordsRight
    <3>4. QED
      BY <3>2, <3>3
  <2>10. ConfigAgrees'
    <3> SUFFICES ASSUME NEW t \in DOMAIN connections \ contested, t # s
                 PROVE  \/ connectionConfigs[t] = instances'[connections[t]].database
                        \/ \E o \in Callers : calls'[o].phase = "record"
                                              /\ calls'[o].session = {t}
      BY <1>1, <1>3, <2>2 DEF ConfigAgrees
    <3>1. instances'[connections[t]] = instances[connections[t]]
      BY <2>3, <2>4, <2>5
    <3>2. \A o \in Callers : calls[o].phase = "record" => calls'[o] = calls[o]
      BY <1>1, <2>2
    <3>3. QED
      BY <3>1, <3>2 DEF ConfigInv, ConfigAgrees
  <2>11. QED
    BY <2>7, <2>8, <2>9, <2>10 DEF ConfigInv
<1>4. QED
  BY <1>2, <1>3 DEF UseDatabase

LEMMA RecordConfig ==
    ASSUME ManagerInv, ConfigInv, NEW c \in Callers, RecordSwitch(c)
    PROVE  ConfigInv'
<1> DEFINE call == calls[c]
<1>1. call.phase = "record" /\ Shape(call)
  BY CallFacts DEF RecordSwitch
<1>2. PICK s \in Sessions : call.session = {s}
  BY <1>1 DEF Shape
<1>3. PICK d \in Databases : call.database = {d}
  BY <1>1 DEF Shape
<1>4. /\ connections' = connections /\ instances' = instances /\ contested' = contested
      /\ connectionConfigs' = Put(connectionConfigs, {s}, d)
  BY <1>2, <1>3 DEF RecordSwitch, history
<1>5. /\ connectionConfigs'[s] = d
      /\ \A t \in DOMAIN connections \ {s} : connectionConfigs'[t] = connectionConfigs[t]
  BY <1>4 DEF Put, ManagerInv, Types
<1>6. \A o \in Callers : calls'[o] = IF o = c THEN Idle ELSE calls[o]
  BY DEF RecordSwitch, ManagerInv, Types
<1>7. \A o \in Callers : calls'[o].phase # "idle" => calls'[o] = calls[o]
  BY <1>6 DEF Idle
<1>8. UseReaches' /\ UseApart'
  BY <1>4, <1>7 DEF ConfigInv, UseReaches, UseApart
<1>9. RegistersRight' /\ RecordsRight'
  BY <1>4, <1>7 DEF ConfigInv, RegistersRight, RecordsRight
<1>10. ConfigAgrees'
  <2> SUFFICES ASSUME NEW t \in DOMAIN connections \ contested
               PROVE  \/ connectionConfigs'[t] = instances[connections[t]].database
                      \/ \E o \in Callers : calls'[o].phase = "record" /\ calls'[o].session = {t}
    BY <1>4 DEF ConfigAgrees
  <2>1. CASE t = s
    BY <1>1, <1>2, <1>3, <1>5, <2>1 DEF ConfigInv, RecordsRight
  <2>2. CASE t # s
    <3>1. \A o \in Callers : calls[o].session = {t} => calls'[o] = calls[o]
      BY <1>2, <1>6, <2>2
    <3>2. QED
      BY <1>5, <2>2, <3>1 DEF ConfigInv, ConfigAgrees
  <2>3. QED
    BY <2>1, <2>2
<1>11. QED
  BY <1>8, <1>9, <1>10 DEF ConfigInv

LEMMA SwapConfig ==
    ASSUME ManagerInv, ConfigInv, NEW c \in Callers, Swap(c)
    PROVE  ConfigInv'
<1> DEFINE call == calls[c]
           h == call.instance
<1>1. call.phase = "swap" /\ Shape(call) /\ Holds(call) /\ h \in 1 .. Len(instances)
  BY CallFacts, CallNumbers DEF Swap
<1>2. PICK s \in Sessions : call.session = {s}
  BY <1>1 DEF Shape
<1>3. PICK d \in Databases : call.database = {d}
  BY <1>1 DEF Shape
<1>4. /\ connections' = Put(connections, {s}, h)
      /\ connectionConfigs' = Put(connectionConfigs, {s}, d)
      /\ instances' = instances /\ contested' = contested
  BY <1>2, <1>3 DEF Swap, ConfigAfter, history
<1>5. /\ DOMAIN connections' = DOMAIN connections \cup {s}
      /\ connections'[s] = h /\ connectionConfigs'[s] = d
      /\ \A t \in DOMAIN connections \ {s} : connections'[t] = connections[t]
                                             /\ connectionConfigs'[t] = connectionConfigs[t]
  BY <1>4 DEF Put, ManagerInv, Types
<1>6. calls'[c].phase = "drop" /\ \A o \in Callers \ {c} : calls'[o] = calls[o]
  BY DEF Swap, Idle, ManagerInv, Types
<1>7. \A o \in Callers : calls'[o].phase # "drop" => calls'[o] = calls[o]
  BY <1>6
<1>8. ~instances[h].inPlace /\ instances[h].database = d
  BY <1>1, <1>3 DEF Holds, Carries
<1>9. ASSUME NEW o \in Callers, calls'[o].phase \in {"use", "record"}
      PROVE  s \notin calls[o].session /\ calls'[o] = calls[o]
  BY <1>1, <1>2, <1>7, <1>9 DEF ManagerInv, OneSort
<1>10. ASSUME NEW o \in Callers, calls[o].phase = "use"
       PROVE  calls[o].instance # h
  BY <1>8, <1>10, CallFacts DEF Holds
<1>11. UseReaches'
  BY <1>5, <1>9, <1>10 DEF ConfigInv, UseReaches
<1>12. UseApart' /\ RegistersRight'
  BY <1>4, <1>7 DEF ConfigInv, UseApart, RegistersRight
<1>13. RecordsRight'
  <2>1. \A o \in Callers : calls'[o].phase = "record" =>
          /\ calls'[o] = calls[o]
          /\ calls[o].session \cap DOMAIN connections' \subseteq DOMAIN connections \ {s}
    BY <1>5, <1>9
  <2>2. QED
    BY <1>4, <1>5, <2>1 DEF ConfigInv, RecordsRight
<1>14. ConfigAgrees'
  <2> SUFFICES ASSUME NEW t \in DOMAIN connections \ contested, t # s
               PROVE  \/ connectionConfigs[t] = instances[connections[t]].database
                      \/ \E o \in Callers : calls'[o].phase = "record" /\ calls'[o].session = {t}
    BY <1>4, <1>5, <1>8 DEF ConfigAgrees
  <2>1. \A o \in Callers : calls[o].phase = "record" => calls'[o] = calls[o]
    BY <1>1, <1>6
  <2>2. QED
    BY <2>1 DEF ConfigInv, ConfigAgrees
<1>15. QED
  BY <1>11, <1>12, <1>13, <1>14 DEF ConfigInv

\* The steps of a call that change no session.
LEMMA MovesConfig ==
    ASSUME ManagerInv, ConfigInv, NEW c \in Callers, NEW new,
           calls' = [calls EXCEPT ![c] = new],
           connections' = connections, connectionConfigs' = connectionConfigs,
           contested' = contested,
           \A h \in 1 .. Len(instances) : instances'[h].database = instances[h].database,
           calls[c].phase # "record", new.phase \notin {"use", "record"},
           new.phase = "register" => /\ new.instance = Len(instances) + 1
                                     /\ instances'[new.instance].database \in new.database
    PROVE  ConfigInv'
<1>1. \A o \in Callers : calls'[o] = IF o = c THEN new ELSE calls[o]
  BY DEF ManagerInv, Types
<1>2. \A o \in Callers : calls'[o] = calls[o] \/ Moves(o)
  BY <1>1 DEF Moves
<1>3. QED
  BY <1>2, ConfigKept

LEMMA ConnectConfig ==
    ASSUME ManagerInv, ConfigInv, NEW c \in Callers, NEW d \in Databases,
           NEW inPlace \in BOOLEAN, NEW next \in Call, Connect(c, d, inPlace, next),
           connections' = connections, connectionConfigs' = connectionConfigs,
           contested' = contested, calls[c].phase # "record",
           next.phase \in {"register", "insert", "swap"}, d \in next.database
    PROVE  ConfigInv'
<1> DEFINE n == Len(instances) + 1
           new == [next EXCEPT !.instance = n]
           i == [open |-> TRUE, database |-> d, inPlace |-> inPlace]
<1>1. CASE calls' = [calls EXCEPT ![c] = Idle] /\ UNCHANGED instances
  BY <1>1, MovesConfig DEF Idle
<1>2. CASE instances' = Append(instances, i) /\ calls' = [calls EXCEPT ![c] = new]
  <2>1. instances \in Seq(Instance) /\ i \in Instance /\ i.database = d
    BY DEF ManagerInv, Types, Instance
  <2>2. new.instance = n /\ new.phase = next.phase /\ new.database = next.database
    BY DEF Call
  <2> HIDE DEF i, new
  <2>3. /\ \A h \in 1 .. Len(instances) : instances'[h] = instances[h]
        /\ instances'[n] = i
    BY <1>2, <2>1, AppendFacts
  <2>4. QED
    BY <1>2, <2>1, <2>2, <2>3, MovesConfig
<1>3. QED
  BY <1>1, <1>2, Zenon DEF Connect

LEMMA ReturnPhase ==
    ASSUME NEW call, NEW h
    PROVE  Return(call, h).phase \in {"read", "run"}
BY DEF Return, Idle

LEMMA QueryConfig ==
    ASSUME ManagerInv, ConfigInv, NEW c \in Callers,
           \/ \E id \in Identifiers, target \in {{}} \cup {{d} : d \in Targets} :
                Query(c, id, target)
           \/ QueryAgain(c) \/ LookupTarget(c) \/ InsertTarget(c) \/ RunQuery(c)
    PROVE  ConfigInv'
<1>1. ASSUME NEW call \in Call, AtMostOne(call.database),
             call.instance \in 0 .. Len(instances), call.first \in 0 .. Len(instances),
             calls' = [calls EXCEPT ![c] = AfterRead(call)],
             UNCHANGED <<maps, instances, history>>, calls[c].phase # "record"
      PROVE  ConfigInv'
  <2>1. AfterRead(call).phase \notin {"use", "record", "register"}
    BY <1>1, AfterReadOK, Zenon DEF Owns, Switching
  <2>2. QED
    BY <1>1, <2>1, MovesConfig DEF maps, history
<1>2. ASSUME NEW id \in Identifiers, NEW target \in {{}} \cup {{d} : d \in Targets},
             Query(c, id, target)
      PROVE  ConfigInv'
  <2> DEFINE call == [Idle EXCEPT !.id = {id}, !.database = target]
  <2>1. AtMostOne(target) /\ target \subseteq Databases /\ Len(instances) \in Nat
    BY ConnectionManagerAssumption DEF AtMostOne, ManagerInv, Types
  <2>2. /\ call \in Call /\ call.database = target /\ call.instance = 0 /\ call.first = 0
    BY <2>1 DEF Idle, Call, Phases
  <2>3. /\ calls' = [calls EXCEPT ![c] = AfterRead(call)]
        /\ UNCHANGED <<maps, instances, history>> /\ calls[c].phase # "record"
    BY <1>2 DEF Query
  <2> HIDE DEF call
  <2>4. /\ AtMostOne(call.database)
        /\ call.instance \in 0 .. Len(instances) /\ call.first \in 0 .. Len(instances)
    BY <2>1, <2>2
  <2>5. QED
    BY <1>1, <2>2, <2>3, <2>4
<1>3. CASE QueryAgain(c)
  <2>1. /\ calls[c] \in Call /\ AtMostOne(calls[c].database)
        /\ calls[c].instance \in 0 .. Len(instances)
        /\ calls[c].first \in 0 .. Len(instances) /\ calls[c].phase # "record"
    BY <1>3, CallFacts DEF QueryAgain, Shape
  <2>2. calls' = [calls EXCEPT ![c] = AfterRead(calls[c])] /\ UNCHANGED <<maps, instances, history>>
    BY <1>3 DEF QueryAgain
  <2>3. QED
    BY <1>1, <2>1, <2>2
<1>4. CASE LookupTarget(c)
  <2> DEFINE call == calls[c]
             cached == DbKey(call) \cap DOMAIN dbConnections
             new == IF cached = {} THEN [call EXCEPT !.phase = "open"]
                    ELSE Return(call, dbConnections[CHOOSE k \in cached : TRUE])
  <2>1. calls' = [calls EXCEPT ![c] = new] /\ UNCHANGED <<maps, instances, history>>
        /\ call.phase = "lookup"
    BY <1>4, Zenon DEF LookupTarget
  <2>2. [call EXCEPT !.phase = "open"].phase = "open"
    BY CallFacts DEF Call
  <2>3. new.phase \in {"open", "read", "run"}
    BY <2>2, ReturnPhase
  <2> HIDE DEF new, cached
  <2>4. QED
    BY <2>1, <2>3, MovesConfig DEF maps, history
<1>5. CASE InsertTarget(c)
  <2> DEFINE call == calls[c]
  <2>1. /\ connections' = connections /\ connectionConfigs' = connectionConfigs
        /\ contested' = contested /\ calls[c].phase = "insert"
    BY <1>5 DEF InsertTarget, history
  <2>2. PICK h : calls' = [calls EXCEPT ![c] = Return(call, h)]
    BY <1>5, Zenon DEF InsertTarget
  <2>3. \A i \in 1 .. Len(instances) : instances'[i].database = instances[i].database
    <3>1. \/ instances' = instances \/ \E H : instances' = Disconnected(H)
      BY <1>5, Zenon DEF InsertTarget
    <3>2. Types
      BY DEF ManagerInv
    <3>3. QED
      BY <3>1, <3>2, DisconnectedFacts
  <2>4. QED
    BY <2>1, <2>2, <2>3, ReturnPhase, MovesConfig
<1>6. CASE RunQuery(c)
  <2>1. /\ calls' = [calls EXCEPT ![c] = Idle] /\ UNCHANGED <<maps, instances, history>>
        /\ calls[c].phase # "record"
    BY <1>6 DEF RunQuery
  <2>2. QED
    BY <2>1, MovesConfig DEF maps, history, Idle
<1>7. QED
  BY <1>2, <1>3, <1>4, <1>5, <1>6

LEMMA OpensConfig ==
    ASSUME ManagerInv, ConfigInv, NEW c \in Callers,
           \/ \E x \in Stored : CreateConnection(c, x)
           \/ OpenTarget(c) \/ Reopen(c)
    PROVE  ConfigInv'
<1>1. ASSUME NEW x \in Stored, CreateConnection(c, x) PROVE ConfigInv'
  <2> DEFINE next == [Idle EXCEPT !.phase = "register", !.stored = {x}, !.database = {Home[x]}]
             inPlace == x \in InPlace
  <2>1. Home[x] \in Databases
    BY ConnectionManagerAssumption
  <2>2. next \in Call /\ next.phase = "register" /\ Home[x] \in next.database
    BY <2>1 DEF Idle, Call, Phases
  <2>3. Connect(c, Home[x], inPlace, next)
    BY <1>1, Zenon DEF CreateConnection
  <2>4. /\ connections' = connections /\ connectionConfigs' = connectionConfigs
        /\ contested' = contested /\ calls[c].phase # "record"
    BY <1>1 DEF CreateConnection, maps, history
  <2>5. inPlace \in BOOLEAN
    OBVIOUS
  <2> HIDE DEF next, inPlace
  <2>6. QED
    BY <2>1, <2>2, <2>3, <2>4, <2>5, ConnectConfig
<1>2. ASSUME NEW phase \in {"insert", "swap"}, NEW d \in calls[c].database,
             Connect(c, d, FALSE, [calls[c] EXCEPT !.phase = phase]),
             UNCHANGED <<maps, history>>, calls[c].phase # "record"
      PROVE  ConfigInv'
  <2> DEFINE next == [calls[c] EXCEPT !.phase = phase]
  <2>1. calls[c] \in Call
    BY CallFacts
  <2>2. /\ next \in Call /\ next.phase = phase /\ next.database = calls[c].database
        /\ d \in Databases
    BY <2>1 DEF Call, Phases
  <2>3. Connect(c, d, FALSE, next)
    BY <1>2
  <2> HIDE DEF next
  <2>4. QED
    BY <1>2, <2>2, <2>3, ConnectConfig DEF maps, history
<1>3. QED
  BY <1>1, <1>2 DEF OpenTarget, Reopen

LEMMA ClosesConfig ==
    ASSUME ManagerInv, ConfigInv,
           \/ \E s \in Sessions : RemoveConnection(s)
           \/ Close
           \/ \E c \in Callers : DropOld(c)
    PROVE  ConfigInv'
<1>1. \A h \in 1 .. Len(instances) : instances'[h].database = instances[h].database
  <2>1. \E H : instances' = Disconnected(H)
    BY Zenon DEF RemoveConnection, Close, DropOld
  <2>2. Types
    BY DEF ManagerInv
  <2>3. QED
    BY <2>1, <2>2, DisconnectedFacts
<1>2. ASSUME NEW s \in Sessions, RemoveConnection(s) PROVE ConfigInv'
  <2>1. /\ DOMAIN connections' \subseteq DOMAIN connections
        /\ \A t \in DOMAIN connections' : /\ connections'[t] = connections[t]
                                           /\ connectionConfigs'[t] = connectionConfigs[t]
        /\ contested' = contested /\ calls' = calls
    BY <1>2 DEF RemoveConnection, Without, Restrict, ManagerInv, Types
  <2>2. QED
    BY <1>1, <2>1, ConfigKept
<1>3. CASE Close
  <2>1. DOMAIN connections' = {} /\ contested' = contested /\ calls' = calls
    BY <1>3 DEF Close, Nothing
  <2>2. QED
    BY <1>1, <2>1, ConfigKept
<1>4. ASSUME NEW c \in Callers, DropOld(c) PROVE ConfigInv'
  <2>1. /\ calls' = [calls EXCEPT ![c] = Idle] /\ UNCHANGED <<maps, history>>
        /\ calls[c].phase # "record"
    BY <1>4 DEF DropOld
  <2>2. QED
    BY <1>1, <2>1, MovesConfig DEF maps, history, Idle
<1>5. QED
  BY <1>2, <1>3, <1>4

LEMMA NextConfig == ManagerInv /\ ConfigInv /\ [Next]_vars => ConfigInv'
<1> SUFFICES ASSUME ManagerInv, ConfigInv, [Next]_vars PROVE ConfigInv'
  OBVIOUS
<1>1. CASE UNCHANGED vars
  <2>1. /\ connections' = connections /\ connectionConfigs' = connectionConfigs
        /\ instances' = instances /\ calls' = calls /\ contested' = contested
    BY <1>1 DEF vars
  <2>2. QED
    BY <2>1, ConfigKept
<1>2. CASE (\E s \in Sessions : RemoveConnection(s)) \/ Close \/ \E c \in Callers : DropOld(c)
  BY <1>2, ClosesConfig
<1>3. ASSUME NEW c \in Callers,
             \/ \E x \in Stored : CreateConnection(c, x)
             \/ OpenTarget(c) \/ Reopen(c)
      PROVE  ConfigInv'
  BY <1>3, OpensConfig
<1>4. ASSUME NEW c \in Callers,
             \/ \E id \in Identifiers, target \in {{}} \cup {{d} : d \in Targets} :
                  Query(c, id, target)
             \/ QueryAgain(c) \/ LookupTarget(c) \/ InsertTarget(c) \/ RunQuery(c)
      PROVE  ConfigInv'
  BY <1>4, QueryConfig
<1>5. ASSUME NEW c \in Callers,
             \/ \E s \in Sessions : Register(c, s)
             \/ \E s \in Sessions, d \in Targets : ReadSwitch(c, s, d)
             \/ UseDatabase(c) \/ RecordSwitch(c) \/ Swap(c)
      PROVE  ConfigInv'
  <2>1. Targets \subseteq Databases
    BY ConnectionManagerAssumption
  <2>2. QED
    BY <1>5, <2>1, RegisterConfig, ReadSwitchConfig, UseConfig, RecordConfig, SwapConfig
<1>6. QED
  BY <1>1, <1>2, <1>3, <1>4, <1>5, Zenon DEF Next

(***************************************************************************)
(* What is recorded as the database of a session is its instance's.        *)
(***************************************************************************)
THEOREM ConfigAgreesHolds == Spec => []ConfigAgrees
<1>1. Init => ConfigInv
  BY DEF Init, Nothing, Idle, ConfigInv, UseReaches, UseApart, RegistersRight, RecordsRight,
         ConfigAgrees
<1>2. QED
  BY <1>1, NextConfig, ManagerInvariant, PTL DEF Spec, ConfigInv

=============================================================================
