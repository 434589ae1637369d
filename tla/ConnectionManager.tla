--------------------------- MODULE ConnectionManager ---------------------------
(***************************************************************************)
(* The registry of database connections: Manager (pkg/database/manager.go) *)
(* as the desktop services call it (services/database.go), every call in a *)
(* goroutine of its own.                                                   *)
(*                                                                         *)
(* The mutex covers the maps only.  Instances are connected outside it, so *)
(* a query that targets a database, and a switch of database, read the     *)
(* maps, work, and lock again to write what they have decided.             *)
(*                                                                         *)
(* An instance is its index in "instances".  The database of an instance   *)
(* is the one its config names (config.Database).  Engines are of two      *)
(* sorts: PostgreSQL and SQLite need a new instance for another database,  *)
(* MySQL and its kin take a USE.  For the others SwitchDatabase is an      *)
(* error that changes nothing.                                             *)
(***************************************************************************)
EXTENDS Naturals, FiniteSets, Sequences, Functions

CONSTANTS
    Callers,      \* goroutines that query, connect or switch
    Sessions,     \* connection ids, a fresh UUID each
    Stored,       \* saved connections: the config.ID, standing for its aliases too
    InPlace,      \* the saved connections of the MySQL sort
    Databases,    \* database names; an alias may be one as well
    Fold,         \* each database name without its case: strings.EqualFold is equality of it
    Targets,      \* the databases that queries and switches name
    Home,         \* the database of each saved connection: config.Database
    Identifiers,  \* what queries name a connection by: session ids and aliases
    MaxInstances  \* bound on the instances ever connected

ASSUME ConnectionManagerAssumption ==
    /\ InPlace \subseteq Stored
    /\ DOMAIN Fold = Databases
    /\ Targets \subseteq Databases
    /\ Home \in [Stored -> Databases]
    /\ Identifiers \subseteq Sessions \cup Stored \cup Databases
    /\ MaxInstances \in Nat

VARIABLES
    connections,        \* m.connections: session -> instance
    connectionNames,    \* m.connectionNames: alias -> session
    connectionConfigs,  \* m.connectionConfigs: session -> database
    dbConnections,      \* m.dbConnections: <<session, database>> -> instance
    instances,          \* every Database made so far
    calls,              \* the call each goroutine has under way
    latest,             \* history: the last session registered for a saved connection
    removed,            \* history: sessions removed or closed
    overlapped,         \* history: those of them that a call had read and not yet written
    contested           \* history: sessions for which two USEs overlapped

vars == <<connections, connectionNames, connectionConfigs, dbConnections, instances, calls,
          latest, removed, overlapped, contested>>

maps == <<connections, connectionNames, connectionConfigs, dbConnections>>

history == <<latest, removed, overlapped, contested>>

Nothing == [x \in {} |-> 0]

Idle == [phase |-> "idle", id |-> {}, stored |-> {}, session |-> {}, database |-> {},
         config |-> {}, instance |-> 0, first |-> 0]

Init ==
    /\ connections = Nothing
    /\ connectionNames = Nothing
    /\ connectionConfigs = Nothing
    /\ dbConnections = Nothing
    /\ instances = <<>>
    /\ calls = [c \in Callers |-> Idle]
    /\ latest = Nothing
    /\ removed = {}
    /\ overlapped = {}
    /\ contested = {}

-----------------------------------------------------------------------------
\* Mutated forms of definitions, named BugX for X, are what the runs must catch.

\* The map f after f[k] = v for the keys k in K.
Put(f, K, v) == [k \in DOMAIN f \cup K |-> IF k \in K THEN v ELSE f[k]]

\* The map f after delete(f, k) for the keys k in K.
Without(f, K) == Restrict(f, DOMAIN f \ K)

\* The instances after Disconnect on those in H.
Disconnected(H) ==
    [h \in DOMAIN instances |-> IF h \in H THEN [instances[h] EXCEPT !.open = FALSE]
                                           ELSE instances[h]]

InstanceOf(s) == IF s \in DOMAIN connections THEN connections[s] ELSE 0

\* createDatabaseInstance and Connect, which fail or make a connected instance.  (When the
\* first has opened its pool and the second fails, that pool is left open and forgotten.)
Connect(c, d, inPlace, next) ==
    \/ /\ calls' = [calls EXCEPT ![c] = Idle]
       /\ UNCHANGED instances
    \/ /\ Len(instances) < MaxInstances
       /\ instances' = Append(instances, [open |-> TRUE, database |-> d, inPlace |-> inPlace])
       /\ calls' = [calls EXCEPT ![c] = [next EXCEPT !.instance = Len(instances) + 1]]

-----------------------------------------------------------------------------
(* CreateConnection and RemoveConnection. *)

CreateConnection(c, x) ==
    /\ calls[c].phase = "idle"
    /\ Connect(c, Home[x], x \in InPlace,
               [Idle EXCEPT !.phase = "register", !.stored = {x}, !.database = {Home[x]}])
    /\ UNCHANGED <<maps, history>>

Fresh == Sessions \ (DOMAIN connectionConfigs \cup removed)

\* Under the lock.  The database, which the user has chosen, is an alias too.
Register(c, s) ==
    /\ calls[c].phase = "register"
    /\ s \in Fresh
    /\ LET call == calls[c] IN
         /\ connections' = Put(connections, {s}, call.instance)
         /\ connectionConfigs' = Put(connectionConfigs, {s}, CHOOSE d \in call.database : TRUE)
         /\ connectionNames' = Put(connectionNames, call.stored \cup call.database, s)
         /\ latest' = Put(latest, call.stored, s)
    /\ calls' = [calls EXCEPT ![c] = Idle]
    /\ UNCHANGED <<dbConnections, instances, removed, overlapped, contested>>

\* Calls that have read the maps for s and will write them again.
Reading(s) ==
    {c \in Callers : s \in calls[c].session /\ calls[c].phase # "run"}

\* The cached per-database instances of s.
BugKeysOf(s) == {}
KeysOf(s) == {k \in DOMAIN dbConnections : k[1] = s}

\* The aliases that "find and delete the reverse mapping" may find.
BugNamesOf(s) == DOMAIN connectionNames
NamesOf(s) == {name \in DOMAIN connectionNames : connectionNames[name] = s}

\* Under the lock.  Of the aliases of s one is deleted, whichever the loop meets first.
RemoveConnection(s) ==
    /\ s \in DOMAIN connections
    /\ instances' = Disconnected({connections[s]} \cup {dbConnections[k] : k \in KeysOf(s)})
    /\ connections' = Without(connections, {s})
    /\ connectionConfigs' = Without(connectionConfigs, {s})
    /\ dbConnections' = Without(dbConnections, KeysOf(s))
    /\ IF NamesOf(s) = {}
       THEN UNCHANGED connectionNames
       ELSE \E name \in NamesOf(s) : connectionNames' = Without(connectionNames, {name})
    /\ removed' = removed \cup {s}
    /\ overlapped' = IF Reading(s) = {} THEN overlapped ELSE overlapped \cup {s}
    /\ UNCHANGED <<calls, latest, contested>>

\* Close, under the lock: configs and aliases stay.
Close ==
    /\ instances' = Disconnected(Range(connections) \cup Range(dbConnections))
    /\ connections' = Nothing
    /\ dbConnections' = Nothing
    /\ removed' = removed \cup DOMAIN connections
    /\ overlapped' = overlapped \cup {s \in DOMAIN connections : Reading(s) # {}}
    /\ UNCHANGED <<connectionNames, connectionConfigs, calls, latest, contested>>

-----------------------------------------------------------------------------
(* ExecuteQueryOnDatabase: the target is resolved for the metadata, then again for the     *)
(* query.                                                                                  *)

\* Some name in D is the name d, whatever their case.
SameName(d, D) == \E e \in D : Fold[e] = Fold[d]

Resolved(id) == IF id \notin DOMAIN connections /\ id \in DOMAIN connectionNames
                THEN connectionNames[id] ELSE id

\* getExecutionTarget returns the instance h, the first or the second time.
Return(call, h) ==
    IF call.first = 0
    THEN [Idle EXCEPT !.phase = "read", !.id = call.id, !.database = call.database, !.first = h]
    ELSE [Idle EXCEPT !.phase = "run", !.database = call.database, !.first = call.first,
                      !.instance = h]

\* getExecutionTarget up to the end of its first read lock.
AfterRead(call) ==
    LET s == CHOOSE x \in {Resolved(id) : id \in call.id} : TRUE
        db == instances[connections[s]]
    IN IF s \notin DOMAIN connections THEN Idle
       ELSE IF call.database = {} \/ SameName(connectionConfigs[s], call.database) \/ db.inPlace
            THEN Return(call, connections[s])
            ELSE [call EXCEPT !.phase = "lookup", !.session = {s},
                              !.id = IF call.first = 0 THEN @ ELSE {}]

Query(c, id, target) ==
    /\ calls[c].phase = "idle"
    /\ calls' = [calls EXCEPT ![c] = AfterRead([Idle EXCEPT !.id = {id}, !.database = target])]
    /\ UNCHANGED <<maps, instances, history>>

QueryAgain(c) ==
    /\ calls[c].phase = "read"
    /\ calls' = [calls EXCEPT ![c] = AfterRead(@)]
    /\ UNCHANGED <<maps, instances, history>>

BugDbKey(call) == call.session \X call.session
DbKey(call) == call.session \X call.database

\* The second read lock: a cached instance is taken.
LookupTarget(c) ==
    /\ calls[c].phase = "lookup"
    /\ LET call == calls[c]
           cached == DbKey(call) \cap DOMAIN dbConnections
       IN calls' = [calls EXCEPT ![c] =
            IF cached = {} THEN [call EXCEPT !.phase = "open"]
            ELSE Return(call, dbConnections[CHOOSE k \in cached : TRUE])]
    /\ UNCHANGED <<maps, instances, history>>

OpenTarget(c) ==
    /\ calls[c].phase = "open"
    /\ \E d \in calls[c].database : Connect(c, d, FALSE, [calls[c] EXCEPT !.phase = "insert"])
    /\ UNCHANGED <<maps, history>>

\* Under the lock: the instance is cached unless another goroutine has been faster, and
\* then it is redundant.
BugRedundant(h, cached) == cached
Redundant(h, cached) == h

InsertTarget(c) ==
    /\ calls[c].phase = "insert"
    /\ LET call == calls[c]
           cached == DbKey(call) \cap DOMAIN dbConnections
       IN IF cached = {}
          THEN /\ dbConnections' = Put(dbConnections, DbKey(call), call.instance)
               /\ calls' = [calls EXCEPT ![c] = Return(call, call.instance)]
               /\ UNCHANGED instances
          ELSE LET h == dbConnections[CHOOSE k \in cached : TRUE] IN
               /\ instances' = Disconnected({Redundant(call.instance, h)})
               /\ calls' = [calls EXCEPT ![c] = Return(call, h)]
               /\ UNCHANGED dbConnections
    /\ UNCHANGED <<connections, connectionNames, connectionConfigs, history>>

\* The query runs on the instance, or fails.
RunQuery(c) ==
    /\ calls[c].phase = "run"
    /\ calls' = [calls EXCEPT ![c] = Idle]
    /\ UNCHANGED <<maps, instances, history>>

-----------------------------------------------------------------------------
(* SwitchDatabase. *)

\* The read lock; nothing is to do if d is the database already, whatever its case.
ReadSwitch(c, s, d) ==
    /\ calls[c].phase = "idle"
    /\ s \in DOMAIN connections \cap DOMAIN connectionConfigs
    /\ ~SameName(connectionConfigs[s], {d})
    /\ calls' = [calls EXCEPT ![c] =
                   [Idle EXCEPT !.phase = IF instances[connections[s]].inPlace THEN "use"
                                                                              ELSE "reopen",
                                !.session = {s}, !.database = {d},
                                !.config = {connectionConfigs[s]},
                                !.instance = connections[s]]]
    /\ UNCHANGED <<maps, instances, history>>

\* MySQLDatabase.SwitchDatabase: USE, or an error, which a closed pool always returns.
UseDatabase(c) ==
    /\ calls[c].phase = "use"
    /\ LET call == calls[c]
           h == call.instance
       IN \/ /\ calls' = [calls EXCEPT ![c] = Idle]
             /\ UNCHANGED <<instances, contested>>
          \/ /\ instances[h].open
             /\ \E d \in call.database : instances' = [instances EXCEPT ![h].database = d]
             /\ calls' = [calls EXCEPT ![c].phase = "record"]
             /\ contested' = IF \E o \in Callers : calls[o].phase = "record"
                                                   /\ calls[o].session = call.session
                             THEN contested \cup call.session ELSE contested
    /\ UNCHANGED <<maps, latest, removed, overlapped>>

\* updateDatabaseAliasLocked: the alias of the old database goes if it is this session's.
AliasesAfter(call) ==
    Put(Without(connectionNames, call.config \cap
                  {name \in DOMAIN connectionNames : connectionNames[name] \in call.session}),
        call.database, CHOOSE s \in call.session : TRUE)

\* Under the lock, after a USE, whether or not the session is still there.
RecordSwitch(c) ==
    /\ calls[c].phase = "record"
    /\ LET call == calls[c] IN
         /\ connectionConfigs' = Put(connectionConfigs, call.session,
                                     CHOOSE d \in call.database : TRUE)
         /\ connectionNames' = AliasesAfter(call)
    /\ calls' = [calls EXCEPT ![c] = Idle]
    /\ UNCHANGED <<connections, dbConnections, instances, history>>

\* switchDatabaseWithReconnect.
Reopen(c) ==
    /\ calls[c].phase = "reopen"
    /\ \E d \in calls[c].database : Connect(c, d, FALSE, [calls[c] EXCEPT !.phase = "swap"])
    /\ UNCHANGED <<maps, history>>

\* The config as it was read.
BugConfigAfter(call) == call.config
ConfigAfter(call) == call.database

\* Under the lock, whether or not the session is still there.
Swap(c) ==
    /\ calls[c].phase = "swap"
    /\ LET call == calls[c] IN
         /\ calls' = [calls EXCEPT ![c] =
              [Idle EXCEPT !.phase = "drop",
                           !.instance = CHOOSE h \in {InstanceOf(s) : s \in call.session} : TRUE]]
         /\ connections' = Put(connections, call.session, call.instance)
         /\ connectionConfigs' = Put(connectionConfigs, call.session,
                                     CHOOSE d \in ConfigAfter(call) : TRUE)
         /\ connectionNames' = AliasesAfter(call)
    /\ UNCHANGED <<dbConnections, instances, history>>

\* The old instance, if any, is disconnected after the lock is released.
BugOld(h) == {}
Old(h) == {h}

DropOld(c) ==
    /\ calls[c].phase = "drop"
    /\ instances' = Disconnected(Old(calls[c].instance))
    /\ calls' = [calls EXCEPT ![c] = Idle]
    /\ UNCHANGED <<maps, history>>

-----------------------------------------------------------------------------

Next ==
    \/ \E s \in Sessions : RemoveConnection(s)
    \/ Close
    \/ \E c \in Callers :
         \/ \E x \in Stored : CreateConnection(c, x)
         \/ \E s \in Sessions : Register(c, s)
         \/ \E id \in Identifiers, target \in {{}} \cup {{d} : d \in Targets} :
              Query(c, id, target)
         \/ QueryAgain(c) \/ LookupTarget(c) \/ OpenTarget(c) \/ InsertTarget(c) \/ RunQuery(c)
         \/ \E s \in Sessions, d \in Targets : ReadSwitch(c, s, d)
         \/ UseDatabase(c) \/ RecordSwitch(c)
         \/ Reopen(c) \/ Swap(c) \/ DropOld(c)

Spec == Init /\ [][Next]_vars

-----------------------------------------------------------------------------

\* The types of all variables.
TypeOK ==
    /\ DOMAIN connections \subseteq Sessions
    /\ DOMAIN connectionConfigs \subseteq Sessions
    /\ DOMAIN connectionNames \subseteq Stored \cup Databases
    /\ DOMAIN dbConnections \subseteq Sessions \X Databases
    /\ Range(connections) \cup Range(dbConnections) \subseteq DOMAIN instances
    /\ Range(connectionNames) \subseteq Sessions
    /\ Range(connectionConfigs) \subseteq Databases
    /\ DOMAIN connections \subseteq DOMAIN connectionConfigs
    /\ instances \in Seq([open : BOOLEAN, database : Databases, inPlace : BOOLEAN])
    /\ \A c \in Callers :
         /\ calls[c].phase \in {"idle", "register", "read", "lookup", "open", "insert", "run",
                                "use", "record", "reopen", "swap", "drop"}
         /\ calls[c].instance \in 0 .. Len(instances)
         /\ calls[c].first \in 0 .. Len(instances)

\* A connected instance can be reached: through a map, or by a call that is about to
\* register or to disconnect it.
InstancesOwned ==
    \A h \in DOMAIN instances :
        instances[h].open =>
            \/ h \in Range(connections) \cup Range(dbConnections)
            \/ \E c \in Callers : calls[c].instance = h
                                  /\ calls[c].phase \in {"register", "insert", "swap", "drop"}

\* No map hands out an instance that has been disconnected, whatever queries, switches,
\* removals and lost races come together.
RegisteredAreOpen ==
    \A h \in Range(connections) \cup Range(dbConnections) : instances[h].open

\* A session that was removed, or closed with the manager, comes back, or leaves a cached
\* instance behind, only if a switch or a targeted query had read it before and wrote
\* afterwards.
RemovedStaysGone ==
    \A s \in removed \ overlapped :
        s \notin DOMAIN connections /\ \A k \in DOMAIN dbConnections : k[1] # s

\* The recorded database of a session is that of its instance, but for the moment between
\* a USE and its record, and for sessions for which two of these overlapped.  A switch
\* that reconnects changes both at once.
ConfigAgrees ==
    \A s \in DOMAIN connections \ contested :
        \/ connectionConfigs[s] = instances[connections[s]].database
        \/ \E c \in Callers : calls[c].phase = "record" /\ calls[c].session = {s}

\* The id of a saved connection leads to the last session registered for it as long as
\* that is not removed, however many other sessions come, go and switch; an alias that is
\* also the name of a database may be taken or deleted by a switch.
NamesLead ==
    \A x \in DOMAIN latest \ Databases :
        latest[x] \in DOMAIN connections \ removed =>
            x \in DOMAIN connectionNames /\ connectionNames[x] = latest[x]

\* A query that targets a database, of an engine that binds an instance to one database,
\* never runs on one of another name, case aside, whatever the other tabs switch to
\* meanwhile.  Case is no more than the code promises: where two databases differ in it
\* only, as PostgreSQL lets them, the query for one runs on a live connection to the other.
TargetIsRight ==
    \A c \in Callers :
        LET call == calls[c] IN
        call.phase = "run" /\ call.database # {} /\ ~instances[call.instance].inPlace
            => SameName(instances[call.instance].database, call.database)

\* services/database.go:322-324: "We keep a handle to the same target for
\* editable-metadata computation so the metadata reflects the database the query actually
\* ran against."
MetadataTarget ==
    [][\A c \in Callers :
          calls[c].phase = "run" /\ calls'[c] # calls[c] =>
              instances[calls[c].first].database = instances[calls[c].instance].database]_vars

=============================================================================
