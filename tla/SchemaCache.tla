----------------------------- MODULE SchemaCache -----------------------------
(***************************************************************************)
(* The cache of schemas (src/pkg/database/schema_cache.go) and the         *)
(* requests that use it: GetMultiConnectionSchema (src/pkg/database/       *)
(* manager.go), RefreshSchema and InvalidateSchemaCache                    *)
(* (schema_cache_manager.go), and a switch of database that reconnects     *)
(* (manager.go, src/services/database.go).                                 *)
(*                                                                         *)
(* The lock of the cache is held for a look or a write, never while the    *)
(* database is read.  A request keeps the instance it found under the      *)
(* lock of the manager, which a switch replaces and disconnects meanwhile. *)
(* Requests cache under the name they were given, the id of the session or *)
(* an alias of it, while a switch invalidates the id alone.  Names do not  *)
(* share entries, so one connection and one of its names are followed; the *)
(* drivers that switch in place list all databases and are left out, their *)
(* schema does not change.                                                 *)
(*                                                                         *)
(* Time is kept as ages, in units in which a request lasts RequestTime.    *)
(***************************************************************************)
EXTENDS Integers

CONSTANTS
    Requests,       \* requests under way at a time
    Databases,
    Lists,          \* the lists of tables that a database may have
    Partial,        \* a list that lacks what could not be read
    FreshTime,      \* 5 minutes
    TTL,            \* defaultTTL, an hour
    RequestTime     \* bound: a request ends within this time

ASSUME SchemaCacheAssumption ==
    /\ Partial \notin Lists
    /\ FreshTime \in Nat \ {0} /\ TTL \in Nat /\ RequestTime \in Nat
    /\ FreshTime <= TTL

VARIABLES
    tables,     \* what each database holds
    database,   \* the database of the session's instance
    connected,  \* the connection is in the manager's maps
    switch,     \* the switch of database under way
    byAlias,    \* the requests name an alias, not the id
    entry,      \* the entry cached under that name
    request     \* the requests

vars == <<tables, database, connected, switch, byAlias, entry, request>>

Readings == Lists \cup {Partial}
Handles == {"current", "replaced", "closed"}  \* of the instances of the session

(* How long ago, of an entry: age, CachedAt; checked, LastCheckedAt; seen, history, its list *)
(* in a database.  Each stops where nothing tells it apart.  History also: from (where the   *)
(* list was read, or "survivor" when the database was switched after it was cached) and      *)
(* doubt (a check has failed since).                                                        *)
Horizon == TTL + 2 * RequestTime + 1
Schema == [list: Readings, age: 0..TTL + 1, checked: 0..FreshTime, seen: 0..Horizon,
           from: {"current", "overtaken", "survivor"}, doubt: BOOLEAN]
NoSchema == [list |-> "none"]

(* What a request holds of an entry, or for one. *)
Copy == [list: Readings, seen: 0..Horizon, doubt: BOOLEAN]
CopyOf(e) == IF e = NoSchema THEN e ELSE [list |-> e.list, seen |-> e.seen, doubt |-> e.doubt]

Request == [phase: {"idle", "resolve", "lookup", "detect", "compare", "touch", "invalidate",
                    "fetch", "tables", "put", "done"},
            kind: {"get", "refresh"}, handle: Handles, age: 0..RequestTime,
            schema: {NoSchema} \cup Copy]
Begun(kind, phase, handle) ==
    [phase |-> phase, kind |-> kind, handle |-> handle, age |-> 0, schema |-> NoSchema]
Idle == Begun("get", "idle", "closed")
Done(schema) ==
    [phase |-> "done", kind |-> "get", handle |-> "closed", age |-> 0, schema |-> schema]

NoSwitch == [phase |-> "idle", old |-> {}]

Init ==
    /\ tables \in [Databases -> Lists]
    /\ database \in Databases
    /\ connected = TRUE
    /\ switch = NoSwitch
    /\ byAlias \in BOOLEAN
    /\ entry = NoSchema
    /\ request = [r \in Requests |-> Idle]

(* A request goes on, with what it has found. *)
Moves(r, phase, schema) ==
    request' = [request EXCEPT ![r] = [phase |-> phase, kind |-> @.kind, handle |-> @.handle,
                                       age |-> @.age, schema |-> schema]]
Ends(r) == request' = [request EXCEPT ![r] = Idle]

-----------------------------------------------------------------------------
(* GetMultiConnectionSchema for one connection: the instance, then the cache. *)

Get(r) ==
    /\ connected
    /\ request[r].phase = "idle"
    /\ request' = [request EXCEPT ![r] = Begun("get", "lookup", "current")]
    /\ UNCHANGED <<tables, database, connected, switch, byAlias, entry>>

Expired(e) == e.age > TTL
IsFresh(e) == e.checked < FreshTime

(* GetCachedSchema under the read lock. *)
AfterLookup(e) ==
    IF e = NoSchema THEN "fetch"
    ELSE IF Expired(e) THEN "invalidate"
    ELSE IF IsFresh(e) THEN "done" ELSE "detect"

Lookup(r) ==
    /\ request[r].phase = "lookup"
    /\ CASE AfterLookup(entry) = "done" ->
              request' = [request EXCEPT ![r] = Done(CopyOf(entry))]
         [] AfterLookup(entry) = "detect" -> Moves(r, "detect", CopyOf(entry))
         [] OTHER -> Moves(r, AfterLookup(entry), NoSchema)
    /\ UNCHANGED <<tables, database, connected, switch, byAlias, entry>>

(* GetSchemas, for the light fingerprint or to fill the cache. *)
ReadSchemas(r) ==
    /\ request[r].handle # "closed"
    /\ \/ request[r].phase = "detect" /\ Moves(r, "compare", request[r].schema)
       \/ request[r].phase = "fetch" /\ Moves(r, "tables", NoSchema)
    /\ UNCHANGED <<tables, database, connected, switch, byAlias, entry>>

(* A check that fails takes the copy for good. *)
CheckFails(r) ==
    /\ request[r].phase = "detect"
    /\ Moves(r, "touch", [request[r].schema EXCEPT !.doubt = TRUE])
    /\ UNCHANGED <<tables, database, connected, switch, byAlias, entry>>

FetchFails(r) ==
    /\ request[r].phase = "fetch"
    /\ Ends(r)
    /\ UNCHANGED <<tables, database, connected, switch, byAlias, entry>>

(* What GetTables can return, schema by schema; errors are skipped. *)
ReadingsOf(r) ==
    {Partial} \cup (CASE request[r].handle = "current" -> {tables[database]}
                      [] request[r].handle = "replaced" -> {tables[d] : d \in switch.old}
                      [] request[r].handle = "closed" -> {})

(* Mutant: the table lists are not compared. *)
BugChanged(cached, reading) == FALSE

(* The hashes of the lists stand for the lists.  The hash of the migrations may differ      *)
(* besides. *)
Changed(cached, reading) == cached # reading

Compare(r) ==
    /\ request[r].phase = "compare"
    /\ \E reading \in ReadingsOf(r) :
          \/ /\ ~Changed(request[r].schema.list, reading)
             /\ Moves(r, "touch", IF reading # request[r].schema.list THEN request[r].schema
                                  ELSE [request[r].schema EXCEPT !.seen = 0])
          \/ Moves(r, "invalidate", NoSchema)
    /\ UNCHANGED <<tables, database, connected, switch, byAlias, entry>>

(* The entry that is there now, which need not be the one that was checked. *)
Touched(e, copy) ==
    IF e = NoSchema THEN e
    ELSE [e EXCEPT !.checked = 0, !.doubt = @ \/ copy.doubt,
                   !.seen = IF e.list = copy.list /\ copy.seen < @ THEN copy.seen ELSE @]

Touch(r) ==
    /\ request[r].phase = "touch"
    /\ request' = [request EXCEPT ![r] = Done(@.schema)]
    /\ entry' = Touched(entry, request[r].schema)
    /\ UNCHANGED <<tables, database, connected, switch, byAlias>>

(* Expired or changed. *)
Invalidate(r) ==
    /\ request[r].phase = "invalidate"
    /\ Moves(r, "fetch", NoSchema)
    /\ entry' = NoSchema
    /\ UNCHANGED <<tables, database, connected, switch, byAlias>>

ReadTables(r) ==
    /\ request[r].phase = "tables"
    /\ \E reading \in ReadingsOf(r) :
          Moves(r, "put", [list |-> reading, seen |-> 0, doubt |-> FALSE])
    /\ UNCHANGED <<tables, database, connected, switch, byAlias, entry>>

(* Mutant: ExpiresAt is left at zero, long ago. *)
BugStamped(copy, handle) ==
    [list |-> copy.list, age |-> Horizon, checked |-> 0, seen |-> copy.seen, doubt |-> FALSE,
     from |-> IF handle = "current" THEN "current" ELSE "overtaken"]

(* CacheSchema: the times are taken when the entry is made, after the reading. *)
Stamped(copy, handle) ==
    [list |-> copy.list, age |-> 0, checked |-> 0, seen |-> copy.seen, doubt |-> FALSE,
     from |-> IF handle = "current" THEN "current" ELSE "overtaken"]

Put(r) ==
    /\ request[r].phase = "put"
    /\ entry' = Stamped(request[r].schema, request[r].handle)
    /\ request' = [request EXCEPT ![r] = IF @.kind = "get" THEN Done(@.schema) ELSE Idle]
    /\ UNCHANGED <<tables, database, connected, switch, byAlias>>

Return(r) ==
    /\ request[r].phase = "done"
    /\ Ends(r)
    /\ UNCHANGED <<tables, database, connected, switch, byAlias, entry>>

-----------------------------------------------------------------------------
(* RefreshSchema knows ids only: for an alias it invalidates and fails. *)

RefreshSchema(r) ==
    /\ request[r].phase = "idle"
    /\ entry' = NoSchema
    /\ request' = IF byAlias THEN request
                  ELSE [request EXCEPT ![r] = Begun("refresh", "resolve", "closed")]
    /\ UNCHANGED <<tables, database, connected, switch, byAlias>>

Resolve(r) ==
    /\ request[r].phase = "resolve"
    /\ IF connected
       THEN request' = [request EXCEPT ![r] = [phase |-> "fetch", kind |-> "refresh", age |-> @.age,
                                               handle |-> "current", schema |-> NoSchema]]
       ELSE Ends(r)
    /\ UNCHANGED <<tables, database, connected, switch, byAlias, entry>>

InvalidateSchemaCache ==
    /\ entry' = NoSchema
    /\ UNCHANGED <<tables, database, connected, switch, byAlias, request>>

-----------------------------------------------------------------------------
(* A switch of database that reconnects: one at a time.  The caller's second invalidation   *)
(* is a step of its own. *)

Rehandled(Op(_)) ==
    [r \in Requests |->
        [phase |-> request[r].phase, kind |-> request[r].kind, handle |-> Op(request[r].handle),
         age |-> request[r].age, schema |-> request[r].schema]]

Later(handle) == IF handle = "current" THEN "replaced" ELSE handle
Survivor(e) == IF e = NoSchema THEN e ELSE [e EXCEPT !.from = "survivor"]

SwitchSwaps(d) ==
    /\ connected /\ switch = NoSwitch /\ d # database
    /\ database' = d
    /\ switch' = [phase |-> "disconnect", old |-> {database}]
    /\ entry' = Survivor(entry)
    /\ request' = Rehandled(Later)
    /\ UNCHANGED <<tables, connected, byAlias>>

Closing(handle) == IF handle = "replaced" THEN "closed" ELSE handle

SwitchDisconnects ==
    /\ switch.phase = "disconnect"
    /\ switch' = [phase |-> "invalidate", old |-> {}]
    /\ request' = Rehandled(Closing)
    /\ UNCHANGED <<tables, database, connected, byAlias, entry>>

(* Mutant: the invalidation is forgotten. *)
BugAfterSwitch(e) == e

AfterSwitch(e) == IF byAlias THEN e ELSE NoSchema

SwitchInvalidates ==
    /\ switch.phase \in {"invalidate", "again"}
    /\ switch' = IF switch.phase = "invalidate" THEN [switch EXCEPT !.phase = "again"] ELSE NoSwitch
    /\ entry' = AfterSwitch(entry)
    /\ UNCHANGED <<tables, database, connected, byAlias, request>>

Removing(handle) == IF handle = "current" THEN "closed" ELSE handle

(* RemoveConnection leaves the cache alone, under the id as under the aliases.  (Removals   *)
(* during a switch are the subject of ConnectionManager.) *)
RemoveConnection ==
    /\ connected /\ switch = NoSwitch
    /\ connected' = FALSE
    /\ request' = Rehandled(Removing)
    /\ UNCHANGED <<tables, database, switch, byAlias, entry>>

(* The next session has an id of its own: under that, there is nothing.  An alias is the    *)
(* same as before, and so is what is cached under it. *)
CreateConnection(d) ==
    /\ ~connected
    /\ connected' = TRUE
    /\ database' = d
    /\ IF byAlias THEN UNCHANGED <<entry, request>>
       ELSE /\ entry' = NoSchema
            /\ request' = [r \in Requests |-> Idle]
    /\ UNCHANGED <<tables, switch, byAlias>>

-----------------------------------------------------------------------------
(* A migration, by anyone. *)
Migrate(d, list) ==
    /\ tables' = [tables EXCEPT ![d] = list]
    /\ UNCHANGED <<database, connected, switch, byAlias, entry, request>>

Older(n, cap) == IF n < cap THEN n + 1 ELSE n
AgedEntry(e) ==
    IF e = NoSchema THEN e
    ELSE [e EXCEPT !.age = Older(@, TTL + 1), !.checked = Older(@, FreshTime),
                   !.seen = Older(@, Horizon)]
AgedCopy(c) == IF c = NoSchema THEN c ELSE [c EXCEPT !.seen = Older(@, Horizon)]

Tick ==
    /\ \A r \in Requests : request[r].phase \in {"idle", "done"} \/ request[r].age < RequestTime
    /\ entry' = AgedEntry(entry)
    /\ request' = [r \in Requests |->
                     IF request[r].phase \in {"idle", "done"} THEN request[r]
                     ELSE [phase |-> request[r].phase, kind |-> request[r].kind,
                           handle |-> request[r].handle, age |-> request[r].age + 1,
                           schema |-> AgedCopy(request[r].schema)]]
    /\ UNCHANGED <<tables, database, connected, switch, byAlias>>

RequestStep(r) ==
    \/ Get(r) \/ Lookup(r) \/ ReadSchemas(r) \/ CheckFails(r) \/ FetchFails(r) \/ Compare(r)
    \/ Touch(r) \/ Invalidate(r) \/ ReadTables(r) \/ Put(r) \/ Return(r)
    \/ RefreshSchema(r) \/ Resolve(r)

Next ==
    \/ \E r \in Requests : RequestStep(r)
    \/ \E d \in Databases : SwitchSwaps(d) \/ CreateConnection(d)
    \/ \E d \in Databases, list \in Lists : Migrate(d, list)
    \/ SwitchDisconnects \/ SwitchInvalidates \/ RemoveConnection \/ InvalidateSchemaCache \/ Tick

Spec == Init /\ [][Next]_vars

-----------------------------------------------------------------------------
(* The state is of its type (the fields of SchemaCache, the handles of GetMultiConnectionSchema). *)
TypeOK ==
    /\ tables \in [Databases -> Lists]
    /\ database \in Databases
    /\ connected \in BOOLEAN
    /\ switch \in [phase: {"idle", "disconnect", "invalidate", "again"}, old: SUBSET Databases]
    /\ byAlias \in BOOLEAN
    /\ entry \in {NoSchema} \cup Schema
    /\ request \in [Requests -> Request]

(* What GetMultiConnectionSchema returns was seen in a database within the five minutes of *)
(* GetCachedSchema and the time of two requests; when checks failed, within the hour of      *)
(* CacheSchema and that of two: an entry refreshed for another one, a check that overlaps a  *)
(* fill, or a failure that renews LastCheckedAt makes no entry live longer.                  *)
VerifiedRecently ==
    \A r \in Requests : request[r].phase = "done" =>
        LET s == request[r].schema IN
        s.seen <= (IF s.doubt THEN TTL ELSE FreshTime - 1) + 2 * RequestTime

(* When a switch of database is over, an entry of before it is gone from under the id: what *)
(* is there was cached after the swap (SwitchDatabase and its caller invalidate it).         *)
SwitchForgets ==
    ~byAlias /\ switch = NoSwitch /\ entry # NoSchema => entry.from # "survivor"

=============================================================================
