------------------------------ MODULE SyncServer ------------------------------
(***************************************************************************)
(* The cloud sync service as cmd/server wires it: sync.Service             *)
(* (internal/sync/service.go) over the Turso store adapter                 *)
(* (pkg/storage/turso/sync_store_adapter.go, app_data_store.go).           *)
(*                                                                         *)
(* Each upload and each download is an HTTP request in a goroutine of its  *)
(* own.  Nothing makes a request atomic: an upload reads a row, decides,   *)
(* takes a time stamp and executes the upsert in separate steps, and a     *)
(* download runs one SELECT per kind of item before it takes the time      *)
(* stamp that the device will send back as "since".  A device has one      *)
(* request under way at a time: when it gives up, the request's context is *)
(* cancelled and its next statement fails.                                 *)
(*                                                                         *)
(* Time is in ticks, TicksPerSecond of them in a second.  The store keeps  *)
(* whole seconds (Time.Unix) while "since" keeps its fraction.             *)
(*                                                                         *)
(* A payload is a number, fresh for every edit; 0 means "nothing".         *)
(* Conflict storage is a stub in the wired adapter (SaveConflict does      *)
(* nothing, GetConflict never finds), so a conflict lives only in the      *)
(* response, and ResolveConflict always fails without changing anything.   *)
(* The sync_metadata row that an upload leaves behind is read by no        *)
(* operation of the service and is left out.                               *)
(***************************************************************************)
EXTENDS Naturals, FiniteSets

CONSTANTS
    Devices,         \* the devices of one user
    Connections,     \* ids of connection templates
    Queries,         \* ids of saved queries
    History,         \* ids of query-history entries
    TicksPerSecond,  \* resolution of time.Now() relative to the stored seconds
    LastWriteWins,   \* config.ConflictStrategy = "last_write_wins"
    MaxTime,         \* bound on the clock
    MaxEdits,        \* bound on the edits of all devices together
    MaxDownloads     \* bound on the completed downloads of all devices

ASSUME SyncServerAssumption ==
    /\ TicksPerSecond \in Nat \ {0}
    /\ LastWriteWins \in BOOLEAN
    /\ MaxTime \in Nat
    /\ MaxEdits \in Nat
    /\ MaxDownloads \in Nat
    /\ Connections \cap Queries = {}
    /\ Connections \cap History = {}
    /\ Queries \cap History = {}

Items == Connections \cup Queries \cup History

Kinds == {"connection", "query", "history"}

KindOf(i) == IF i \in Connections THEN "connection"
             ELSE IF i \in Queries THEN "query" ELSE "history"

VARIABLES
    now,          \* the server's clock, in ticks
    edits,        \* edits made so far: the last payload handed out
    table,        \* the rows of connection_templates, saved_queries_sync, query_history_sync
    local,        \* what each device holds (external)
    cursor,       \* the "since" each device sends with its next download (external)
    up,           \* the upload request each device has under way
    down,         \* the download request each device has under way
    saveTime,     \* history: when the last write of the row began and ended
    forked,       \* history: rows written over a version newer than the writer's base
    windows       \* history: the completed downloads, when they listed and their time stamp

vars == <<now, edits, table, local, cursor, up, down, saveTime, forked, windows>>

-----------------------------------------------------------------------------

\* Mutated forms of definitions, named BugX for X, are what the runs must catch.

\* time.Time.Unix() and back: the fraction of the second is dropped.
Sec(t) == (t \div TicksPerSecond) * TicksPerSecond

NoRow == [content |-> 0, version |-> 0, updatedAt |-> 0, deleted |-> FALSE]

Unknown == [content |-> 0, base |-> 0, version |-> 0, at |-> 0]

NoUpload == [phase |-> "idle", todo |-> {}, deletes |-> {},
             sent |-> [i \in Items |-> Unknown], item |-> {}, read |-> NoRow,
             conflict |-> FALSE, since |-> 0]

NoDownload == [phase |-> "idle", listed |-> {}, rows |-> [i \in Items |-> NoRow],
               from |-> [k \in Kinds |-> 0], last |-> 0]

Init ==
    /\ now = 2 * TicksPerSecond - 1  \* the last tick of a second
    /\ edits = 0
    /\ table = [i \in Items |-> NoRow]
    /\ local = [d \in Devices |-> [i \in Items |-> Unknown]]
    /\ cursor = [d \in Devices |-> 0]
    /\ up = [d \in Devices |-> NoUpload]
    /\ down = [d \in Devices |-> NoDownload]
    /\ saveTime = [i \in Items |-> [began |-> 0, ended |-> 0]]
    /\ forked = {}
    /\ windows = {}

-----------------------------------------------------------------------------
(* The device (external): it edits, and it adopts what it downloads. *)

Tick ==
    /\ now < MaxTime
    /\ now' = now + 1
    /\ UNCHANGED <<edits, table, local, cursor, up, down, saveTime, forked, windows>>

\* The id of a new item is a fresh UUID.
FreshId(i) ==
    /\ table[i].content = 0
    /\ \A d \in Devices : local[d][i].content = 0 /\ up[d].sent[i].content = 0

Edit(d, i) ==
    /\ edits < MaxEdits
    /\ FreshId(i) \/ (local[d][i].content # 0 /\ i \notin History)
    /\ edits' = edits + 1
    /\ local' = [local EXCEPT ![d][i].content = edits + 1, ![d][i].at = now]
    /\ UNCHANGED <<now, table, cursor, up, down, saveTime, forked, windows>>

\* POST /upload: the device sends its copies of the items in S and asks for those in
\* D to be deleted; it drops the latter at once.
BeginUpload(d, S, D) ==
    /\ up[d].phase = "idle" /\ down[d].phase = "idle"
    /\ S # {}
    /\ D \subseteq S \ History
    /\ \A i \in S : local[d][i].content # 0
    /\ \A i \in S \ D : local[d][i].content # local[d][i].base
    /\ up' = [up EXCEPT ![d] = [NoUpload EXCEPT
                !.phase = "next", !.todo = S, !.deletes = D,
                !.sent = [i \in Items |-> IF i \in S THEN local[d][i] ELSE Unknown]]]
    /\ local' = [local EXCEPT ![d] =
                   [i \in Items |-> IF i \in D THEN [@[i] EXCEPT !.content = 0] ELSE @[i]]]
    /\ UNCHANGED <<now, edits, table, cursor, down, saveTime, forked, windows>>

-----------------------------------------------------------------------------
(* Service.Upload: the loop over the changes of one request. *)

\* GetConnection finds soft-deleted rows as well; GetSavedQuery does not.
Visible(i, r) == r.content # 0 /\ (i \in Queries => ~r.deleted)

\* What Get returns: the row, or nothing when it is not visible or the query fails
\* (the code does not tell the two apart).
ReadsOf(i) == {NoRow} \cup (IF Visible(i, table[i]) THEN {table[i]} ELSE {})

\* An off-by-one: the store's own increment is taken for the service's.
BugIsConflict(r, change) == r.content # 0 /\ r.version > change.version + 2

IsConflict(r, change) == r.content # 0 /\ r.version > change.version

KeepsExisting(r, change) == LastWriteWins /\ r.updatedAt > change.at

\* The loop goes to the next change, or the response is written and the request is over.
\* Whether or not the response arrives, the device keeps its copies and may send again.
Advance(u, todo) ==
    IF todo = {} THEN NoUpload
    ELSE [u EXCEPT !.phase = "next", !.todo = todo, !.item = {}, !.read = NoRow,
                   !.conflict = FALSE, !.since = 0]

\* processConnectionChange / processSavedQueryChange up to the decision to save.
CheckChange(d, i) ==
    /\ up[d].phase = "next"
    /\ i \in up[d].todo \ (up[d].deletes \cup History)
    /\ \E r \in ReadsOf(i) :
         LET change == up[d].sent[i]
             conflict == IsConflict(r, change)
         IN up' = [up EXCEPT ![d] =
                     IF conflict /\ KeepsExisting(r, change)
                     THEN Advance(@, @.todo \ {i})
                     ELSE [@ EXCEPT !.phase = "save", !.item = {i}, !.read = r,
                                    !.conflict = conflict, !.since = now]]
    /\ UNCHANGED <<now, edits, table, local, cursor, down, saveTime, forked, windows>>

\* A deletion and a history entry go to the store unchecked.
TakeUnchecked(d, i) ==
    /\ up[d].phase = "next"
    /\ i \in up[d].todo \cap (up[d].deletes \cup History)
    /\ up' = [up EXCEPT ![d].phase = "save", ![d].item = {i}, ![d].since = now]
    /\ UNCHANGED <<now, edits, table, local, cursor, down, saveTime, forked, windows>>

\* The device's own time for every kind of item.
BugStamps(d, i) == {Sec(up[d].sent[i].at)}

\* now := time.Now() in SaveConnectionTemplate, SaveQuerySync and the two Deletes, taken
\* at some moment after the check and before the statement executes; a history entry is
\* stamped with the time the device executed it.
Stamps(d, i) == IF i \in History THEN {Sec(up[d].sent[i].at)}
                                 ELSE {Sec(t) : t \in up[d].since .. now}

\* The upsert that forgets sync_version.
BugRowAfter(d, i, stamp) ==
    IF i \in up[d].deletes
    THEN [table[i] EXCEPT !.deleted = TRUE, !.updatedAt = stamp]
    ELSE [content |-> up[d].sent[i].content, version |-> table[i].version,
          updatedAt |-> stamp, deleted |-> FALSE]

\* A version counted down.
BugVersionType(d, i, stamp) ==
    [content |-> up[d].sent[i].content, version |-> up[d].sent[i].version - 1,
     updatedAt |-> stamp, deleted |-> FALSE]

\* The row that a change leaves behind.  The service sets sync_version to the sent one
\* plus 1 and the store adds 1 more; a deletion keeps payload and version.
RowAfter(d, i, stamp) ==
    IF i \in up[d].deletes
    THEN [table[i] EXCEPT !.deleted = TRUE, !.updatedAt = stamp]
    ELSE [content |-> up[d].sent[i].content,
          version |-> IF i \in History THEN up[d].sent[i].version
                                       ELSE up[d].sent[i].version + 2,
          updatedAt |-> stamp,
          deleted |-> FALSE]

\* A deletion needs a row, a history insert needs that there is none.
StoreAccepts(d, i) ==
    /\ i \in up[d].deletes => table[i].content # 0
    /\ i \in History => table[i].content = 0

\* The save replaces a row with a newer version than the one the device started from.
Forks(d, i) ==
    /\ i \notin up[d].deletes \cup History
    /\ table[i].content # 0
    /\ table[i].version > up[d].sent[i].version
    /\ up[d].conflict \/ up[d].read # table[i]

\* ExecContext succeeds.
CommitChange(d) ==
    /\ up[d].phase = "save"
    /\ \E i \in up[d].item :
         /\ StoreAccepts(d, i)
         /\ \E stamp \in Stamps(d, i) :
              table' = [table EXCEPT ![i] = RowAfter(d, i, stamp)]
         /\ saveTime' = [saveTime EXCEPT ![i] = [began |-> up[d].since, ended |-> now]]
         /\ forked' = IF Forks(d, i) THEN forked \cup {i} ELSE forked
         /\ up' = [up EXCEPT ![d] = Advance(@, @.todo \ {i})]
    /\ UNCHANGED <<now, edits, local, cursor, down, windows>>

\* ExecContext fails, or finds no row to delete, or a duplicate history id: the change
\* is reported as rejected and the loop goes on.
RejectChange(d) ==
    /\ up[d].phase = "save"
    /\ up' = [up EXCEPT ![d] = Advance(@, @.todo \ @.item)]
    /\ UNCHANGED <<now, edits, table, local, cursor, down, saveTime, forked, windows>>

-----------------------------------------------------------------------------
(* Service.Download: three listings, then the time stamp. *)

\* History compared strictly, as templates and queries are.
BugInScope(i, r, since) == r.content # 0 /\ ~r.deleted /\ r.updatedAt > since

\* The filter of the listings: whole seconds against a "since" with a fraction for
\* templates and queries, whole seconds on both sides for history.
InScope(i, r, since) ==
    /\ r.content # 0
    /\ ~r.deleted
    /\ IF i \in History THEN r.updatedAt >= Sec(since) ELSE r.updatedAt > since

\* The SELECTs of one download run in this order (a kind without items is left out).
Order == [k \in Kinds |-> CASE k = "connection" -> 1 [] k = "query" -> 2 [] k = "history" -> 3]

KindsInUse == {KindOf(i) : i \in Items}

\* GET /download, and one SELECT after the other.
ListKind(d, k) ==
    /\ Cardinality(windows) < MaxDownloads
    /\ up[d].phase = "idle"
    /\ k \in KindsInUse \ down[d].listed
    /\ \A l \in KindsInUse \ down[d].listed : Order[k] <= Order[l]
    /\ down' = [down EXCEPT
                  ![d].phase = "listing",
                  ![d].listed = @ \cup {k},
                  ![d].from[k] = now,
                  ![d].last = now,
                  ![d].rows = [i \in Items |->
                     IF KindOf(i) = k /\ InScope(i, table[i], cursor[d])
                     THEN table[i] ELSE @[i]]]
    /\ UNCHANGED <<now, edits, table, local, cursor, up, saveTime, forked, windows>>

\* SyncTimestamp: time.Now() at some moment between the last listing and the arrival of
\* the response; the device adopts the rows and keeps the time stamp (external).
ReceiveDownload(d) ==
    /\ down[d].phase = "listing"
    /\ down[d].listed = KindsInUse
    /\ \E timestamp \in down[d].last .. now :
         /\ cursor' = [cursor EXCEPT ![d] = timestamp]
         /\ windows' = windows \cup {[device |-> d, from |-> down[d].from,
                                      timestamp |-> timestamp]}
    /\ local' = [local EXCEPT ![d] = [i \in Items |->
                   LET r == down[d].rows[i] IN
                   IF r.content = 0 THEN @[i]
                   ELSE [content |-> r.content, base |-> r.content,
                         version |-> r.version, at |-> r.updatedAt]]]
    /\ down' = [down EXCEPT ![d] = NoDownload]
    /\ UNCHANGED <<now, edits, table, up, saveTime, forked>>

\* The response is lost, or a listing fails: the device asks again from the same cursor.
LoseDownload(d) ==
    /\ down[d].phase # "idle"
    /\ down' = [down EXCEPT ![d] = NoDownload]
    /\ UNCHANGED <<now, edits, table, local, cursor, up, saveTime, forked, windows>>

-----------------------------------------------------------------------------

Upload(d) ==
    \/ \E S \in SUBSET Items, D \in SUBSET Items : BeginUpload(d, S, D)
    \/ \E i \in Items : CheckChange(d, i) \/ TakeUnchecked(d, i)
    \/ CommitChange(d)
    \/ RejectChange(d)

Download(d) == (\E k \in Kinds : ListKind(d, k)) \/ ReceiveDownload(d) \/ LoseDownload(d)

Next ==
    \/ Tick
    \/ \E d \in Devices : \/ \E i \in Items : Edit(d, i)
                          \/ Upload(d)
                          \/ Download(d)

Spec == Init /\ [][Next]_vars

-----------------------------------------------------------------------------

Row == [content : Nat, version : Nat, updatedAt : Nat, deleted : BOOLEAN]

Copy == [content : Nat, base : Nat, version : Nat, at : Nat]

UploadRequest ==
    [phase : {"idle", "next", "save"}, todo : SUBSET Items, deletes : SUBSET Items,
     sent : [Items -> Copy], item : SUBSET Items, read : Row, conflict : BOOLEAN,
     since : Nat]

DownloadRequest ==
    [phase : {"idle", "listing"}, listed : SUBSET Kinds, rows : [Items -> Row],
     from : [Kinds -> Nat], last : Nat]

\* The types of all variables.
TypeOK ==
    /\ now \in Nat
    /\ edits \in Nat
    /\ table \in [Items -> Row]
    /\ local \in [Devices -> [Items -> Copy]]
    /\ cursor \in [Devices -> Nat]
    /\ up \in [Devices -> UploadRequest]
    /\ down \in [Devices -> DownloadRequest]
    /\ saveTime \in [Items -> [began : Nat, ended : Nat]]
    /\ forked \subseteq Items
    /\ windows \subseteq [device : Devices, from : [Kinds -> Nat], timestamp : Nat]

\* What a device has not been given is in the scope of its next download, or its save
\* overlapped one of the device's downloads: it ended after that download had listed this
\* kind of item, and began no later than in the second of the download's time stamp.  A
\* history entry carries the device's own time, so it is missed as well when it was run
\* before that time stamp.  Nothing else is ever missed: not across lost responses,
\* retries, failing statements or listings that interleave with saves.
MissedOnlyOnOverlap ==
    \A d \in Devices, i \in Items :
        LET r == table[i] IN
        r.content # 0 /\ ~r.deleted /\ local[d][i].base # r.content =>
            \/ InScope(i, r, cursor[d])
            \/ \E w \in windows :
                 /\ w.device = d
                 /\ w.from[KindOf(i)] <= saveTime[i].ended
                 /\ IF i \in History THEN r.updatedAt < Sec(w.timestamp)
                                     ELSE Sec(saveTime[i].began) <= w.timestamp

\* As long as no save has replaced a version newer than its base, a version number names
\* one payload: a device that holds the row's version holds the row's payload.
VersionNamesPayload ==
    \A d \in Devices, i \in (Connections \cup Queries) \ forked :
        /\ local[d][i].version <= table[i].version
        /\ local[d][i].version = table[i].version => local[d][i].base = table[i].content

\* A save that reports no conflict replaces only a payload its device had seen, unless
\* the row is not the one the request read (another request came between, the read
\* failed, or a deleted query was hidden) or the item's versions had been forked before.
NoSilentLoss ==
    [][\A d \in Devices, i \in Connections \cup Queries :
          /\ up[d].phase = "save" /\ up[d].item = {i} /\ i \notin up[d].deletes
          /\ ~up[d].conflict
          /\ table'[i] # table[i]
          /\ table[i].content \notin {0, up[d].sent[i].base, up[d].sent[i].content}
          /\ up'[d] # up[d]
          => i \in forked \/ up[d].read # table[i]]_vars

=============================================================================
