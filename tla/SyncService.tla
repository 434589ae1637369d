----------------------------- MODULE SyncService -----------------------------
(***************************************************************************)
(* The sync cycle of one tab: SyncService                                  *)
(* (frontend/src/lib/sync/sync-service.ts), the records in IndexedDB and   *)
(* the repositories that write them to SQLite as well.                     *)
(*                                                                         *)
(* A cycle is one async function; between its awaits the user edits and    *)
(* deletes records, resets the cursor and resolves earlier conflicts.      *)
(* Every request may fail or time out, before or after the server has      *)
(* acted on it.  Who starts a cycle is the matter of module SyncStore.     *)
(*                                                                         *)
(* The server is the one of module SyncServer, each request made atomic.   *)
(* Its answer may lack what the client replaces by a default: a list, or   *)
(* the server's time.  Dates in it are text, as JSON has them.  Clocks     *)
(* agree.  Payloads are numbers, fresh for each edit; 0 means "no record". *)
(* SQLite is the set of ids it holds: a read of it may fail or be missing  *)
(* (the browser), and so may a write.  Left out: reports and history, and  *)
(* the copy that "keep-both" stores under an id that nothing else touches. *)
(***************************************************************************)
EXTENDS Naturals

CONSTANTS
    Connections,   \* ids of connections
    Queries,       \* ids of saved queries
    AutoResolve,   \* config.enableConflictResolution
    MaxTime,       \* bound on the clock
    MaxEdits,      \* bound on the edits and deletions of all devices together
    MaxVersion     \* bound on the row versions with which a cycle still starts

ASSUME SyncServiceAssumption ==
    /\ Connections \cap Queries = {}
    /\ AutoResolve \in BOOLEAN
    /\ MaxTime \in Nat
    /\ MaxEdits \in Nat
    /\ MaxVersion \in Nat

Items == Connections \cup Queries

VARIABLES
    now,        \* the clock
    edits,      \* edits made so far: the last payload handed out
    suspicious, \* payloads of connections in which the sanitizer finds a credential
    sqlite,     \* ids of the items that SQLite holds
    records,    \* IndexedDB: the record of each item
    lastSync,   \* localStorage: sync-last-timestamp
    editing,    \* the edit under way: its item and the record it will put
    service,    \* the cycle under way
    reported,   \* the conflicts that cycles have reported
    server,     \* the rows of the server (external)
    stored,     \* history: payloads the server has held
    refused,    \* history: payloads the server answered with "rejected" or "conflict"
    held,       \* history: payloads this device has held
    skipped,    \* history: for each item, the times of saves that a cursor passes
                \* though the answer it came with need not show them
    raced       \* history: items edited after a cycle had read them, or a connection
                \* edited no later than the cursor, and not taken up by a later cycle

vars == <<now, edits, suspicious, sqlite, records, lastSync, editing, service, reported,
          server, stored, refused, held, skipped, raced>>

-----------------------------------------------------------------------------
\* Mutated forms of definitions, named BugX for X, are what the runs must catch.

\* text: updated_at is the text of an answer and not a Date.
NoRecord == [content |-> 0, version |-> 0, updatedAt |-> 0, synced |-> FALSE,
             text |-> FALSE]

NoRow == [content |-> 0, version |-> 0, updatedAt |-> 0]

Idle == [phase |-> "idle", since |-> 0,
         snapshot |-> [i \in Items |-> NoRecord], changes |-> {},
         rows |-> [i \in Items |-> NoRow], timestamp |-> 0, conflicts |-> {},
         open |-> {}, merge |-> {}]

NoEdit == [item |-> {}, record |-> NoRecord]

Init ==
    /\ now = 1
    /\ edits = 0
    /\ suspicious = {}
    /\ sqlite = {}
    /\ records = [i \in Items |-> NoRecord]
    /\ lastSync = 0
    /\ editing = NoEdit
    /\ service = Idle
    /\ reported = {}
    /\ server = [i \in Items |-> NoRow]
    /\ stored = {}
    /\ refused = {}
    /\ held = {}
    /\ skipped = [i \in Items |-> {}]
    /\ raced = {}

-----------------------------------------------------------------------------
(* The user, the clock and the other devices. *)

Tick ==
    /\ now < MaxTime
    /\ now' = now + 1
    /\ UNCHANGED <<edits, suspicious, sqlite, records, lastSync, editing, service,
                   reported, server, stored, refused, held, skipped, raced>>

\* A new payload; that of a connection may look like a credential.
NewPayload(i) ==
    /\ edits < MaxEdits
    /\ edits' = edits + 1
    /\ \/ suspicious' = suspicious
       \/ i \in Connections /\ suspicious' = suspicious \cup {edits + 1}

\* The id of a new item is fresh.
Fresh(i) ==
    /\ records[i].content = 0 /\ server[i].content = 0
    /\ i \notin sqlite /\ i \notin editing.item

\* What get() returns: SQLite's record, which counts as synced and has no version, or
\* IndexedDB's when SQLite has none or does not answer.
Existing(i) ==
    {[NoRecord EXCEPT !.synced = TRUE] : j \in sqlite \cap {i}}
        \cup {record \in {records[i]} : record.content # 0}

\* The mark that create() and update() leave: an edited query is unsynced,
\* ConnectionRepository.update keeps the mark of what it has read.
BugMark(i, existing) == existing.synced
Mark(i, existing) == i \in Connections /\ existing.synced

\* The record that an edit makes of what it has read, with the time of that moment.
Edited(i, existing) ==
    [content |-> edits + 1, version |-> existing.version, updatedAt |-> now,
     synced |-> Mark(i, existing), text |-> FALSE]

\* The cycle under way has read the record.
Past(i) ==
    \/ service.phase \in {"upload", "download", "answer", "merge"}
    \/ service.phase = "readQueries" /\ i \in Connections

\* The put in IndexedDB, with the save in SQLite whose failure is only logged.
PutRecord(i, record) ==
    /\ records' = [records EXCEPT ![i] = record]
    /\ sqlite' \in {sqlite, sqlite \cup {i}}
    /\ held' = held \cup {record.content}
    /\ raced' = IF \/ Past(i)
                   \/ /\ i \in Connections
                      /\ record.updatedAt <= lastSync \/ record.updatedAt <= service.since
                THEN raced \cup {i} ELSE raced

\* update() reads the record and the clock, create() of a connection the clock, before they
\* await SQLite; one such call at a time (a bound).
BeginEdit(i) ==
    /\ editing.item = {}
    /\ NewPayload(i)
    /\ \/ \E existing \in Existing(i) :
            editing' = [item |-> {i}, record |-> Edited(i, existing)]
       \/ /\ i \in Connections /\ Fresh(i)
          /\ editing' = [item |-> {i}, record |-> Edited(i, NoRecord)]
    /\ UNCHANGED <<now, sqlite, records, lastSync, service, reported, server, stored,
                   refused, held, skipped, raced>>

\* After the save in SQLite they put the record in IndexedDB, whatever is there by then.
PutEdit ==
    /\ \E i \in editing.item : PutRecord(i, editing.record)
    /\ editing' = NoEdit
    /\ UNCHANGED <<now, edits, suspicious, lastSync, service, reported, server, stored,
                   refused, skipped>>

\* create() of a saved query puts it in IndexedDB first, in one transaction.
CreateQuery(i) ==
    /\ i \in Queries /\ Fresh(i)
    /\ NewPayload(i)
    /\ PutRecord(i, Edited(i, NoRecord))
    /\ UNCHANGED <<now, lastSync, editing, service, reported, server, stored, refused,
                   skipped>>

\* delete() of the repositories: SQLite's deletion may fail, and no trace is kept for the
\* next cycle.
Delete(i) ==
    /\ edits < MaxEdits
    /\ records[i].content # 0 \/ i \in sqlite
    /\ edits' = edits + 1
    /\ records' = [records EXCEPT ![i] = NoRecord]
    /\ sqlite' \in {sqlite, sqlite \ {i}}
    /\ UNCHANGED <<now, suspicious, lastSync, editing, service, reported, server, stored,
                   refused, held, skipped, raced>>

\* Another device's change reaches the server (external).
RemoteEdit(i) ==
    /\ edits < MaxEdits
    /\ server[i].content # 0 \/ Fresh(i)
    /\ edits' = edits + 1
    /\ server' = [server EXCEPT ![i] = [content |-> edits + 1, version |-> @.version + 2,
                                        updatedAt |-> now]]
    /\ stored' = stored \cup {edits + 1}
    /\ UNCHANGED <<now, suspicious, sqlite, records, lastSync, editing, service, reported,
                   refused, held, skipped, raced>>

\* resetSync of the store removes the cursor, whether or not a cycle is under way.
ResetCursor ==
    /\ lastSync' = 0
    /\ UNCHANGED <<now, edits, suspicious, sqlite, records, editing, service, reported,
                   server, stored, refused, held, skipped, raced>>

\* applyRemoteVersion: the user chose "remote" for a conflict reported earlier, and the row
\* is put as it came.  "local" changes nothing.
ApplyRemoteVersion(c) ==
    /\ records' = [records EXCEPT ![c.item] =
                     [content |-> c.theirs.content, version |-> c.theirs.version,
                      updatedAt |-> c.theirs.updatedAt, synced |-> TRUE, text |-> TRUE]]
    /\ held' = held \cup {c.theirs.content}
    /\ UNCHANGED <<now, edits, suspicious, sqlite, lastSync, editing, service, reported,
                   server, stored, refused, skipped, raced>>

-----------------------------------------------------------------------------
(* The cycle, one action per stretch between awaits. *)

\* syncNow throws when a cycle is under way; else it reads the cursor and asks for the
\* connections.
StartCycle ==
    /\ service.phase = "idle"
    /\ \A i \in Items : server[i].version <= MaxVersion
    /\ service' = [Idle EXCEPT !.phase = "readConnections", !.since = lastSync]
    /\ UNCHANGED <<now, edits, suspicious, sqlite, records, lastSync, editing, reported,
                   server, stored, refused, held, skipped, raced>>

\* The filter of getLocalChanges.
Changed(r, since) == r.content # 0 /\ (~r.synced \/ r.updatedAt > since)

\* The sanitized connection is looked up by "id", which a record does not have.
BugPassed(changed) == changed \ Connections

\* The sanitizer keeps back what looks like a credential, and the cycle goes on without.
Passed(changed) == {i \in changed : records[i].content \notin suspicious}

\* One getAll of getLocalChanges.
ReadRecords(kind, next) ==
    /\ LET changed == {i \in kind : Changed(records[i], service.since)} IN
         /\ service' = [service EXCEPT
                          !.phase = next, !.changes = @ \cup Passed(changed),
                          !.snapshot = [i \in Items |-> IF i \in kind THEN records[i]
                                                                   ELSE @[i]]]
         /\ raced' = raced \ changed
    /\ UNCHANGED <<now, edits, suspicious, sqlite, records, lastSync, editing, reported,
                   server, stored, refused, held, skipped>>

\* getLocalChanges: the connections, then the queries.
ReadLocal ==
    \/ service.phase = "readConnections" /\ ReadRecords(Connections, "readQueries")
    \/ service.phase = "readQueries" /\ ReadRecords(Queries, "upload")

\* Last write wins: a newer row with a newer version stays (external).
Keeps(row, r) == row.content # 0 /\ row.version > r.version /\ row.updatedAt > r.updatedAt

\* POST /upload: the server stores the changes, but for those it rejects or finds older
\* than its own.  The answer's conflicts and rejections are not looked at.
ServerUpload ==
    /\ service.phase = "upload"
    /\ \E rejected \in SUBSET service.changes :
         LET new == service.snapshot
             lost == rejected \cup {i \in service.changes : Keeps(server[i], new[i])}
         IN /\ server' = [i \in Items |->
                   IF i \in service.changes \ lost
                   THEN [content |-> new[i].content, version |-> new[i].version + 2,
                         updatedAt |-> now]
                   ELSE server[i]]
            /\ stored' = stored \cup {new[i].content : i \in service.changes \ lost}
            /\ refused' = refused \cup {new[i].content : i \in lost}
    /\ service' = [service EXCEPT !.phase = "download", !.changes = {},
                                  !.since = lastSync]
    /\ UNCHANGED <<now, edits, suspicious, sqlite, records, lastSync, editing, reported,
                   held, skipped, raced>>

\* GET /download on the server; the cursor was read once more, at some moment since the
\* server had acted on the upload.
ServerDownload ==
    /\ service.phase = "download"
    /\ \E since \in {service.since, lastSync} :
         service' = [service EXCEPT
                       !.phase = "answer", !.since = since,
                       !.rows = [i \in Items |-> IF server[i].updatedAt > since
                                                 THEN server[i] ELSE NoRow],
                       !.timestamp = now]
    /\ UNCHANGED <<now, edits, suspicious, sqlite, records, lastSync, editing, reported,
                   server, stored, refused, held, skipped, raced>>

\* The fields of the answer that the client replaces when they are missing.
Fields == {"connections", "savedQueries", "serverTimestamp"}

ListOf(i) == IF i \in Connections THEN "connections" ELSE "savedQueries"

\* A list that is missing is empty.
Received(given) == [i \in Items |-> IF ListOf(i) \in given THEN service.rows[i] ELSE NoRow]

\* The cursor of the cycle is the server's time, or the device's when the answer has none.
BugCursor(given) == now
Cursor(given) == IF "serverTimestamp" \in given THEN service.timestamp ELSE now

\* The times that a cursor passes though the answer need not show a save of them.
Unseen(i, given) ==
    (IF ListOf(i) \in given THEN service.timestamp ELSE service.since + 1) ..
        (IF "serverTimestamp" \in given THEN service.timestamp ELSE now)

\* The snapshot has the item of a row, in another version.
Differs(mine, row) ==
    mine.content # 0 /\ row.content # 0 /\ mine.version # row.version

\* The comparison of two versions calls getTime(), which throws for a text: the row's when
\* it is a query, the local one when it is a connection that was put as it came.
DatesOnly(snapshot, rows) ==
    \A i \in Items : Differs(snapshot[i], rows[i]) => i \in Connections /\ ~snapshot[i].text

\* detectConflicts: the records as they were before the upload against the rows.
Conflicts(snapshot, rows) ==
    {[item |-> i, mine |-> snapshot[i].content, theirs |-> rows[i]] :
        i \in {j \in Items : /\ Differs(snapshot[j], rows[j])
                             /\ snapshot[j].updatedAt # rows[j].updatedAt}}

\* A cycle that throws here ends in FailCycle.
ReceiveRows ==
    /\ service.phase = "answer"
    /\ \E given \in SUBSET Fields :
         LET rows == Received(given)
             found == Conflicts(service.snapshot, rows)
         IN /\ DatesOnly(service.snapshot, rows)
            /\ service' = [service EXCEPT
                             !.phase = "merge", !.since = 0, !.snapshot = Idle.snapshot,
                             !.rows = rows, !.timestamp = Cursor(given),
                             !.conflicts = found,
                             !.open = IF AutoResolve THEN found ELSE {},
                             !.merge = {i \in Items : rows[i].content # 0}]
            /\ skipped' = [i \in Items |-> skipped[i] \cup Unseen(i, given)]
    /\ UNCHANGED <<now, edits, suspicious, sqlite, records, lastSync, editing, reported,
                   server, stored, refused, held, raced>>

\* autoResolveConflicts: the server is told, and nothing is applied locally.
AutoResolveOne ==
    /\ service.phase = "merge"
    /\ \E c \in service.open, ok \in BOOLEAN :
         service' = [service EXCEPT !.open = @ \ {c},
                                    !.conflicts = IF ok THEN @ \ {c} ELSE @]
    /\ UNCHANGED <<now, edits, suspicious, sqlite, records, lastSync, editing, reported,
                   server, stored, refused, held, skipped, raced>>

\* mergeRemoteChanges: connections first, one put after the other, conflicts or not; those
\* are put as they came, the dates of a query are made anew.
MergeOne(i) ==
    /\ service.phase = "merge" /\ service.open = {}
    /\ i \in service.merge
    /\ i \in Queries => service.merge \cap Connections = {}
    /\ LET row == service.rows[i] IN
         /\ records' = [records EXCEPT ![i] =
                          [content |-> row.content, version |-> row.version + 1,
                           updatedAt |-> row.updatedAt, synced |-> TRUE,
                           text |-> i \in Connections]]
         /\ held' = held \cup {row.content}
    /\ service' = [service EXCEPT !.merge = @ \ {i}, !.rows[i] = NoRow]
    /\ UNCHANGED <<now, edits, suspicious, sqlite, lastSync, editing, reported, server,
                   stored, refused, skipped, raced>>

\* The finally block: the next cycle may start.
BugReleased == [Idle EXCEPT !.phase = "stuck"]
Released == Idle

FinishCycle ==
    /\ service.phase = "merge" /\ service.open = {} /\ service.merge = {}
    /\ lastSync' = service.timestamp
    /\ reported' = reported \cup service.conflicts
    /\ service' = Idle
    /\ UNCHANGED <<now, edits, suspicious, sqlite, records, editing, server, stored,
                   refused, held, skipped, raced>>

\* A check, a read, a request or a put fails, or a request times out.
FailCycle ==
    /\ service.phase # "idle"
    /\ service' = Released
    /\ UNCHANGED <<now, edits, suspicious, sqlite, records, lastSync, editing, reported,
                   server, stored, refused, held, skipped, raced>>

-----------------------------------------------------------------------------

Cycle ==
    \/ ReadLocal \/ ServerUpload \/ ServerDownload \/ ReceiveRows \/ AutoResolveOne
    \/ \E i \in Items : MergeOne(i)
    \/ FinishCycle \/ FailCycle

Next ==
    \/ Tick
    \/ \E i \in Items : BeginEdit(i) \/ CreateQuery(i) \/ Delete(i) \/ RemoteEdit(i)
    \/ PutEdit
    \/ ResetCursor
    \/ \E c \in reported : ApplyRemoteVersion(c)
    \/ StartCycle
    \/ Cycle

Spec == Init /\ [][Next]_vars

-----------------------------------------------------------------------------

Record == [content : Nat, version : Nat, updatedAt : Nat, synced : BOOLEAN, text : BOOLEAN]

Row == [content : Nat, version : Nat, updatedAt : Nat]

Conflict == [item : Items, mine : Nat, theirs : Row]

\* The types of all variables.
TypeOK ==
    /\ now \in Nat /\ edits \in Nat /\ lastSync \in Nat
    /\ records \in [Items -> Record]
    /\ suspicious \subseteq 1 .. edits /\ sqlite \subseteq Items
    /\ editing \in [item : SUBSET Items, record : Record]
    /\ server \in [Items -> Row]
    /\ service.phase \in {"idle", "readConnections", "readQueries", "upload", "download",
                         "answer", "merge"}
    /\ service.since \in Nat
    /\ service.snapshot \in [Items -> Record]
    /\ service.rows \in [Items -> Row]
    /\ service.timestamp \in Nat
    /\ service.changes \subseteq Items /\ service.merge \subseteq Items
    /\ service.open \subseteq service.conflicts
    /\ service.conflicts \subseteq Conflict
    /\ reported \subseteq Conflict
    /\ stored \subseteq 1 .. edits /\ refused \subseteq 1 .. edits /\ held \subseteq 1 .. edits
    /\ skipped \in [Items -> SUBSET (1 .. now)]
    /\ raced \subseteq Items

\* A payload of this device that the server was never offered is taken up by the next
\* cycle, whatever cycles failed and wherever.  There are two exceptions: one that the
\* sanitizer keeps back, and a connection edited while a cycle was past its read, or no
\* later than the cursor: update() leaves it marked synced and the cursor passes its time.
EditsPending ==
    \A i \in Items :
        records[i].content \notin stored \cup refused \cup suspicious \cup {0} =>
            Changed(records[i], lastSync) \/ i \in Connections \cap raced

\* Every row no newer than the cursor has been on this device, unless it was saved in the
\* very tick of a listing, between a listing and the device's clock that stood in for the
\* server's time, or since the cursor before of an answer that lacked the list: a failed or
\* lost step anywhere in a cycle never moves the cursor past a row that was not merged.
NothingMissed ==
    \A i \in Items :
        /\ server[i].content # 0 /\ server[i].updatedAt <= lastSync
        /\ server[i].updatedAt \notin skipped[i]
        => server[i].content \in held

\* A merge overwrites a payload that the server never stored only if the payload was
\* written after the cycle had read the records, the sanitizer kept it back, or the server
\* refused it.
LostOnlyWhenRaced ==
    [][\A i \in Items :
          /\ i \in service.merge \ service'.merge /\ service'.phase = "merge"
          /\ records[i].content \notin stored \cup {0}
          => i \in raced \/ records[i].content \in refused \cup suspicious]_vars

\* docs/sync-protocol.md:25: "Never Lose Data: Conflicts preserved, never silently
\* overwritten".
NeverSilentlyOverwritten ==
    [][\A i \in Items :
          /\ i \in service.merge \ service'.merge /\ service'.phase = "merge"
          /\ records[i].content \notin stored \cup {0}
          => \E c \in service.conflicts : c.item = i /\ c.mine = records[i].content]_vars

=============================================================================
