-------------------------- MODULE SyncService_proofs --------------------------
(***************************************************************************)
(* The cycle of one tab, for any records, clock and number of edits: what  *)
(* is edited stays pending until the server was asked, and the cursor      *)
(* passes no row that has not been merged, but in the windows that the     *)
(* properties name.                                                        *)
(***************************************************************************)
EXTENDS SyncService, TLAPS

Phases == {"idle", "readConnections", "readQueries", "upload", "download", "answer", "merge"}

Service == [phase : Phases, since : Nat, snapshot : [Items -> Record],
            changes : SUBSET Items, rows : [Items -> Row], timestamp : Nat,
            conflicts : SUBSET Conflict, open : SUBSET Conflict, merge : SUBSET Items]

Editing == [item : SUBSET Items, record : Record]

Types ==
    /\ now \in Nat \ {0} /\ edits \in Nat /\ lastSync \in Nat
    /\ records \in [Items -> Record]
    /\ suspicious \subseteq 1 .. edits /\ sqlite \subseteq Items
    /\ editing \in Editing
    /\ server \in [Items -> Row]
    /\ service \in Service
    /\ reported \subseteq Conflict
    /\ stored \subseteq 1 .. edits /\ refused \subseteq 1 .. edits /\ held \subseteq 1 .. edits
    /\ skipped \in [Items -> SUBSET (1 .. now)]
    /\ raced \subseteq Items

\* Where payloads come from: what the device has, it has held, and what the server has
\* answered, it has stored.
Payloads ==
    /\ \A i \in Items : records[i].content \in held \cup {0}
                        /\ service.snapshot[i].content \in held \cup {0}
    /\ \A i \in Items : server[i].content \in stored \cup {0}
                        /\ service.rows[i].content \in stored \cup {0}
    /\ \A c \in reported \cup service.conflicts : c.theirs.content \in stored
    /\ editing.item # {} => editing.record.content \in 1 .. edits
    /\ editing.item \cap Queries # {} => ~editing.record.synced
    /\ \A i \in service.changes : service.snapshot[i].content # 0
    /\ \A i \in service.merge : service.rows[i].content # 0
    /\ service.open \subseteq service.conflicts
    /\ service.phase \notin {"readQueries", "upload"} => service.changes = {}
    /\ service.phase = "readQueries" => service.changes \subseteq Connections
    /\ service.phase # "merge" => service.merge = {}

\* The times that every list has skipped.
Listed == {t \in 1 .. now : \A i \in Items : t \in skipped[i]}

\* A cursor has been skipped to, a listing is not ahead of the clock, and during a cycle no
\* other cycle moves the cursor.
Times ==
    /\ {lastSync, service.since} \subseteq Listed \cup {0}
    /\ service.phase \in {"readConnections", "readQueries"} => lastSync <= service.since
    /\ service.phase = "answer" =>
         service.timestamp \in 1 .. now /\ service.since <= service.timestamp
    /\ service.phase = "merge" => service.timestamp \in Listed

Unoffered(i) == records[i].content \notin stored \cup refused \cup suspicious \cup {0}

\* What the server has not been asked to store is unsynced, newer than the cursor, or was
\* put where a cycle had read already; and a cycle that has read it will ask.
PendingAt(i) ==
    /\ i \in Queries => ~records[i].synced
    /\ i \in Connections \ raced =>
         /\ Changed(records[i], lastSync)
         /\ service.phase = "readConnections" => Changed(records[i], service.since)
    /\ Past(i) /\ i \notin raced =>
         i \in service.changes /\ service.snapshot[i].content = records[i].content
    /\ service.phase \in {"download", "answer", "merge"} => i \in raced

Pending == \A i \in Items : Unoffered(i) => PendingAt(i)

\* The rows up to the time t have been on the device, but for those skipped.
Covered(t) ==
    \A i \in Items :
        /\ server[i].content # 0 /\ server[i].updatedAt <= t
        /\ server[i].updatedAt \notin skipped[i]
        => server[i].content \in held

\* Those before the time of the listing have been, or are in the answer.
Answered ==
    \A i \in Items :
        /\ server[i].content # 0 /\ server[i].updatedAt < service.timestamp
        /\ server[i].updatedAt \notin skipped[i]
        => server[i].content \in held \/ service.rows[i].content = server[i].content

\* Those up to the next cursor have been, or wait to be merged.
Arriving ==
    \A i \in Items :
        /\ server[i].content # 0 /\ server[i].updatedAt <= service.timestamp
        /\ server[i].updatedAt \notin skipped[i]
        => \/ server[i].content \in held
           \/ service.rows[i].content = server[i].content /\ i \in service.merge

Cursors ==
    /\ Covered(lastSync)
    /\ service.phase \in {"download", "answer"} => Covered(service.since)
    /\ service.phase = "answer" => Answered
    /\ service.phase = "merge" => Arriving

ServiceInv == Types /\ Payloads /\ Times /\ Pending /\ Cursors

-----------------------------------------------------------------------------
(***************************************************************************)
(* The idle records are well typed.                                        *)
(***************************************************************************)
LEMMA IdleFacts ==
    /\ NoRecord \in Record /\ NoRow \in Row
    /\ Idle \in Service /\ NoEdit \in Editing
    /\ Idle.phase = "idle" /\ Idle.since = 0 /\ Idle.timestamp = 0
    /\ Idle.changes = {} /\ Idle.conflicts = {} /\ Idle.open = {} /\ Idle.merge = {}
    /\ \A i \in Items : Idle.snapshot[i] = NoRecord /\ Idle.rows[i] = NoRow
    /\ NoRecord.content = 0 /\ NoRow.content = 0 /\ NoEdit.item = {}
<1>1. NoRecord \in Record /\ NoRow \in Row /\ NoRecord.content = 0 /\ NoRow.content = 0
  BY DEF NoRecord, NoRow, Record, Row
<1>2. NoEdit \in Editing /\ NoEdit.item = {}
  BY <1>1 DEF NoEdit, Editing
<1>3. Idle \in Service
  BY <1>1 DEF Idle, Service, Phases
<1>4. QED
  BY <1>1, <1>2, <1>3 DEF Idle

(***************************************************************************)
(* What detectConflicts finds are conflicts, with rows that were answered. *)
(***************************************************************************)
LEMMA ConflictsType ==
    ASSUME NEW snapshot \in [Items -> Record], NEW rows \in [Items -> Row]
    PROVE  /\ Conflicts(snapshot, rows) \subseteq Conflict
           /\ \A c \in Conflicts(snapshot, rows) :
                 \E i \in Items : rows[i].content # 0 /\ c.theirs = rows[i]
<1> SUFFICES ASSUME NEW c \in Conflicts(snapshot, rows)
             PROVE  c \in Conflict /\ \E i \in Items : rows[i].content # 0 /\ c.theirs = rows[i]
  OBVIOUS
<1>1. PICK i \in Items : /\ rows[i].content # 0
                         /\ c = [item |-> i, mine |-> snapshot[i].content, theirs |-> rows[i]]
  BY DEF Conflicts, Differs
<1>2. snapshot[i].content \in Nat /\ rows[i] \in Row
  BY DEF Record
<1>3. QED
  BY <1>1, <1>2 DEF Conflict

(***************************************************************************)
(* The records of one kind that a cycle takes up.                          *)
(***************************************************************************)
Taken(kind) == {i \in kind : Changed(records[i], service.since)}

(***************************************************************************)
(* Those that it will upload.                                              *)
(***************************************************************************)
ToSend(kind) == Passed(Taken(kind))

(***************************************************************************)
(* The record that the merge puts.                                         *)
(***************************************************************************)
Merged(i) == [content |-> service.rows[i].content, version |-> service.rows[i].version + 1,
              updatedAt |-> service.rows[i].updatedAt, synced |-> TRUE,
              text |-> i \in Connections]

(***************************************************************************)
(* What one getAll of getLocalChanges leaves in the cycle.                 *)
(***************************************************************************)
LEMMA ReadFacts ==
    ASSUME Types, NEW kind \in SUBSET Items, NEW next, ReadRecords(kind, next)
    PROVE  /\ service' = [service EXCEPT !.phase = next, !.changes = service'.changes,
                                         !.snapshot = service'.snapshot]
           /\ service'.phase = next
           /\ service'.changes = service.changes \cup ToSend(kind)
           /\ service'.snapshot \in [Items -> Record]
           /\ \A i \in Items : service'.snapshot[i] = IF i \in kind THEN records[i]
                                                              ELSE service.snapshot[i]
           /\ service'.since = service.since /\ service'.rows = service.rows
           /\ service'.timestamp = service.timestamp /\ service'.merge = service.merge
           /\ service'.conflicts = service.conflicts /\ service'.open = service.open
           /\ raced' = raced \ Taken(kind)
BY DEF ReadRecords, ToSend, Taken, Types, Service

(***************************************************************************)
(* The two reads move nothing but what they read.                          *)
(***************************************************************************)
LEMMA ReadPhases ==
    ASSUME Types, ReadLocal
    PROVE  /\ service.phase \in {"readConnections", "readQueries"}
           /\ service'.phase \in {"readQueries", "upload"}
           /\ service'.since = service.since /\ service'.timestamp = service.timestamp
           /\ UNCHANGED <<lastSync, now, skipped, records, stored, refused>>
<1>1. CASE service.phase = "readConnections" /\ ReadRecords(Connections, "readQueries")
  <2>1. Connections \in SUBSET Items
    BY DEF Items
  <2>2. service'.phase = "readQueries" /\ service'.since = service.since
        /\ service'.timestamp = service.timestamp
    BY <1>1, <2>1, ReadFacts
  <2>3. QED
    BY <1>1, <2>2 DEF ReadRecords
<1>2. CASE service.phase = "readQueries" /\ ReadRecords(Queries, "upload")
  <2>1. Queries \in SUBSET Items
    BY DEF Items
  <2>2. service'.phase = "upload" /\ service'.since = service.since
        /\ service'.timestamp = service.timestamp
    BY <1>2, <2>1, ReadFacts
  <2>3. QED
    BY <1>2, <2>2 DEF ReadRecords
<1>3. QED
  BY <1>1, <1>2 DEF ReadLocal

(***************************************************************************)
(* The row the server keeps of a change it stores.                         *)
(***************************************************************************)
Uploaded(i) == [content |-> service.snapshot[i].content,
                version |-> service.snapshot[i].version + 2, updatedAt |-> now]

(***************************************************************************)
(* The server stores some of the changes and refuses the others.           *)
(***************************************************************************)
LEMMA UploadFacts ==
    ASSUME Types, ServerUpload
    PROVE  /\ \E kept \in SUBSET service.changes :
                /\ server' = [i \in Items |-> IF i \in kept THEN Uploaded(i) ELSE server[i]]
                /\ stored' = stored \cup {service.snapshot[i].content : i \in kept}
                /\ refused' = refused
                      \cup {service.snapshot[i].content : i \in service.changes \ kept}
           /\ service.phase = "upload" /\ service'.phase = "download"
           /\ service' = [service EXCEPT !.phase = "download", !.changes = {},
                                         !.since = lastSync]
           /\ service'.changes = {} /\ service'.since = lastSync
           /\ service'.snapshot = service.snapshot /\ service'.rows = service.rows
           /\ service'.timestamp = service.timestamp /\ service'.merge = service.merge
           /\ service'.conflicts = service.conflicts /\ service'.open = service.open
<1>1. PICK rejected \in SUBSET service.changes :
         LET new == service.snapshot
             lost == rejected \cup {i \in service.changes : Keeps(server[i], new[i])}
         IN /\ server' = [i \in Items |->
                   IF i \in service.changes \ lost
                   THEN [content |-> new[i].content, version |-> new[i].version + 2,
                         updatedAt |-> now]
                   ELSE server[i]]
            /\ stored' = stored \cup {new[i].content : i \in service.changes \ lost}
            /\ refused' = refused \cup {new[i].content : i \in lost}
  BY DEF ServerUpload
<1> DEFINE lost == rejected \cup {i \in service.changes : Keeps(server[i], service.snapshot[i])}
           kept == service.changes \ lost
<1>2. /\ server' = [i \in Items |-> IF i \in kept THEN Uploaded(i) ELSE server[i]]
      /\ stored' = stored \cup {service.snapshot[i].content : i \in kept}
      /\ refused' = refused \cup {service.snapshot[i].content : i \in lost}
  BY <1>1 DEF Uploaded
<1>3. service.changes \ kept = lost /\ kept \in SUBSET service.changes
  OBVIOUS
<1> HIDE DEF lost, kept
<1>4. refused' = refused \cup {service.snapshot[i].content : i \in service.changes \ kept}
  BY <1>2, <1>3
<1>5. \E k \in SUBSET service.changes :
        /\ server' = [i \in Items |-> IF i \in k THEN Uploaded(i) ELSE server[i]]
        /\ stored' = stored \cup {service.snapshot[i].content : i \in k}
        /\ refused' = refused \cup {service.snapshot[i].content : i \in service.changes \ k}
  BY <1>2, <1>3, <1>4
<1>6. QED
  BY <1>5 DEF ServerUpload, Types, Service

(***************************************************************************)
(* The answer of a download holds the rows above the cursor it was asked   *)
(* with.                                                                   *)
(***************************************************************************)
LEMMA DownloadFacts ==
    ASSUME Types, ServerDownload
    PROVE  /\ service'.since \in {service.since, lastSync}
           /\ service'.rows = [i \in Items |-> IF server[i].updatedAt > service'.since
                                               THEN server[i] ELSE NoRow]
           /\ service.phase = "download" /\ service'.phase = "answer"
           /\ service' = [service EXCEPT !.phase = "answer", !.since = service'.since,
                                         !.rows = service'.rows, !.timestamp = now]
           /\ service'.timestamp = now
           /\ service'.snapshot = service.snapshot /\ service'.changes = service.changes
           /\ service'.merge = service.merge
           /\ service'.open = service.open /\ service'.conflicts = service.conflicts
<1>1. PICK since \in {service.since, lastSync} :
        service' = [service EXCEPT
                       !.phase = "answer", !.since = since,
                       !.rows = [i \in Items |-> IF server[i].updatedAt > since
                                                 THEN server[i] ELSE NoRow],
                       !.timestamp = now]
  BY DEF ServerDownload
<1>2. /\ service'.since = since
      /\ service'.rows = [i \in Items |-> IF server[i].updatedAt > since
                                          THEN server[i] ELSE NoRow]
  BY <1>1 DEF Types, Service
<1>3. service' = [service EXCEPT !.phase = "answer", !.since = service'.since,
                                 !.rows = service'.rows, !.timestamp = now]
  BY <1>1, <1>2
<1>4. QED
  BY <1>2, <1>3 DEF ServerDownload, Types, Service

(***************************************************************************)
(* The puts of the merge, one by one.                                      *)
(***************************************************************************)
LEMMA MergeFacts ==
    ASSUME Types, NEW i \in Items, MergeOne(i)
    PROVE  /\ service.phase = "merge" /\ service'.phase = "merge" /\ i \in service.merge
           /\ service'.snapshot = service.snapshot /\ service'.changes = service.changes
           /\ service'.merge = service.merge \ {i}
           /\ service'.since = service.since /\ service'.timestamp = service.timestamp
           /\ service'.conflicts = service.conflicts /\ service'.open = service.open
           /\ \A j \in Items : service'.rows[j] = IF j = i THEN NoRow ELSE service.rows[j]
           /\ \A j \in Items : records'[j] =
                 IF j = i THEN Merged(i) ELSE records[j]
           /\ held' = held \cup {service.rows[i].content}
BY DEF MergeOne, Merged, Types, Service

(***************************************************************************)
(* What the cycle takes from the answer.                                   *)
(***************************************************************************)
LEMMA ReceiveFacts ==
    ASSUME Types, ReceiveRows
    PROVE  \E given \in SUBSET Fields :
              LET rows == Received(given)
                  found == Conflicts(service.snapshot, rows)
              IN /\ service.phase = "answer" /\ service'.phase = "merge"
                 /\ service'.since = 0 /\ service'.timestamp = Cursor(given)
                 /\ service'.snapshot = Idle.snapshot /\ service'.changes = service.changes
                 /\ service'.rows = rows /\ rows \in [Items -> Row]
                 /\ service'.conflicts = found /\ found \subseteq Conflict
                 /\ service'.open \subseteq found
                 /\ service'.merge = {i \in Items : rows[i].content # 0}
                 /\ service' \in Service
                 /\ skipped' = [i \in Items |-> skipped[i] \cup Unseen(i, given)]
<1>1. PICK given \in SUBSET Fields :
         LET rows == Received(given)
             found == Conflicts(service.snapshot, rows)
         IN /\ service' = [service EXCEPT
                             !.phase = "merge", !.since = 0, !.snapshot = Idle.snapshot,
                             !.rows = rows, !.timestamp = Cursor(given),
                             !.conflicts = found,
                             !.open = IF AutoResolve THEN found ELSE {},
                             !.merge = {i \in Items : rows[i].content # 0}]
            /\ skipped' = [i \in Items |-> skipped[i] \cup Unseen(i, given)]
  BY DEF ReceiveRows
<1> DEFINE rows == Received(given)
           found == Conflicts(service.snapshot, rows)
           open == IF AutoResolve THEN found ELSE {}
           merge == {i \in Items : rows[i].content # 0}
<1>2. rows \in [Items -> Row]
  <2>1. service.rows \in [Items -> Row] /\ NoRow \in Row
    BY IdleFacts DEF Types, Service
  <2>2. QED
    BY <2>1 DEF Received
<1>3. Cursor(given) \in Nat
  BY DEF Cursor, Types, Service
<1>4. service.snapshot \in [Items -> Record]
  BY DEF Types, Service
<1> HIDE DEF rows
<1>5. found \subseteq Conflict
  BY <1>2, <1>4, ConflictsType
<1> HIDE DEF found
<1>6. open \subseteq found /\ merge \subseteq Items /\ Idle.snapshot \in [Items -> Record]
  BY IdleFacts DEF Service
<1>7. service' = [service EXCEPT !.phase = "merge", !.since = 0, !.snapshot = Idle.snapshot,
                     !.rows = rows, !.timestamp = Cursor(given), !.conflicts = found,
                     !.open = open, !.merge = merge]
  BY <1>1 DEF rows, found
<1> HIDE DEF open, merge
<1>8. /\ service'.phase = "merge" /\ service'.since = 0 /\ service'.timestamp = Cursor(given)
      /\ service'.snapshot = Idle.snapshot /\ service'.changes = service.changes
      /\ service'.rows = rows /\ service'.conflicts = found /\ service'.open = open
      /\ service'.merge = merge
  BY <1>7 DEF Types, Service
<1>9. service' \in Service
  BY <1>2, <1>3, <1>5, <1>6, <1>7 DEF Types, Service, Phases
<1>10. service.phase = "answer"
  BY DEF ReceiveRows
<1>11. QED
  BY <1>1, <1>2, <1>5, <1>6, <1>8, <1>9, <1>10 DEF rows, found, merge

(***************************************************************************)
(* The times skipped are times.                                            *)
(***************************************************************************)
LEMMA UnseenType ==
    ASSUME Types, Times, service.phase = "answer", NEW i \in Items,
           NEW given \in SUBSET Fields
    PROVE  Unseen(i, given) \in SUBSET (1 .. now)
<1> DEFINE first == IF ListOf(i) \in given THEN service.timestamp ELSE service.since + 1
           last == IF "serverTimestamp" \in given THEN service.timestamp ELSE now
<1>1. first \in Nat \ {0} /\ last \in Nat /\ last <= now /\ now \in Nat
  BY DEF Types, Service, Times
<1>2. first .. last \subseteq 1 .. now
  <2> HIDE DEF first, last
  <2>1. QED
    BY <1>1
<1>3. QED
  BY <1>2 DEF Unseen

(***************************************************************************)
(* The record of an edit.                                                  *)
(***************************************************************************)
LEMMA EditedFacts ==
    ASSUME Types, NEW i \in Items, NEW existing \in Record
    PROVE  /\ Edited(i, existing) \in Record
           /\ Edited(i, existing).content = edits + 1
           /\ i \in Queries => ~Edited(i, existing).synced
<1>1. Mark(i, existing) \in BOOLEAN /\ (i \in Queries => ~Mark(i, existing))
  BY SyncServiceAssumption DEF Mark, Record
<1>2. edits + 1 \in Nat /\ existing.version \in Nat /\ now \in Nat
  BY DEF Types, Record
<1>3. QED
  BY <1>1, <1>2 DEF Edited, Record

(***************************************************************************)
(* What a repository has read is a record.                                 *)
(***************************************************************************)
LEMMA ExistingType ==
    ASSUME Types, NEW i \in Items
    PROVE  Existing(i) \subseteq Record
<1>1. [NoRecord EXCEPT !.synced = TRUE] \in Record
  BY IdleFacts DEF Record
<1>2. records[i] \in Record
  BY DEF Types
<1>3. QED
  BY <1>1, <1>2 DEF Existing

(***************************************************************************)
(* An edit begins with a new payload, which it will put.                   *)
(***************************************************************************)
LEMMA BeginFacts ==
    ASSUME Types, NEW i \in Items, BeginEdit(i)
    PROVE  /\ editing' \in Editing /\ editing'.item = {i}
           /\ editing'.record.content = edits + 1 /\ edits' = edits + 1
           /\ i \in Queries => ~editing'.record.synced
<1>1. PICK existing \in Record :
         editing' = [item |-> {i}, record |-> Edited(i, existing)]
  BY ExistingType, IdleFacts DEF BeginEdit
<1>2. edits' = edits + 1
  BY DEF BeginEdit, NewPayload
<1>3. QED
  BY <1>1, <1>2, EditedFacts DEF Editing

(***************************************************************************)
(* What a put of a repository changes.                                     *)
(***************************************************************************)
LEMMA PutFacts ==
    ASSUME Types, NEW i \in Items, NEW record \in Record, PutRecord(i, record)
    PROVE  /\ records' \in [Items -> Record]
           /\ \A j \in Items : records'[j] = IF j = i THEN record ELSE records[j]
           /\ sqlite' \subseteq Items
           /\ held' = held \cup {record.content}
           /\ raced \subseteq raced' /\ raced' \subseteq raced \cup {i}
           /\ Past(i) => i \in raced'
           /\ i \in Connections \ raced' =>
                 record.updatedAt > lastSync /\ record.updatedAt > service.since
<1>1. record.updatedAt \in Nat /\ lastSync \in Nat /\ service.since \in Nat
  BY DEF Types, Service, Record
<1>2. /\ records' = [records EXCEPT ![i] = record] /\ held' = held \cup {record.content}
      /\ sqlite' \in {sqlite, sqlite \cup {i}}
      /\ raced' = IF \/ Past(i)
                     \/ /\ i \in Connections
                        /\ record.updatedAt <= lastSync \/ record.updatedAt <= service.since
                  THEN raced \cup {i} ELSE raced
  BY DEF PutRecord
<1>3. /\ records' \in [Items -> Record]
      /\ \A j \in Items : records'[j] = IF j = i THEN record ELSE records[j]
      /\ sqlite' \subseteq Items
  BY <1>2 DEF Types
<1>4. raced \subseteq raced' /\ raced' \subseteq raced \cup {i} /\ (Past(i) => i \in raced')
  BY <1>2
<1>5. i \in Connections \ raced' =>
         ~(record.updatedAt <= lastSync) /\ ~(record.updatedAt <= service.since)
  BY <1>2
<1>6. i \in Connections \ raced' =>
         record.updatedAt > lastSync /\ record.updatedAt > service.since
  BY <1>1, <1>5
<1>7. QED
  BY <1>2, <1>3, <1>4, <1>6

(***************************************************************************)
(* A new payload is counted, and may be one that the sanitizer withholds.  *)
(***************************************************************************)
LEMMA NewPayloadFacts ==
    ASSUME Types, NEW i \in Items, NewPayload(i)
    PROVE  /\ edits' = edits + 1 /\ edits \in Nat
           /\ suspicious \subseteq suspicious' /\ suspicious' \subseteq 1 .. edits'
<1>1. /\ edits' = edits + 1 /\ edits \in Nat /\ suspicious \subseteq 1 .. edits
      /\ suspicious' = suspicious \/ suspicious' = suspicious \cup {edits + 1}
  BY DEF NewPayload, Types
<1>2. 1 .. edits \subseteq 1 .. edits' /\ edits + 1 \in 1 .. edits'
  BY <1>1
<1>3. QED
  BY <1>1, <1>2

LEMMA InitServiceInv == Init => ServiceInv
<1> SUFFICES ASSUME Init PROVE ServiceInv
  OBVIOUS
<1>1. Types
  BY IdleFacts DEF Init, Types
<1>2. Payloads
  BY IdleFacts DEF Init, Payloads
<1>3. Times
  BY IdleFacts DEF Init, Times
<1>4. Pending
  BY IdleFacts DEF Init, Pending, Unoffered
<1>5. Cursors
  BY IdleFacts DEF Init, Cursors, Covered
<1>6. QED
  BY <1>1, <1>2, <1>3, <1>4, <1>5 DEF ServiceInv

(***************************************************************************)
(* The types.                                                              *)
(***************************************************************************)
LEMMA NextTypes == Types /\ Payloads /\ Times /\ Next => Types'
<1> SUFFICES ASSUME Types, Payloads, Times, Next PROVE Types'
  OBVIOUS
<1> USE IdleFacts
<1>1. CASE Tick
  BY <1>1 DEF Tick, Types
<1>2. ASSUME NEW i \in Items, BeginEdit(i) PROVE Types'
  <2>1. NewPayload(i) /\ editing' \in Editing
    BY <1>2, BeginFacts DEF BeginEdit
  <2>2. edits' \in Nat /\ suspicious' \subseteq 1 .. edits' /\ 1 .. edits \subseteq 1 .. edits'
    BY <2>1, NewPayloadFacts
  <2>3. QED
    BY <1>2, <2>1, <2>2 DEF BeginEdit, Types
<1>3. ASSUME NEW i \in Items, Delete(i) PROVE Types'
  <2>1. records' \in [Items -> Record] /\ sqlite' \subseteq Items
    BY <1>3 DEF Delete, Types
  <2>2. edits' \in Nat /\ 1 .. edits \subseteq 1 .. edits'
    BY <1>3 DEF Delete, Types
  <2>3. QED
    BY <1>3, <2>1, <2>2 DEF Delete, Types
<1>4. ASSUME NEW i \in Items, RemoteEdit(i) PROVE Types'
  <2>1. server[i] \in Row /\ server[i].version \in Nat
    BY DEF Types, Row
  <2>2. [content |-> edits + 1, version |-> server[i].version + 2, updatedAt |-> now] \in Row
    BY <2>1 DEF Row, Types
  <2>3. server' \in [Items -> Row]
    BY <1>4, <2>2 DEF RemoteEdit, Types
  <2>4. QED
    BY <1>4, <2>3 DEF RemoteEdit, Types
<1>5. CASE PutEdit
  <2>1. PICK i \in editing.item : PutRecord(i, editing.record)
    BY <1>5 DEF PutEdit
  <2>2. i \in Items /\ editing.record \in Record /\ editing.record.content \in 1 .. edits
    BY DEF Types, Payloads, Editing
  <2>3. /\ records' \in [Items -> Record] /\ sqlite' \subseteq Items
        /\ raced' \subseteq raced \cup {i} /\ held' = held \cup {editing.record.content}
    BY <2>1, <2>2, PutFacts
  <2>4. raced' \subseteq Items /\ held' \subseteq 1 .. edits
    BY <2>2, <2>3 DEF Types
  <2>5. QED
    BY <1>5, <2>3, <2>4, IdleFacts DEF PutEdit, Types
<1>6. CASE ResetCursor
  BY <1>6 DEF ResetCursor, Types
<1>7. ASSUME NEW c \in reported, ApplyRemoteVersion(c) PROVE Types'
  <2>1. c.item \in Items /\ c.theirs \in Row /\ c.theirs.content \in stored
    BY DEF Types, Payloads, Conflict
  <2>2. [content |-> c.theirs.content, version |-> c.theirs.version,
         updatedAt |-> c.theirs.updatedAt, synced |-> TRUE, text |-> TRUE] \in Record
    BY <2>1 DEF Row, Record
  <2>3. records' \in [Items -> Record] /\ held' \subseteq 1 .. edits
    BY <1>7, <2>1, <2>2 DEF ApplyRemoteVersion, Types
  <2>4. QED
    BY <1>7, <2>3 DEF ApplyRemoteVersion, Types
<1>8. CASE StartCycle
  <2>1. service' \in Service
    BY <1>8 DEF StartCycle, Types, Service, Phases
  <2>2. QED
    BY <1>8, <2>1 DEF StartCycle, Types
<1>9. ASSUME NEW kind \in SUBSET Items, NEW next \in {"readQueries", "upload"},
             ReadRecords(kind, next)
      PROVE  Types'
  <2>1. service'.changes \subseteq Items /\ service'.snapshot \in [Items -> Record]
    <3>1. ToSend(kind) \subseteq Items
      BY DEF ToSend, Taken, Passed
    <3>2. /\ service'.changes = service.changes \cup ToSend(kind)
          /\ service'.snapshot \in [Items -> Record]
      BY <1>9, ReadFacts
    <3>3. QED
      BY <3>1, <3>2 DEF Types, Service
  <2>2. service' \in Service
    <3>1. service' = [service EXCEPT !.phase = next, !.changes = service'.changes,
                                     !.snapshot = service'.snapshot]
      BY <1>9, ReadFacts
    <3>2. QED
      BY <2>1, <3>1 DEF Types, Service, Phases
  <2>3. raced' \subseteq Items
    BY <1>9, ReadFacts DEF Types
  <2>4. QED
    BY <1>9, <2>2, <2>3 DEF ReadRecords, Types
<1>10. CASE ServerUpload
  <2>1. PICK kept \in SUBSET service.changes :
          /\ server' = [i \in Items |-> IF i \in kept THEN Uploaded(i) ELSE server[i]]
          /\ stored' = stored \cup {service.snapshot[i].content : i \in kept}
          /\ refused' = refused \cup {service.snapshot[i].content : i \in service.changes \ kept}
    BY <1>10, UploadFacts
  <2>2. service.snapshot \in [Items -> Record] /\ service.changes \subseteq Items
    BY DEF Types, Service
  <2>3. \A i \in service.changes : service.snapshot[i].content \in 1 .. edits
    BY <2>2 DEF Payloads, Types
  <2>4. \A i \in Items : Uploaded(i) \in Row
    <3> TAKE i \in Items
    <3>1. /\ service.snapshot[i].content \in Nat /\ service.snapshot[i].version + 2 \in Nat
          /\ now \in Nat
      BY <2>2 DEF Types, Record
    <3>2. QED
      BY <3>1 DEF Row, Uploaded
  <2>5. server' \in [Items -> Row] /\ stored' \subseteq 1 .. edits /\ refused' \subseteq 1 .. edits
    BY <2>1, <2>3, <2>4 DEF Types
  <2>6. service' \in Service
    BY <1>10, UploadFacts DEF Types, Service, Phases
  <2>7. QED
    BY <1>10, <2>5, <2>6 DEF ServerUpload, Types
<1>11. CASE ServerDownload
  <2>1. service'.rows \in [Items -> Row] /\ service'.since \in Nat
    BY <1>11, DownloadFacts DEF Types, Service
  <2>2. service' \in Service
    BY <1>11, <2>1, DownloadFacts DEF Types, Service, Phases
  <2>3. QED
    BY <1>11, <2>2 DEF ServerDownload, Types
<1>12. CASE ReceiveRows
  <2>1. PICK given \in SUBSET Fields :
          /\ service.phase = "answer" /\ service' \in Service
          /\ skipped' = [i \in Items |-> skipped[i] \cup Unseen(i, given)]
    BY <1>12, ReceiveFacts
  <2>2. skipped' \in [Items -> SUBSET (1 .. now)]
    BY <2>1, UnseenType DEF Types
  <2>3. QED
    BY <1>12, <2>1, <2>2 DEF ReceiveRows, Types
<1>13. CASE AutoResolveOne
  <2>1. PICK c \in service.open, ok \in BOOLEAN :
          service' = [service EXCEPT !.open = @ \ {c},
                                     !.conflicts = IF ok THEN @ \ {c} ELSE @]
    BY <1>13 DEF AutoResolveOne
  <2> DEFINE left == IF ok THEN service.conflicts \ {c} ELSE service.conflicts
  <2>2. left \in SUBSET Conflict /\ service.open \ {c} \in SUBSET Conflict
    BY DEF Types, Service
  <2>3. service' = [service EXCEPT !.open = service.open \ {c}, !.conflicts = left]
    BY <2>1
  <2> HIDE DEF left
  <2>4. service' \in Service
    BY <2>2, <2>3 DEF Types, Service
  <2>5. QED
    BY <1>13, <2>4 DEF AutoResolveOne, Types
<1>14. ASSUME NEW i \in Items, MergeOne(i) PROVE Types'
  <2> DEFINE row == service.rows[i]
             record == [content |-> row.content, version |-> row.version + 1,
                        updatedAt |-> row.updatedAt, synced |-> TRUE,
                        text |-> i \in Connections]
  <2>1. row \in Row /\ row.content \in stored /\ i \in service.merge
    BY <1>14 DEF MergeOne, Types, Service, Payloads
  <2>2. record \in Record
    BY <2>1 DEF Row, Record
  <2>3. records' = [records EXCEPT ![i] = record] /\ held' = held \cup {row.content}
    BY <1>14 DEF MergeOne
  <2> HIDE DEF record
  <2>4. records' \in [Items -> Record]
    BY <2>2, <2>3 DEF Types
  <2>5. row.content \in 1 .. edits
    BY <2>1 DEF Payloads, Types, Row
  <2>6. [service.rows EXCEPT ![i] = NoRow] \in [Items -> Row]
    BY DEF Types, Service
  <2>7. service' \in Service
    BY <1>14, <2>6 DEF MergeOne, Types, Service
  <2>8. held' \subseteq 1 .. edits
    BY <2>3, <2>5 DEF Types
  <2>9. QED
    BY <1>14, <2>4, <2>7, <2>8 DEF MergeOne, Types
<1>15. CASE FinishCycle
  <2>1. service.timestamp \in Nat /\ service.conflicts \subseteq Conflict
    BY DEF Types, Service
  <2>2. QED
    BY <1>15, <2>1 DEF FinishCycle, Types
<1>16. CASE FailCycle
  BY <1>16 DEF FailCycle, Released, Types
<1>17. CASE ReadLocal
  BY <1>9, <1>17 DEF ReadLocal, Items
<1>18. ASSUME NEW i \in Items, CreateQuery(i) PROVE Types'
  <2>1. NewPayload(i) /\ PutRecord(i, Edited(i, NoRecord))
    BY <1>18 DEF CreateQuery
  <2>2. /\ Edited(i, NoRecord) \in Record
        /\ Edited(i, NoRecord).content = edits + 1
    BY EditedFacts
  <2>3. /\ edits' = edits + 1 /\ edits \in Nat
        /\ suspicious' \subseteq 1 .. edits'
    BY <2>1, NewPayloadFacts
  <2>4. /\ records' \in [Items -> Record] /\ sqlite' \subseteq Items
        /\ raced' \subseteq Items /\ held' = held \cup {edits + 1}
    BY <2>1, <2>2, PutFacts DEF Types
  <2>5. 1 .. edits \subseteq 1 .. edits' /\ edits + 1 \in 1 .. edits' /\ edits' \in Nat
    BY <2>3
  <2>6. QED
    BY <1>18, <2>3, <2>4, <2>5 DEF CreateQuery, Types
<1>19. QED
  BY <1>1, <1>2, <1>3, <1>4, <1>5, <1>6, <1>7, <1>8, <1>10, <1>11, <1>12, <1>13, <1>14,
     <1>15, <1>16, <1>17, <1>18, Zenon DEF Next, Cycle

(***************************************************************************)
(* Where payloads come from.                                               *)
(***************************************************************************)
LEMMA NextPayloads == Types /\ Types' /\ Payloads /\ Next => Payloads'
<1> SUFFICES ASSUME Types, Types', Payloads, Next PROVE Payloads'
  OBVIOUS
<1> USE IdleFacts
<1>1. CASE Tick
  BY <1>1 DEF Tick, Payloads
<1>2. ASSUME NEW i \in Items, BeginEdit(i) PROVE Payloads'
  <2>1. /\ editing'.item = {i} /\ editing'.record.content = edits + 1 /\ edits' = edits + 1
        /\ edits \in Nat /\ (i \in Queries => ~editing'.record.synced)
    BY <1>2, BeginFacts DEF Types
  <2>2. editing'.record.content \in 1 .. edits'
    BY <2>1
  <2>3. editing'.item \cap Queries # {} => ~editing'.record.synced
    BY <2>1
  <2>4. QED
    BY <1>2, <2>2, <2>3 DEF BeginEdit, Payloads
<1>3. ASSUME NEW i \in Items, Delete(i) PROVE Payloads'
  <2>1. edits' = edits + 1 /\ edits \in Nat /\ UNCHANGED editing
    BY <1>3 DEF Delete, Types
  <2>2. editing'.item # {} => editing'.record.content \in 1 .. edits'
    BY <2>1 DEF Payloads
  <2>3. \A j \in Items : records'[j].content \in held \cup {0}
    BY <1>3 DEF Delete, Payloads, Types
  <2>4. QED
    BY <1>3, <2>2, <2>3 DEF Delete, Payloads
<1>4. ASSUME NEW i \in Items, RemoteEdit(i) PROVE Payloads'
  <2>1. edits' = edits + 1 /\ edits \in Nat /\ UNCHANGED editing
    BY <1>4 DEF RemoteEdit, Types
  <2>2. editing'.item # {} => editing'.record.content \in 1 .. edits'
    BY <2>1 DEF Payloads
  <2>3. \A j \in Items : server'[j].content \in stored' \cup {0}
    BY <1>4 DEF RemoteEdit, Payloads, Types
  <2>4. QED
    BY <1>4, <2>2, <2>3 DEF RemoteEdit, Payloads
<1>5. CASE PutEdit
  <2>1. PICK i \in editing.item : PutRecord(i, editing.record)
    BY <1>5 DEF PutEdit
  <2>2. i \in Items /\ editing.record \in Record
    BY DEF Types, Editing
  <2>3. /\ \A j \in Items : records'[j].content \in {records[j].content, editing.record.content}
        /\ held' = held \cup {editing.record.content}
    BY <2>1, <2>2, PutFacts
  <2>4. QED
    BY <1>5, <2>3 DEF PutEdit, Payloads
<1>6. CASE ResetCursor
  BY <1>6 DEF ResetCursor, Payloads
<1>7. ASSUME NEW c \in reported, ApplyRemoteVersion(c) PROVE Payloads'
  <2>1. \A j \in Items : records'[j].content \in {records[j].content, c.theirs.content}
    BY <1>7 DEF ApplyRemoteVersion, Types
  <2>2. QED
    BY <1>7, <2>1 DEF ApplyRemoteVersion, Payloads
<1>8. CASE StartCycle
  <2>1. /\ service'.snapshot = Idle.snapshot /\ service'.rows = Idle.rows
        /\ service'.changes = {} /\ service'.merge = {} /\ service'.open = {}
        /\ service'.conflicts = {}
    BY <1>8 DEF StartCycle, Service
  <2>2. QED
    BY <1>8, <2>1 DEF StartCycle, Payloads
<1>9. ASSUME NEW kind \in SUBSET Items, NEW next \in {"readQueries", "upload"},
             service.phase # "merge", service.changes \cap kind = {},
             next = "readQueries" => service.changes \cup kind \subseteq Connections,
             ReadRecords(kind, next)
      PROVE  Payloads'
  <2> DEFINE changed == ToSend(kind)
  <2>1. /\ service'.changes = service.changes \cup changed
        /\ \A i \in Items : service'.snapshot[i] = IF i \in kind THEN records[i]
                                                                 ELSE service.snapshot[i]
        /\ service'.rows = service.rows /\ service'.merge = service.merge
        /\ service'.open = service.open /\ service'.conflicts = service.conflicts
        /\ service'.phase = next
    BY <1>9, ReadFacts
  <2>2. changed \subseteq kind /\ \A i \in changed : records[i].content # 0
    BY DEF ToSend, Taken, Passed, Changed
  <2> HIDE DEF changed
  <2>3. service.changes \subseteq Items
    BY DEF Types, Service
  <2>4. \A i \in service'.changes : service'.snapshot[i].content # 0
    <3> TAKE i \in service'.changes
    <3>1. CASE i \in kind
      <4>1. records[i].content # 0
        BY <1>9, <2>1, <2>2, <3>1
      <4>2. QED
        BY <2>1, <3>1, <4>1
    <3>2. CASE i \notin kind
      BY <2>1, <2>2, <2>3, <3>2 DEF Payloads
    <3>3. QED
      BY <3>1, <3>2
  <2>5. \A i \in Items : service'.snapshot[i].content \in held \cup {0}
    BY <2>1 DEF Payloads
  <2>6. /\ service'.phase \in {"readQueries", "upload"} /\ service'.phase # "merge"
        /\ service'.phase = "readQueries" => service'.changes \subseteq Connections
    BY <1>9, <2>1, <2>2
  <2>7. QED
    BY <1>9, <2>1, <2>4, <2>5, <2>6 DEF ReadRecords, Payloads
<1>10. CASE ServerUpload
  <2>1. PICK kept \in SUBSET service.changes :
          /\ server' = [i \in Items |-> IF i \in kept THEN Uploaded(i) ELSE server[i]]
          /\ stored' = stored \cup {service.snapshot[i].content : i \in kept}
    BY <1>10, UploadFacts
  <2>2. \A i \in Items : server'[i].content \in stored' \cup {0}
    BY <2>1 DEF Payloads, Uploaded
  <2>3. UNCHANGED <<records, held, reported, editing, edits>>
    BY <1>10 DEF ServerUpload
  <2>4. QED
    BY <1>10, <2>1, <2>2, <2>3, UploadFacts DEF Payloads
<1>11. CASE ServerDownload
  <2>1. \A i \in Items : service'.rows[i].content \in {server[i].content, 0}
    <3> TAKE i \in Items
    <3>1. service'.rows[i] = server[i] \/ service'.rows[i] = NoRow
      BY <1>11, DownloadFacts
    <3>2. QED
      BY <3>1
  <2>2. service.merge = {} /\ service.changes = {}
    BY <1>11 DEF ServerDownload, Payloads
  <2>3. QED
    BY <1>11, <2>1, <2>2, DownloadFacts DEF ServerDownload, Payloads
<1>12. CASE ReceiveRows
  <2>1. PICK given \in SUBSET Fields :
          LET rows == Received(given)
              found == Conflicts(service.snapshot, rows)
          IN /\ service.phase = "answer" /\ service'.phase = "merge"
             /\ service'.snapshot = Idle.snapshot /\ service'.changes = service.changes
             /\ service'.rows = rows /\ rows \in [Items -> Row]
             /\ service'.conflicts = found
             /\ service'.open \subseteq found
             /\ service'.merge = {i \in Items : rows[i].content # 0}
    BY <1>12, ReceiveFacts
  <2>2. \A i \in Items : Received(given)[i].content \in stored \cup {0}
    BY DEF Received, Payloads
  <2>3. \A c \in service'.conflicts : c.theirs.content \in stored
    <3>1. service.snapshot \in [Items -> Record]
      BY DEF Types, Service
    <3>2. QED
      BY <2>1, <2>2, <3>1, ConflictsType
  <2>4. service.changes = {}
    BY <2>1 DEF Payloads
  <2>5. QED
    BY <1>12, <2>1, <2>2, <2>3, <2>4 DEF ReceiveRows, Payloads
<1>13. CASE AutoResolveOne
  <2>1. /\ service'.snapshot = service.snapshot /\ service'.changes = service.changes
        /\ service'.merge = service.merge /\ service'.rows = service.rows
        /\ service'.phase = service.phase
        /\ service'.conflicts \subseteq service.conflicts
        /\ service'.open \subseteq service'.conflicts
    BY <1>13 DEF AutoResolveOne, Types, Service, Payloads
  <2>2. QED
    BY <1>13, <2>1 DEF AutoResolveOne, Payloads
<1>14. ASSUME NEW i \in Items, MergeOne(i) PROVE Payloads'
  <2>1. /\ service'.merge = service.merge \ {i} /\ service'.phase = "merge"
        /\ service'.snapshot = service.snapshot /\ service'.changes = service.changes
        /\ service'.conflicts = service.conflicts /\ service'.open = service.open
        /\ service.phase = "merge"
    BY <1>14, MergeFacts
  <2>2. UNCHANGED <<server, stored, reported, editing, edits>> /\ service.merge \subseteq Items
    BY <1>14 DEF MergeOne, Types, Service
  <2>3. \A j \in Items : /\ service'.rows[j] = IF j = i THEN NoRow ELSE service.rows[j]
                         /\ records'[j].content = IF j = i THEN service.rows[i].content
                                                          ELSE records[j].content
    <3>1. \A j \in Items : /\ service'.rows[j] = IF j = i THEN NoRow ELSE service.rows[j]
                           /\ records'[j] = IF j = i THEN Merged(i) ELSE records[j]
      BY <1>14, MergeFacts
    <3>2. Merged(i).content = service.rows[i].content
      BY DEF Merged
    <3>3. QED
      BY <3>1, <3>2
  <2>4. held' = held \cup {service.rows[i].content}
    BY <1>14, MergeFacts
  <2>5. \A j \in Items : /\ records'[j].content \in held' \cup {0}
                         /\ service'.rows[j].content \in stored' \cup {0}
    BY <2>2, <2>3, <2>4 DEF Payloads
  <2>6. QED
    BY <2>1, <2>2, <2>3, <2>4, <2>5 DEF Payloads
<1>15. CASE FinishCycle
  BY <1>15 DEF FinishCycle, Payloads
<1>16. CASE FailCycle
  BY <1>16 DEF FailCycle, Released, Payloads
<1>17. CASE ReadLocal
  <2>1. CASE service.phase = "readConnections" /\ ReadRecords(Connections, "readQueries")
    BY <1>9, <2>1 DEF Items, Payloads
  <2>2. CASE service.phase = "readQueries" /\ ReadRecords(Queries, "upload")
    <3>1. service.changes \cap Queries = {}
      BY <2>2, SyncServiceAssumption DEF Payloads
    <3>2. QED
      BY <1>9, <2>2, <3>1 DEF Items
  <2>3. QED
    BY <1>17, <2>1, <2>2 DEF ReadLocal
<1>18. ASSUME NEW i \in Items, CreateQuery(i) PROVE Payloads'
  <2>1. NewPayload(i) /\ PutRecord(i, Edited(i, NoRecord))
    BY <1>18 DEF CreateQuery
  <2>2. edits' = edits + 1 /\ edits \in Nat /\ UNCHANGED editing
    BY <1>18, <2>1, NewPayloadFacts DEF CreateQuery
  <2>3. editing'.item # {} => editing'.record.content \in 1 .. edits'
    BY <2>2 DEF Payloads
  <2>4. Edited(i, NoRecord) \in Record
    BY EditedFacts
  <2>5. \A j \in Items : records'[j].content \in held' \cup {0}
    BY <2>1, <2>4, PutFacts DEF Payloads
  <2>6. held \subseteq held'
    BY <2>1 DEF PutRecord
  <2>7. QED
    BY <1>18, <2>2, <2>3, <2>5, <2>6 DEF CreateQuery, Payloads
<1>19. QED
  BY <1>1, <1>2, <1>3, <1>4, <1>5, <1>6, <1>7, <1>8, <1>10, <1>11, <1>12, <1>13, <1>14,
     <1>15, <1>16, <1>17, <1>18, Zenon DEF Next, Cycle

(***************************************************************************)
(* The histories only grow, and a row that changes is saved now.           *)
(***************************************************************************)
LEMMA Growth ==
    ASSUME Types, Next
    PROVE  /\ stored \subseteq stored' /\ refused \subseteq refused' /\ held \subseteq held'
           /\ suspicious \subseteq suspicious' /\ now <= now'
           /\ \A i \in Items : skipped[i] \subseteq skipped'[i]
           /\ \A i \in Items : server'[i] = server[i] \/ server'[i].updatedAt = now
<1>1. \A i \in Items : skipped[i] \subseteq skipped'[i]
  <2>1. CASE ReceiveRows
    BY <2>1 DEF ReceiveRows, Types
  <2>2. CASE ~ReceiveRows
    BY <2>2 DEF Next, Cycle, Tick, BeginEdit, CreateQuery, Delete, RemoteEdit, PutEdit,
         ResetCursor, ApplyRemoteVersion, StartCycle, ReadLocal, ReadRecords, ServerUpload,
         ServerDownload, AutoResolveOne, MergeOne, FinishCycle, FailCycle
  <2>3. QED
    BY <2>1, <2>2
<1>2. suspicious \subseteq suspicious' /\ now <= now'
  <2>1. now' = now \/ now' = now + 1
    BY DEF Next, Cycle, Tick, BeginEdit, CreateQuery, Delete, RemoteEdit, PutEdit,
         ResetCursor, ApplyRemoteVersion, StartCycle, ReadLocal, ReadRecords, ServerUpload,
         ServerDownload, ReceiveRows, AutoResolveOne, MergeOne, FinishCycle, FailCycle
  <2>2. now <= now'
    BY <2>1 DEF Types
  <2>3. CASE \E i \in Items : NewPayload(i)
    BY <2>2, <2>3 DEF NewPayload
  <2>4. CASE ~\E i \in Items : NewPayload(i)
    BY <2>2, <2>4 DEF Next, Cycle, Tick, BeginEdit, CreateQuery, Delete, RemoteEdit, PutEdit,
         ResetCursor, ApplyRemoteVersion, StartCycle, ReadLocal, ReadRecords, ServerUpload,
         ServerDownload, ReceiveRows, AutoResolveOne, MergeOne, FinishCycle, FailCycle
  <2>5. QED
    BY <2>3, <2>4
<1>3. ASSUME NEW i \in Items, RemoteEdit(i)
      PROVE  \A j \in Items : server'[j] = server[j] \/ server'[j].updatedAt = now
  BY <1>3 DEF RemoteEdit, Types
<1>4. CASE ServerUpload
  <2>1. \A i \in Items : Uploaded(i).updatedAt = now
    BY DEF Uploaded
  <2>2. \A i \in Items : server'[i] = server[i] \/ server'[i] = Uploaded(i)
    BY <1>4, UploadFacts
  <2>3. stored \subseteq stored' /\ refused \subseteq refused'
    BY <1>4, UploadFacts
  <2>4. QED
    BY <1>1, <1>2, <1>4, <2>1, <2>2, <2>3 DEF ServerUpload
<1>5. CASE ~ServerUpload /\ ~\E i \in Items : RemoteEdit(i)
  <2>1. UNCHANGED <<server, refused>> /\ stored' = stored
    BY <1>5 DEF Next, Cycle, Tick, BeginEdit, CreateQuery, Delete, PutEdit, ResetCursor,
         ApplyRemoteVersion, StartCycle, ReadLocal, ReadRecords, ServerDownload, ReceiveRows,
         AutoResolveOne, MergeOne, FinishCycle, FailCycle
  <2>2. held \subseteq held'
    BY <1>5 DEF Next, Cycle, Tick, BeginEdit, CreateQuery, Delete, PutEdit, PutRecord,
         ResetCursor, ApplyRemoteVersion, StartCycle, ReadLocal, ReadRecords, ServerDownload,
         ReceiveRows, AutoResolveOne, MergeOne, FinishCycle, FailCycle
  <2>3. QED
    BY <1>1, <1>2, <2>1, <2>2
<1>6. QED
  BY <1>1, <1>2, <1>3, <1>4, <1>5 DEF RemoteEdit

(***************************************************************************)
(* Where the cursors come from.                                            *)
(***************************************************************************)
LEMMA ListedGrows ==
    ASSUME Types, Types', Next
    PROVE  Listed \subseteq Listed'
<1>1. now \in Nat /\ now' \in Nat /\ now <= now'
  BY Growth DEF Types
<1>2. \A i \in Items : skipped[i] \subseteq skipped'[i]
  BY Growth
<1>3. QED
  BY <1>1, <1>2 DEF Listed

(***************************************************************************)
(* The cursor that a cycle takes from its answer has been skipped to.      *)
(***************************************************************************)
LEMMA CursorListed ==
    ASSUME Types, Types', Times, ReceiveRows
    PROVE  service'.timestamp \in Listed'
<1>1. PICK given \in SUBSET Fields :
         /\ service.phase = "answer" /\ service'.timestamp = Cursor(given)
         /\ skipped' = [i \in Items |-> skipped[i] \cup Unseen(i, given)]
  BY ReceiveFacts
<1>2. UNCHANGED now /\ now \in Nat
  BY DEF ReceiveRows, Types
<1>3. /\ service.timestamp \in 1 .. now /\ service.since <= service.timestamp
      /\ service.since \in Listed \cup {0} /\ service.since \in Nat
  BY <1>1 DEF Times, Types, Service
<1>4. Cursor(given) \in 1 .. now /\ service.timestamp <= Cursor(given)
  BY <1>2, <1>3 DEF Cursor
<1>5. ASSUME NEW i \in Items PROVE Cursor(given) \in skipped'[i]
  <2>1. CASE Cursor(given) >= service.since + 1
    BY <1>1, <1>3, <1>4, <2>1 DEF Unseen, Cursor
  <2>2. CASE Cursor(given) = service.since
    BY <1>1, <1>3, <1>4, <2>2 DEF Listed
  <2>3. QED
    BY <1>3, <1>4, <2>1, <2>2
<1>6. QED
  BY <1>1, <1>2, <1>4, <1>5 DEF Listed

LEMMA NextTimes == Types /\ Types' /\ Times /\ Next => Times'
<1> SUFFICES ASSUME Types, Types', Times, Next PROVE Times'
  OBVIOUS
<1> USE IdleFacts
<1>1. Listed \subseteq Listed' /\ (1 .. now) \subseteq (1 .. now')
  <2>1. now \in Nat /\ now' \in Nat /\ now <= now'
    BY Growth DEF Types
  <2>2. QED
    BY <2>1, ListedGrows
<1>2. CASE UNCHANGED <<service, lastSync>>
  BY <1>1, <1>2 DEF Times
<1>3. CASE ResetCursor
  <2>1. service.since \in Nat
    BY DEF Types, Service
  <2>2. UNCHANGED service /\ lastSync' = 0
    BY <1>3 DEF ResetCursor
  <2>3. QED
    BY <1>1, <2>1, <2>2 DEF Times
<1>4. CASE StartCycle
  <2>1. /\ service'.since = lastSync /\ UNCHANGED lastSync
        /\ service'.phase = "readConnections"
    BY <1>4 DEF StartCycle, Service
  <2>2. QED
    BY <1>1, <2>1 DEF Times, Types
<1>5. CASE ReadLocal
  <2>1. /\ service'.since = service.since
        /\ service.phase \in {"readConnections", "readQueries"}
        /\ service'.phase \notin {"answer", "merge"}
        /\ UNCHANGED lastSync
    BY <1>5, ReadPhases
  <2>2. QED
    BY <1>1, <2>1 DEF Times
<1>6. CASE ServerUpload
  <2>1. UNCHANGED lastSync
    BY <1>6 DEF ServerUpload
  <2>2. QED
    BY <1>1, <1>6, <2>1, UploadFacts DEF Times
<1>7. CASE ServerDownload
  <2>1. UNCHANGED <<lastSync, now>>
    BY <1>7 DEF ServerDownload
  <2>2. /\ service'.phase = "answer" /\ service'.timestamp = now
        /\ service'.since \in {service.since, lastSync}
    BY <1>7, DownloadFacts
  <2>3. service'.since \in Listed \cup {0} /\ now \in Nat \ {0}
    BY <2>2 DEF Times, Types
  <2>4. service'.since <= service'.timestamp /\ service'.timestamp \in 1 .. now
    BY <2>2, <2>3 DEF Listed
  <2>5. QED
    BY <1>1, <2>1, <2>2, <2>3, <2>4 DEF Times
<1>8. CASE ReceiveRows
  <2>1. service'.since = 0 /\ service'.phase = "merge"
    BY <1>8, ReceiveFacts
  <2>2. UNCHANGED lastSync
    BY <1>8 DEF ReceiveRows
  <2>3. QED
    BY <1>1, <1>8, <2>1, <2>2, CursorListed DEF Times
<1>9. CASE AutoResolveOne
  <2>1. /\ service'.since = service.since /\ service'.timestamp = service.timestamp
        /\ service'.phase = service.phase
        /\ UNCHANGED lastSync
    BY <1>9 DEF AutoResolveOne, Types, Service
  <2>2. QED
    BY <1>1, <2>1 DEF Times
<1>10. ASSUME NEW i \in Items, MergeOne(i) PROVE Times'
  <2>1. /\ service'.since = service.since /\ service'.timestamp = service.timestamp
        /\ service'.phase = "merge" /\ service.phase = "merge"
    BY <1>10, MergeFacts
  <2>2. UNCHANGED lastSync
    BY <1>10 DEF MergeOne
  <2>3. QED
    BY <1>1, <2>1, <2>2 DEF Times
<1>11. CASE FinishCycle
  <2>1. /\ service.phase = "merge" /\ lastSync' = service.timestamp /\ service' = Idle
    BY <1>11 DEF FinishCycle
  <2>2. QED
    BY <1>1, <2>1 DEF Times
<1>12. CASE FailCycle
  <2>1. UNCHANGED lastSync /\ service' = Idle
    BY <1>12 DEF FailCycle, Released
  <2>2. QED
    BY <1>1, <2>1 DEF Times
<1>13. QED
  BY <1>2, <1>3, <1>4, <1>5, <1>6, <1>7, <1>8, <1>9, <1>10, <1>11, <1>12
     DEF Next, Cycle, Tick, BeginEdit, CreateQuery, Delete, RemoteEdit, PutEdit,
         ApplyRemoteVersion

(***************************************************************************)
(* What is below a cursor stays on the device: a row saved from now on is  *)
(* newer, or as old as the cursor and skipped.                             *)
(***************************************************************************)
LEMMA CoveredKept ==
    ASSUME Types, Types', Next, NEW t \in Listed \cup {0}, Covered(t)
    PROVE  \A i \in Items :
              /\ server'[i].content # 0 /\ server'[i].updatedAt <= t
              /\ server'[i].updatedAt \notin skipped'[i]
              => server'[i].content \in held'
<1> SUFFICES ASSUME NEW i \in Items,
                    server'[i].content # 0, server'[i].updatedAt <= t,
                    server'[i].updatedAt \notin skipped'[i]
             PROVE  server'[i].content \in held'
  OBVIOUS
<1>1. CASE server'[i] = server[i]
  BY <1>1, Growth DEF Covered
<1>2. CASE server'[i].updatedAt = now
  <2>1. now \in Nat \ {0} /\ t \in (1 .. now) \cup {0}
    BY DEF Types, Listed
  <2>2. now = t /\ t # 0
    BY <1>2, <2>1
  <2>3. now \in skipped[i]
    BY <2>2 DEF Listed
  <2>4. QED
    BY <1>2, <2>3, Growth
<1>3. QED
  BY <1>1, <1>2, Growth

LEMMA NextCursors == Types /\ Types' /\ Payloads /\ Times /\ Cursors /\ Next => Cursors'
<1> SUFFICES ASSUME Types, Types', Payloads, Times, Cursors, Next PROVE Cursors'
  OBVIOUS
<1> USE IdleFacts
<1> DEFINE Kept(t) == \A i \in Items :
              /\ server'[i].content # 0 /\ server'[i].updatedAt <= t
              /\ server'[i].updatedAt \notin skipped'[i]
              => server'[i].content \in held'
<1>1. Kept(lastSync)
  BY CoveredKept DEF Cursors, Times
<1>2. service.phase \in {"download", "answer"} => Kept(service.since)
  BY CoveredKept DEF Cursors, Times
<1>3. Covered(lastSync)'
  <2>1. CASE UNCHANGED lastSync
    BY <1>1, <2>1 DEF Covered
  <2>2. CASE ResetCursor
    <3>1. \A i \in Items : server'[i].updatedAt \in Nat /\ lastSync \in Nat
      BY DEF Types, Row
    <3>2. lastSync' = 0
      BY <2>2 DEF ResetCursor
    <3>3. \A i \in Items : server'[i].updatedAt <= 0 => server'[i].updatedAt <= lastSync
      BY <3>1
    <3>4. QED
      BY <1>1, <3>2, <3>3 DEF Covered
  <2>3. CASE FinishCycle
    <3>1. Arriving /\ service.phase = "merge" /\ service.merge = {}
          /\ lastSync' = service.timestamp
          /\ UNCHANGED <<server, skipped, held>>
      BY <2>3 DEF FinishCycle, Cursors
    <3>2. QED
      BY <3>1 DEF Arriving, Covered
  <2>4. QED
    BY <2>1, <2>2, <2>3 DEF Next, Cycle, Tick, BeginEdit, CreateQuery, Delete, RemoteEdit,
         PutEdit, ApplyRemoteVersion, StartCycle, ReadLocal, ReadRecords, ServerUpload,
         ServerDownload, ReceiveRows, AutoResolveOne, MergeOne, FailCycle
<1> HIDE DEF Kept
<1>4. ASSUME UNCHANGED service PROVE Cursors'
  <2>1. service'.phase \in {"download", "answer"} => Covered(service.since)'
    BY <1>2, <1>4 DEF Covered, Kept
  <2>2. ASSUME service'.phase = "answer" PROVE Answered'
    <3> SUFFICES ASSUME NEW i \in Items, server'[i].content # 0,
                        server'[i].updatedAt < service.timestamp,
                        server'[i].updatedAt \notin skipped'[i]
                 PROVE  \/ server'[i].content \in held'
                        \/ service.rows[i].content = server'[i].content
      BY <1>4 DEF Answered
    <3>1. Answered /\ service.timestamp \in 1 .. now /\ now \in Nat
      BY <1>4, <2>2 DEF Cursors, Times, Types
    <3>2. server'[i] = server[i]
      BY <3>1, Growth
    <3>3. server[i].updatedAt \notin skipped[i] /\ held \subseteq held'
      BY <3>2, Growth
    <3>4. QED
      BY <3>1, <3>2, <3>3 DEF Answered
  <2>3. ASSUME service'.phase = "merge" PROVE Arriving'
    <3> SUFFICES ASSUME NEW i \in Items, server'[i].content # 0,
                        server'[i].updatedAt <= service.timestamp,
                        server'[i].updatedAt \notin skipped'[i]
                 PROVE  \/ server'[i].content \in held'
                        \/ /\ service.rows[i].content = server'[i].content
                           /\ i \in service.merge
      BY <1>4 DEF Arriving
    <3>1. Arriving /\ service.timestamp \in Listed
      BY <1>4, <2>3 DEF Cursors, Times
    <3>2. server'[i] = server[i]
      <4>1. CASE server'[i].updatedAt = now
        <5>1. now \in Nat /\ service.timestamp \in 1 .. now
          BY <3>1 DEF Types, Listed
        <5>2. now = service.timestamp
          BY <4>1, <5>1
        <5>3. QED
          BY <3>1, <4>1, <5>2, Growth DEF Listed
      <4>2. QED
        BY <4>1, Growth
    <3>3. server[i].updatedAt \notin skipped[i] /\ held \subseteq held'
      BY <3>2, Growth
    <3>4. QED
      BY <3>1, <3>2, <3>3 DEF Arriving
  <2>4. QED
    BY <1>3, <2>1, <2>2, <2>3 DEF Cursors
<1>5. CASE StartCycle
  <2>1. service'.phase = "readConnections"
    BY <1>5 DEF StartCycle, Service
  <2>2. QED
    BY <1>3, <2>1 DEF Cursors
<1>6. CASE ReadLocal
  <2>1. service'.phase \in {"readQueries", "upload"}
    BY <1>6, ReadPhases
  <2>2. QED
    BY <1>3, <2>1 DEF Cursors
<1>7. CASE ServerUpload
  <2>1. service'.phase = "download" /\ service'.since = lastSync
    BY <1>7, UploadFacts
  <2>2. Covered(service.since)'
    BY <1>1, <2>1 DEF Covered, Kept
  <2>3. QED
    BY <1>3, <2>1, <2>2 DEF Cursors
<1>8. CASE ServerDownload
  <2>1. /\ service'.phase = "answer" /\ service.phase = "download"
        /\ service'.since \in {service.since, lastSync}
        /\ service'.rows = [i \in Items |-> IF server[i].updatedAt > service'.since
                                            THEN server[i] ELSE NoRow]
        /\ service'.timestamp = now
    BY <1>8, DownloadFacts
  <2>2. Kept(service'.since)
    BY <1>1, <1>2, <2>1
  <2>3. UNCHANGED server /\ service'.since \in Nat /\ service'.timestamp \in Nat
        /\ \A i \in Items : server[i].updatedAt \in Nat
    BY <1>8, <2>1 DEF ServerDownload, Types, Service, Row
  <2>4. \A i \in Items : server[i].updatedAt > service'.since => service'.rows[i] = server[i]
    BY <2>1
  <2>5. Answered'
    BY <2>2, <2>3, <2>4 DEF Answered, Kept
  <2>6. Covered(service.since)'
    BY <2>2 DEF Covered, Kept
  <2>7. QED
    BY <1>3, <2>1, <2>5, <2>6 DEF Cursors
<1>9. CASE ReceiveRows
  <2>1. PICK given \in SUBSET Fields :
          /\ service.phase = "answer" /\ service'.phase = "merge"
          /\ service'.timestamp = Cursor(given)
          /\ service'.rows = Received(given)
          /\ service'.merge = {i \in Items : Received(given)[i].content # 0}
          /\ skipped' = [i \in Items |-> skipped[i] \cup Unseen(i, given)]
    BY <1>9, ReceiveFacts
  <2>2. UNCHANGED <<server, held>>
    BY <1>9 DEF ReceiveRows
  <2>3. Answered /\ Covered(service.since)
    BY <2>1 DEF Cursors
  <2>4. Arriving'
    <3> SUFFICES ASSUME NEW i \in Items, server[i].content # 0,
                        server[i].updatedAt <= Cursor(given),
                        server[i].updatedAt \notin skipped[i],
                        server[i].updatedAt \notin Unseen(i, given)
                 PROVE  \/ server[i].content \in held
                        \/ /\ Received(given)[i].content = server[i].content
                           /\ Received(given)[i].content # 0
      BY <2>1, <2>2 DEF Arriving
    <3>1. /\ server[i].updatedAt \in Nat /\ service.timestamp \in Nat
          /\ service.since \in Nat /\ now \in Nat
      BY DEF Types, Service, Row
    <3>2. CASE ListOf(i) \in given
      <4>1. server[i].updatedAt < service.timestamp
        BY <3>1, <3>2 DEF Unseen, Cursor
      <4>2. Received(given)[i] = service.rows[i]
        BY <3>2 DEF Received
      <4>3. QED
        BY <2>3, <4>1, <4>2 DEF Answered
    <3>3. CASE ListOf(i) \notin given
      <4>1. server[i].updatedAt <= service.since
        BY <3>1, <3>3 DEF Unseen, Cursor
      <4>2. QED
        BY <2>3, <4>1 DEF Covered
    <3>4. QED
      BY <3>2, <3>3
  <2>5. QED
    BY <1>3, <2>1, <2>4 DEF Cursors
<1>10. CASE AutoResolveOne
  <2>1. /\ service'.timestamp = service.timestamp /\ service'.rows = service.rows
        /\ service.phase = "merge" /\ service'.phase = "merge"
        /\ service'.merge = service.merge
        /\ UNCHANGED <<server, held, skipped>>
    BY <1>10 DEF AutoResolveOne, Types, Service
  <2>2. Arriving'
    BY <2>1 DEF Arriving, Cursors
  <2>3. QED
    BY <1>3, <2>1, <2>2 DEF Cursors
<1>11. ASSUME NEW i \in Items, MergeOne(i) PROVE Cursors'
  <2>1. /\ service'.timestamp = service.timestamp
        /\ service'.phase = "merge" /\ service.phase = "merge"
        /\ service'.merge = service.merge \ {i}
        /\ held' = held \cup {service.rows[i].content}
    BY <1>11, MergeFacts
  <2>2. \A j \in Items \ {i} : service'.rows[j] = service.rows[j]
    BY <1>11, MergeFacts
  <2>3. UNCHANGED <<server, skipped>>
    BY <1>11 DEF MergeOne
  <2>4. Arriving'
    BY <2>1, <2>2, <2>3 DEF Arriving, Cursors
  <2>5. QED
    BY <1>3, <2>1, <2>4 DEF Cursors
<1>12. CASE FinishCycle \/ FailCycle
  <2>1. service' = Idle
    BY <1>12 DEF FinishCycle, FailCycle, Released
  <2>2. QED
    BY <1>3, <2>1 DEF Cursors
<1>13. QED
  BY <1>4, <1>5, <1>6, <1>7, <1>8, <1>9, <1>10, <1>11, <1>12
     DEF Next, Cycle, Tick, BeginEdit, CreateQuery, Delete, RemoteEdit, PutEdit,
         ApplyRemoteVersion, ResetCursor

(***************************************************************************)
(* A payload that was not offered is not lost sight of.                    *)
(***************************************************************************)
LEMMA NextPending == Types /\ Types' /\ Payloads /\ Times /\ Pending /\ Next => Pending'
<1> SUFFICES ASSUME Types, Types', Payloads, Times, Pending, Next,
                    NEW i \in Items, Unoffered(i)'
             PROVE  PendingAt(i)'
  BY DEF Pending
<1> USE IdleFacts
<1>1. records'[i] = records[i] => Unoffered(i) /\ PendingAt(i)
  BY Growth DEF Unoffered, Pending
<1>2. ASSUME records'[i] = records[i], UNCHANGED <<service, lastSync>>,
             i \in raced' <=> i \in raced
      PROVE  PendingAt(i)'
  BY <1>1, <1>2 DEF PendingAt, Past, Changed
<1>3. ASSUME records'[i] = records[i], lastSync' \in Nat, lastSync' <= lastSync,
             UNCHANGED <<raced>>, service'.phase \in {"idle", "readConnections"},
             service'.phase = "readConnections" =>
                service'.since = lastSync' \/ service' = service
      PROVE  PendingAt(i)'
  <2>1. Changed(records[i], lastSync) => Changed(records[i], lastSync')
    <3>1. records[i].updatedAt \in Nat /\ lastSync \in Nat
      BY DEF Types, Record
    <3>2. QED
      BY <1>3, <3>1 DEF Changed
  <2>2. ~Past(i)'
    BY <1>3 DEF Past
  <2>3. i \in Connections \ raced => Changed(records[i], lastSync')
    BY <1>1, <1>3, <2>1 DEF PendingAt
  <2>4. i \in Connections \ raced /\ service'.phase = "readConnections" =>
           Changed(records[i], service'.since)
    BY <1>1, <1>3, <2>3 DEF PendingAt
  <2>5. QED
    BY <1>1, <1>3, <2>2, <2>3, <2>4 DEF PendingAt
<1>4. ASSUME NEW j \in Items, Delete(j) PROVE PendingAt(i)'
  <2>1. CASE i = j
    <3>1. records'[i].content = 0
      BY <1>4, <2>1 DEF Delete, Types
    <3>2. QED
      BY <3>1 DEF Unoffered
  <2>2. CASE i # j
    <3>1. records'[i] = records[i] /\ UNCHANGED <<service, lastSync, raced>>
      BY <1>4, <2>2 DEF Delete, Types
    <3>2. QED
      BY <1>2, <3>1
  <2>3. QED
    BY <2>1, <2>2
<1>5. ASSUME NEW c \in reported, ApplyRemoteVersion(c) PROVE PendingAt(i)'
  <2>1. CASE i = c.item
    <3>1. records'[i].content = c.theirs.content /\ c.theirs.content \in stored
      BY <1>5, <2>1 DEF ApplyRemoteVersion, Types, Payloads
    <3>2. QED
      BY <3>1, Growth DEF Unoffered
  <2>2. CASE i # c.item
    <3>1. records'[i] = records[i] /\ UNCHANGED <<service, lastSync, raced>>
      BY <1>5, <2>2 DEF ApplyRemoteVersion, Types
    <3>2. QED
      BY <1>2, <3>1
  <2>3. QED
    BY <2>1, <2>2
<1>6. ASSUME NEW j \in Items, NEW record \in Record, PutRecord(j, record),
             j \in Queries => ~record.synced, record.content # 0,
             UNCHANGED <<service, lastSync>>
      PROVE  PendingAt(i)'
  <2>1. /\ \A k \in Items : records'[k] = IF k = j THEN record ELSE records[k]
        /\ raced \subseteq raced' /\ raced' \subseteq raced \cup {j}
        /\ Past(j) => j \in raced'
        /\ j \in Connections \ raced' =>
              record.updatedAt > lastSync /\ record.updatedAt > service.since
    BY <1>6, PutFacts
  <2>2. CASE i # j
    <3>1. records'[i] = records[i] /\ (i \in raced' <=> i \in raced)
      BY <2>1, <2>2
    <3>2. QED
      BY <1>2, <1>6, <3>1
  <2>3. CASE i = j
    <3>1. records'[i] = record
      BY <2>1, <2>3
    <3>2. i \in Queries => ~records'[i].synced
      BY <1>6, <2>3, <3>1
    <3>3. Past(i) => i \in raced'
      BY <2>1, <2>3
    <3>4. Past(i)' <=> Past(i)
      BY <1>6 DEF Past
    <3>5. i \in Connections \ raced' =>
             /\ Changed(records'[i], lastSync') /\ Changed(records'[i], service'.since)
      BY <1>6, <2>1, <2>3, <3>1 DEF Changed
    <3>6. service'.phase \in {"download", "answer", "merge"} => i \in raced'
      BY <1>6, <3>3 DEF Past
    <3>7. QED
      BY <1>6, <3>2, <3>3, <3>4, <3>5, <3>6 DEF PendingAt
  <2>4. QED
    BY <2>2, <2>3
<1>7. CASE ResetCursor
  <2>1. /\ records'[i] = records[i] /\ lastSync' = 0 /\ UNCHANGED <<service, raced>>
    BY <1>7 DEF ResetCursor
  <2>2. Changed(records[i], lastSync) => Changed(records[i], 0)
    <3>1. records[i].updatedAt \in Nat /\ lastSync \in Nat
      BY DEF Types, Record
    <3>2. QED
      BY <3>1 DEF Changed
  <2>3. QED
    BY <1>1, <2>1, <2>2 DEF PendingAt, Past
<1>8. CASE StartCycle
  <2>1. /\ records'[i] = records[i] /\ UNCHANGED <<lastSync, raced>>
        /\ service'.phase = "readConnections" /\ service'.since = lastSync'
    BY <1>8 DEF StartCycle, Service
  <2>2. QED
    BY <1>3, <2>1 DEF Types
<1>9. CASE ReadLocal
  <2>1. /\ records'[i] = records[i] /\ UNCHANGED <<lastSync>>
        /\ service'.since = service.since /\ lastSync <= service.since
        /\ lastSync \in Nat /\ service.since \in Nat /\ records[i].updatedAt \in Nat
    BY <1>9, ReadPhases DEF Times, Types, Service, Record
  <2>2. Changed(records[i], service.since) => Changed(records[i], lastSync)
    BY <2>1 DEF Changed
  <2>3. records[i].content # 0
    BY <1>1, <2>1 DEF Unoffered
  <2>7. records[i].content \notin suspicious
    BY <1>1, <2>1 DEF Unoffered
  <2>4. CASE service.phase = "readConnections" /\ ReadRecords(Connections, "readQueries")
    <3>1. Connections \in SUBSET Items
      BY DEF Items
    <3>2. /\ service'.phase = "readQueries" /\ raced' = raced \ Taken(Connections)
          /\ service'.changes = service.changes \cup ToSend(Connections)
      BY <2>4, <3>1, ReadFacts
    <3>3. i \in Connections => service'.snapshot[i] = records[i]
      BY <2>4, <3>1, ReadFacts
    <3>4. i \in Connections \ raced => i \in Taken(Connections)
      BY <1>1, <2>1, <2>4 DEF PendingAt, Taken
    <3>5. i \in Connections \ raced' => i \in Taken(Connections)
      BY <3>2, <3>4
    <3>6. i \in Connections \ raced' => Changed(records[i], lastSync)
      BY <2>2, <3>5 DEF Taken
    <3>9. i \in Connections \ raced' => i \in ToSend(Connections)
      BY <2>7, <3>5 DEF ToSend, Passed
    <3>7. Past(i)' => i \in Connections
      BY <3>2 DEF Past
    <3>8. QED
      BY <1>1, <2>1, <3>2, <3>3, <3>6, <3>7, <3>9 DEF PendingAt
  <2>5. CASE service.phase = "readQueries" /\ ReadRecords(Queries, "upload")
    <3>1. Queries \in SUBSET Items
      BY DEF Items
    <3>2. /\ service'.phase = "upload" /\ raced' = raced \ Taken(Queries)
          /\ service'.changes = service.changes \cup ToSend(Queries)
      BY <2>5, <3>1, ReadFacts
    <3>3. service'.snapshot[i] = IF i \in Queries THEN records[i] ELSE service.snapshot[i]
      BY <2>5, <3>1, ReadFacts
    <3>4. i \in Queries => i \in ToSend(Queries)
      BY <1>1, <2>1, <2>3, <2>7 DEF PendingAt, ToSend, Taken, Passed, Changed
    <3>5. Taken(Queries) \cap Connections = {}
      BY SyncServiceAssumption DEF Taken
    <3>6. i \in Connections => (i \in raced' <=> i \in raced)
      BY <3>2, <3>5
    <3>7. i \in Connections => Past(i)
      BY <2>5 DEF Past
    <3>8. i \in Connections \ raced' =>
            /\ i \in service.changes /\ service.snapshot[i].content = records[i].content
            /\ Changed(records[i], lastSync)
      BY <1>1, <2>1, <3>6, <3>7 DEF PendingAt
    <3>9. i \notin raced' => i \in service'.changes
                            /\ service'.snapshot[i].content = records[i].content
      BY <3>2, <3>3, <3>4, <3>8, SyncServiceAssumption DEF Items
    <3>10. i \in Queries => ~records[i].synced
      BY <1>1, <2>1 DEF PendingAt
    <3>11. QED
      BY <2>1, <3>2, <3>8, <3>9, <3>10 DEF PendingAt
  <2>6. QED
    BY <1>9, <2>4, <2>5 DEF ReadLocal
<1>10. CASE ServerUpload
  <2>1. PICK kept \in SUBSET service.changes :
          /\ stored' = stored \cup {service.snapshot[j].content : j \in kept}
          /\ refused' = refused \cup {service.snapshot[j].content : j \in service.changes \ kept}
    BY <1>10, UploadFacts
  <2>2. records'[i] = records[i] /\ UNCHANGED <<lastSync, raced>> /\ service.phase = "upload"
    BY <1>10 DEF ServerUpload
  <2>3. i \in raced
    <3>1. SUFFICES ASSUME i \notin raced PROVE FALSE
      OBVIOUS
    <3>2. i \in service.changes /\ service.snapshot[i].content = records[i].content
      BY <1>1, <2>2, <3>1 DEF PendingAt, Past
    <3>3. records[i].content \in stored' \cup refused'
      BY <2>1, <3>2
    <3>4. QED
      BY <2>2, <3>3 DEF Unoffered
  <2>4. QED
    BY <1>1, <2>2, <2>3 DEF PendingAt
<1>11. ASSUME records'[i] = records[i], UNCHANGED raced,
              service.phase \in {"download", "answer", "merge"}
       PROVE  PendingAt(i)'
  BY <1>1, <1>11 DEF PendingAt
<1>12. CASE ServerDownload \/ ReceiveRows \/ AutoResolveOne \/ FinishCycle
  BY <1>11, <1>12 DEF ServerDownload, ReceiveRows, AutoResolveOne, FinishCycle
<1>13. ASSUME NEW j \in Items, MergeOne(j) PROVE PendingAt(i)'
  <2>1. CASE i = j
    <3>1. records'[i] = Merged(i) /\ i \in service.merge
      BY <1>13, <2>1, MergeFacts
    <3>2. service.rows[i].content \in stored
      BY <3>1 DEF Payloads
    <3>3. records'[i].content \in stored
      BY <3>1, <3>2 DEF Merged
    <3>4. QED
      BY <3>3, Growth DEF Unoffered
  <2>2. CASE i # j
    <3>1. records'[i] = records[i] /\ UNCHANGED raced /\ service.phase = "merge"
      BY <1>13, <2>2 DEF MergeOne, Types
    <3>2. QED
      BY <1>11, <3>1
  <2>3. QED
    BY <2>1, <2>2
<1>14. CASE FailCycle
  <2>1. records'[i] = records[i] /\ UNCHANGED <<lastSync, raced>> /\ service'.phase = "idle"
    BY <1>14 DEF FailCycle, Released
  <2>2. QED
    BY <1>3, <2>1 DEF Types
<1>15. ASSUME UNCHANGED <<records, service, lastSync, raced>> PROVE PendingAt(i)'
  BY <1>2, <1>15
<1>16. CASE Tick \/ \E j \in Items : BeginEdit(j) \/ RemoteEdit(j)
  BY <1>15, <1>16 DEF Tick, BeginEdit, RemoteEdit
<1>17. CASE PutEdit
  <2>1. PICK j \in editing.item : PutRecord(j, editing.record)
    BY <1>17 DEF PutEdit
  <2>2. /\ j \in Items /\ editing.record \in Record /\ editing.record.content # 0
        /\ j \in Queries => ~editing.record.synced
    BY DEF Types, Payloads, Editing
  <2>3. UNCHANGED <<service, lastSync>>
    BY <1>17 DEF PutEdit
  <2>4. QED
    BY <1>6, <2>1, <2>2, <2>3
<1>18. ASSUME NEW j \in Items, CreateQuery(j) PROVE PendingAt(i)'
  <2>1. PutRecord(j, Edited(j, NoRecord)) /\ j \in Queries /\ UNCHANGED <<service, lastSync>>
    BY <1>18 DEF CreateQuery
  <2>2. /\ Edited(j, NoRecord) \in Record /\ Edited(j, NoRecord).content # 0
        /\ ~Edited(j, NoRecord).synced
    BY <2>1, EditedFacts DEF Types
  <2>3. QED
    BY <1>6, <2>1, <2>2
<1>19. QED
  BY <1>4, <1>5, <1>7, <1>8, <1>9, <1>10, <1>12, <1>13, <1>14, <1>16, <1>17, <1>18, Zenon
     DEF Next, Cycle

(***************************************************************************)
(* The invariant is kept.                                                  *)
(***************************************************************************)
LEMMA StutterServiceInv == ServiceInv /\ UNCHANGED vars => ServiceInv'
<1> SUFFICES ASSUME ServiceInv, UNCHANGED vars PROVE ServiceInv'
  OBVIOUS
<1>1. Types' /\ Payloads' /\ Times'
  BY DEF ServiceInv, vars, Types, Payloads, Times, Listed
<1>2. Pending'
  BY DEF ServiceInv, vars, Pending, PendingAt, Unoffered, Past
<1>3. Cursors'
  BY DEF ServiceInv, vars, Cursors, Covered, Answered, Arriving
<1>4. QED
  BY <1>1, <1>2, <1>3 DEF ServiceInv

LEMMA NextServiceInv == ServiceInv /\ [Next]_vars => ServiceInv'
<1> SUFFICES ASSUME ServiceInv, Next PROVE ServiceInv'
  BY StutterServiceInv
<1>1. Types'
  BY NextTypes DEF ServiceInv
<1>2. Payloads' /\ Times'
  BY <1>1, NextPayloads, NextTimes DEF ServiceInv
<1>3. Pending' /\ Cursors'
  BY <1>1, NextPending, NextCursors DEF ServiceInv
<1>4. QED
  BY <1>1, <1>2, <1>3 DEF ServiceInv

(***************************************************************************)
(* Always: the variables have their types, payloads come from where they   *)
(* should, a cursor is a time that every list has skipped to, nothing      *)
(* unoffered is lost sight of, and the cursors pass nothing but what was   *)
(* skipped or is on the device (syncNow, getLocalChanges,                  *)
(* mergeRemoteChanges, the repositories).                                  *)
(***************************************************************************)
THEOREM ServiceInvariance == Spec => []ServiceInv
BY InitServiceInv, NextServiceInv, PTL DEF Spec

(***************************************************************************)
(* Type correctness of the cycle.                                          *)
(***************************************************************************)
THEOREM TypeCorrect == Spec => []TypeOK
<1>1. ServiceInv => TypeOK
  BY DEF ServiceInv, Types, Payloads, TypeOK, Service, Editing, Phases
<1>2. QED
  BY <1>1, ServiceInvariance, PTL

(***************************************************************************)
(* A payload that has not been offered to the server is taken up by the    *)
(* next cycle (getLocalChanges), but for a connection edited in the race   *)
(* with one and what the sanitizer keeps back.                             *)
(***************************************************************************)
THEOREM EditsPendingHolds == Spec => []EditsPending
<1>1. ServiceInv => EditsPending
  <2> SUFFICES ASSUME ServiceInv, NEW i \in Items,
                      records[i].content \notin stored \cup refused \cup suspicious \cup {0}
               PROVE  Changed(records[i], lastSync) \/ i \in Connections \cap raced
    BY DEF EditsPending
  <2>1. PendingAt(i)
    BY DEF ServiceInv, Pending, Unoffered
  <2>2. CASE i \in Queries
    BY <2>1, <2>2 DEF PendingAt, Changed
  <2>3. CASE i \in Connections
    BY <2>1, <2>3 DEF PendingAt
  <2>4. QED
    BY <2>2, <2>3 DEF Items
<1>2. QED
  BY <1>1, ServiceInvariance, PTL

(***************************************************************************)
(* The cursor (updateLastSyncTimestamp at the end of syncNow) passes no    *)
(* row that was not on the device, whichever step of whichever cycle       *)
(* failed, but for the times that the defaults of the answer skip.         *)
(***************************************************************************)
THEOREM NothingMissedHolds == Spec => []NothingMissed
<1>1. ServiceInv => NothingMissed
  BY DEF ServiceInv, Cursors, Covered, NothingMissed
<1>2. QED
  BY <1>1, ServiceInvariance, PTL

(***************************************************************************)
(* mergeRemoteChanges overwrites a payload the server never stored only    *)
(* when it was written behind the cycle's read, was kept back by the       *)
(* sanitizer, or was refused.                                              *)
(***************************************************************************)
THEOREM LostOnlyWhenRacedHolds == Spec => LostOnlyWhenRaced
<1> DEFINE OneStep ==
        \A i \in Items :
          /\ i \in service.merge \ service'.merge /\ service'.phase = "merge"
          /\ records[i].content \notin stored \cup {0}
          => i \in raced \/ records[i].content \in refused \cup suspicious
<1>1. ServiceInv /\ [Next]_vars => [OneStep]_vars
  <2> SUFFICES ASSUME ServiceInv, Next, NEW i \in Items,
                      i \in service.merge, i \notin service'.merge, service'.phase = "merge",
                      records[i].content \notin stored \cup {0},
                      records[i].content \notin refused \cup suspicious
               PROVE  i \in raced
    OBVIOUS
  <2>1. PendingAt(i)
    BY DEF ServiceInv, Pending, Unoffered
  <2>2. service.phase = "merge"
    BY DEF ServiceInv, Payloads
  <2>3. QED
    BY <2>1, <2>2 DEF PendingAt
<1>2. QED
  BY <1>1, ServiceInvariance, PTL DEF Spec, LostOnlyWhenRaced
=============================================================================
