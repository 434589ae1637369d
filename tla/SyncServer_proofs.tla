--------------------------- MODULE SyncServer_proofs ---------------------------
(***************************************************************************)
(* Proofs about SyncServer, for any set of devices and items, any clock    *)
(* resolution and either conflict strategy.                                *)
(***************************************************************************)
EXTENDS SyncServer, TLAPS

(***************************************************************************)
(* Dropping the fraction of a second yields a time, no later than the one  *)
(* it was taken from, and keeps the order of times.                        *)
(***************************************************************************)
LEMMA SecFacts ==
    ASSUME NEW s \in Nat, NEW t \in Nat
    PROVE  /\ Sec(t) \in Nat
           /\ Sec(t) <= t
           /\ s <= t => Sec(s) <= Sec(t)
<1> DEFINE n == TicksPerSecond
<1>1. n \in Nat /\ n > 0
  BY SyncServerAssumption
<1>2. (t \div n) \in Nat /\ (s \div n) \in Nat
  BY <1>1
<1>3. t \div n \in Nat /\ (t \div n) * n <= t /\ t < ((t \div n) + 1) * n
  BY <1>1
<1>4. QED
  BY <1>1, <1>2, <1>3 DEF Sec

(***************************************************************************)
(* The idle records are well typed.                                        *)
(***************************************************************************)
LEMMA IdleTypes ==
    /\ NoRow \in Row
    /\ Unknown \in Copy
    /\ NoUpload \in UploadRequest
    /\ NoDownload \in DownloadRequest
BY DEF NoRow, Row, Unknown, Copy, NoUpload, UploadRequest, NoDownload, DownloadRequest, Kinds

(***************************************************************************)
(* Going on to the next change of a request keeps the request well typed.  *)
(***************************************************************************)
LEMMA AdvanceType ==
    ASSUME NEW u \in UploadRequest, NEW todo \in SUBSET Items
    PROVE  Advance(u, todo) \in UploadRequest
BY IdleTypes DEF Advance, UploadRequest

(***************************************************************************)
(* The row a change leaves behind is well typed.                           *)
(***************************************************************************)
LEMMA RowAfterType ==
    ASSUME TypeOK, NEW d \in Devices, NEW i \in Items, NEW stamp \in Nat
    PROVE  RowAfter(d, i, stamp) \in Row
<1>1. /\ table[i] \in Row /\ up[d] \in UploadRequest /\ up[d].sent[i] \in Copy
  BY DEF TypeOK, UploadRequest
<1>2. CASE i \in up[d].deletes
  <2>1. [table[i] EXCEPT !.deleted = TRUE, !.updatedAt = stamp] \in Row
    BY <1>1 DEF Row
  <2>2. QED
    BY <1>2, <2>1 DEF RowAfter
<1>3. CASE i \notin up[d].deletes
  <2> DEFINE version == IF i \in History THEN up[d].sent[i].version
                                         ELSE up[d].sent[i].version + 2
  <2>1. up[d].sent[i].content \in Nat /\ version \in Nat
    BY <1>1 DEF Copy
  <2>2. RowAfter(d, i, stamp) = [content |-> up[d].sent[i].content, version |-> version,
                                 updatedAt |-> stamp, deleted |-> FALSE]
    BY <1>3 DEF RowAfter
  <2> HIDE DEF version
  <2>3. QED
    BY <2>1, <2>2 DEF Row
<1>4. QED
  BY <1>2, <1>3

(***************************************************************************)
(* A time stamp is a time.                                                 *)
(***************************************************************************)
LEMMA StampType ==
    ASSUME TypeOK, NEW d \in Devices, NEW i \in Items, NEW stamp \in Stamps(d, i)
    PROVE  stamp \in Nat
<1>1. /\ up[d].sent[i].at \in Nat /\ up[d].since \in Nat /\ now \in Nat
  BY DEF TypeOK, UploadRequest, Copy
<1>2. QED
  BY <1>1, SecFacts DEF Stamps

LEMMA InitTypeOK == Init => TypeOK
<1> SUFFICES ASSUME Init PROVE TypeOK
  OBVIOUS
<1>1. 2 * TicksPerSecond - 1 \in Nat
  BY SyncServerAssumption
<1>2. QED
  BY <1>1, IdleTypes DEF Init, TypeOK

LEMMA NextTypeOK == TypeOK /\ [Next]_vars => TypeOK'
<1> SUFFICES ASSUME TypeOK, [Next]_vars PROVE TypeOK'
  OBVIOUS
<1>1. CASE Tick
  BY <1>1 DEF Tick, TypeOK
<1>2. ASSUME NEW d \in Devices, NEW i \in Items, Edit(d, i)
      PROVE  TypeOK'
  <2> DEFINE c == [local[d][i] EXCEPT !.content = edits + 1, !.at = now]
  <2>1. local[d] \in [Items -> Copy] /\ local[d][i] \in Copy /\ edits + 1 \in Nat /\ now \in Nat
    BY DEF TypeOK
  <2>2. c \in Copy
    BY <2>1 DEF Copy
  <2>3. local' = [local EXCEPT ![d] = [local[d] EXCEPT ![i] = c]]
    BY <1>2, <2>1 DEF Edit, TypeOK, Copy
  <2> HIDE DEF c
  <2>4. [local[d] EXCEPT ![i] = c] \in [Items -> Copy]
    BY <2>1, <2>2
  <2> DEFINE l == [local[d] EXCEPT ![i] = c]
  <2>5. local' = [local EXCEPT ![d] = l] /\ l \in [Items -> Copy]
    BY <2>3, <2>4
  <2> HIDE DEF l
  <2>6. local' \in [Devices -> [Items -> Copy]]
    BY <2>5 DEF TypeOK
  <2>7. edits' \in Nat /\ UNCHANGED <<now, table, cursor, up, down, saveTime, forked, windows>>
    BY <1>2, <2>1 DEF Edit
  <2>8. QED
    BY <2>6, <2>7 DEF TypeOK
<1>3. ASSUME NEW d \in Devices, NEW S \in SUBSET Items, NEW D \in SUBSET Items,
             BeginUpload(d, S, D)
      PROVE  TypeOK'
  <2> DEFINE sent == [i \in Items |-> IF i \in S THEN local[d][i] ELSE Unknown]
  <2> DEFINE u == [NoUpload EXCEPT !.phase = "next", !.todo = S, !.deletes = D, !.sent = sent]
             l == [i \in Items |-> IF i \in D THEN [local[d][i] EXCEPT !.content = 0]
                                              ELSE local[d][i]]
  <2>1. sent \in [Items -> Copy]
    BY IdleTypes DEF TypeOK
  <2>2. u \in UploadRequest
    <3> HIDE DEF sent
    <3>1. QED
      BY <2>1, IdleTypes DEF UploadRequest
  <2>3. l \in [Items -> Copy]
    <3>1. ASSUME NEW i \in Items
          PROVE  local[d][i] \in Copy /\ [local[d][i] EXCEPT !.content = 0] \in Copy
      <4>1. local[d][i] \in Copy
        BY DEF TypeOK
      <4>2. QED
        BY <4>1 DEF Copy
    <3>2. QED
      BY <3>1
  <2>4. up' = [up EXCEPT ![d] = u] /\ local' = [local EXCEPT ![d] = l]
    BY <1>3 DEF BeginUpload, TypeOK
  <2>5. UNCHANGED <<now, edits, table, cursor, down, saveTime, forked, windows>>
    BY <1>3 DEF BeginUpload
  <2> HIDE DEF u, l, sent
  <2>6. up' \in [Devices -> UploadRequest] /\ local' \in [Devices -> [Items -> Copy]]
    BY <2>2, <2>3, <2>4 DEF TypeOK
  <2>7. QED
    BY <2>5, <2>6 DEF TypeOK
<1>4. ASSUME NEW d \in Devices, NEW i \in Items, CheckChange(d, i)
      PROVE  TypeOK'
  <2>1. PICK u \in UploadRequest : up' = [up EXCEPT ![d] = u]
    <3>1. PICK r \in ReadsOf(i) :
             up' = [up EXCEPT ![d] =
                     IF IsConflict(r, up[d].sent[i]) /\ KeepsExisting(r, up[d].sent[i])
                     THEN Advance(up[d], up[d].todo \ {i})
                     ELSE [up[d] EXCEPT !.phase = "save", !.item = {i}, !.read = r,
                                    !.conflict = IsConflict(r, up[d].sent[i]),
                                    !.since = now]]
      BY <1>4 DEF CheckChange, TypeOK
    <3>2. up[d] \in UploadRequest /\ up[d].todo \ {i} \in SUBSET Items /\ r \in Row
      BY IdleTypes DEF TypeOK, UploadRequest, ReadsOf
    <3>3. IsConflict(r, up[d].sent[i]) \in BOOLEAN
      BY DEF IsConflict
    <3>4. Advance(up[d], up[d].todo \ {i}) \in UploadRequest
      BY <3>2, AdvanceType
    <3>5. [up[d] EXCEPT !.phase = "save", !.item = {i}, !.read = r,
                        !.conflict = IsConflict(r, up[d].sent[i]),
                        !.since = now] \in UploadRequest
      BY <3>2, <3>3 DEF UploadRequest, TypeOK
    <3>6. QED
      BY <3>1, <3>4, <3>5
  <2>2. QED
    BY <1>4, <2>1 DEF CheckChange, TypeOK
<1>5. ASSUME NEW d \in Devices, NEW i \in Items, TakeUnchecked(d, i)
      PROVE  TypeOK'
  <2> DEFINE u == [up[d] EXCEPT !.phase = "save", !.item = {i}, !.since = now]
  <2>1. up[d] \in UploadRequest
    BY DEF TypeOK
  <2>2. u \in UploadRequest
    BY <2>1 DEF TypeOK, UploadRequest
  <2>3. up' = [up EXCEPT ![d] = u]
    BY <1>5, <2>1 DEF TakeUnchecked, TypeOK, UploadRequest
  <2> HIDE DEF u
  <2>4. QED
    BY <1>5, <2>2, <2>3 DEF TakeUnchecked, TypeOK
<1>6. ASSUME NEW d \in Devices, CommitChange(d)
      PROVE  TypeOK'
  <2>1. PICK i \in up[d].item :
           /\ \E stamp \in Stamps(d, i) : table' = [table EXCEPT ![i] = RowAfter(d, i, stamp)]
           /\ saveTime' = [saveTime EXCEPT ![i] = [began |-> up[d].since, ended |-> now]]
           /\ forked' = IF Forks(d, i) THEN forked \cup {i} ELSE forked
           /\ up' = [up EXCEPT ![d] = Advance(up[d], up[d].todo \ {i})]
    BY <1>6 DEF CommitChange, TypeOK
  <2>0. PICK stamp \in Stamps(d, i) : table' = [table EXCEPT ![i] = RowAfter(d, i, stamp)]
    BY <2>1
  <2>2. /\ i \in Items /\ up[d] \in UploadRequest
        /\ up[d].todo \ {i} \in SUBSET Items
        /\ up[d].since \in Nat
    BY DEF TypeOK, UploadRequest
  <2>3. RowAfter(d, i, stamp) \in Row
    BY <2>2, RowAfterType, StampType
  <2>4. Advance(up[d], up[d].todo \ {i}) \in UploadRequest
    BY <2>2, AdvanceType
  <2>5. QED
    BY <1>6, <2>0, <2>1, <2>2, <2>3, <2>4 DEF CommitChange, TypeOK
<1>7. ASSUME NEW d \in Devices, RejectChange(d)
      PROVE  TypeOK'
  <2>1. up[d] \in UploadRequest /\ up[d].todo \ up[d].item \in SUBSET Items
    BY DEF TypeOK, UploadRequest
  <2>2. Advance(up[d], up[d].todo \ up[d].item) \in UploadRequest
    BY <2>1, AdvanceType
  <2>3. up' = [up EXCEPT ![d] = Advance(up[d], up[d].todo \ up[d].item)]
    BY <1>7 DEF RejectChange, TypeOK
  <2>4. QED
    BY <1>7, <2>2, <2>3 DEF RejectChange, TypeOK
<1>8. ASSUME NEW d \in Devices, NEW k \in Kinds, ListKind(d, k)
      PROVE  TypeOK'
  <2> DEFINE rows == [i \in Items |-> IF KindOf(i) = k /\ InScope(i, table[i], cursor[d])
                                      THEN table[i] ELSE down[d].rows[i]]
  <2>1. rows \in [Items -> Row]
    BY DEF TypeOK, DownloadRequest
  <2> DEFINE dl == [down[d] EXCEPT
                      !.phase = "listing", !.listed = down[d].listed \cup {k},
                      !.from = [down[d].from EXCEPT ![k] = now], !.last = now,
                      !.rows = rows]
  <2>2. down[d] \in DownloadRequest
    BY DEF TypeOK
  <2>3. down' = [down EXCEPT ![d] = dl]
    BY <1>8, <2>2 DEF ListKind, TypeOK, DownloadRequest
  <2>4. dl \in DownloadRequest
    <3> HIDE DEF rows
    <3>1. QED
      BY <2>1, <2>2 DEF TypeOK, DownloadRequest
  <2> HIDE DEF dl
  <2>5. UNCHANGED <<now, edits, table, local, cursor, up, saveTime, forked, windows>>
    BY <1>8 DEF ListKind
  <2>6. QED
    BY <2>3, <2>4, <2>5 DEF TypeOK
<1>9. ASSUME NEW d \in Devices, ReceiveDownload(d)
      PROVE  TypeOK'
  <2> DEFINE l == [i \in Items |->
                   LET r == down[d].rows[i] IN
                   IF r.content = 0 THEN local[d][i]
                   ELSE [content |-> r.content, base |-> r.content,
                         version |-> r.version, at |-> r.updatedAt]]
  <2>1. /\ down[d].last \in Nat /\ down[d].from \in [Kinds -> Nat]
        /\ down[d].rows \in [Items -> Row]
    BY DEF TypeOK, DownloadRequest
  <2>2. PICK timestamp \in down[d].last .. now :
          /\ cursor' = [cursor EXCEPT ![d] = timestamp]
          /\ windows' = windows \cup {[device |-> d, from |-> down[d].from,
                                       timestamp |-> timestamp]}
    BY <1>9 DEF ReceiveDownload
  <2>3. timestamp \in Nat
    BY <2>1, <2>2 DEF TypeOK
  <2>4. l \in [Items -> Copy]
    BY <2>1 DEF TypeOK, Copy, Row
  <2>5. local' = [local EXCEPT ![d] = l]
    BY <1>9 DEF ReceiveDownload, TypeOK
  <2> HIDE DEF l
  <2>6. down' \in [Devices -> DownloadRequest]
    BY <1>9, IdleTypes DEF ReceiveDownload, TypeOK
  <2>7. windows' \subseteq [device : Devices, from : [Kinds -> Nat], timestamp : Nat]
    BY <2>1, <2>2, <2>3 DEF TypeOK
  <2>8. QED
    BY <1>9, <2>2, <2>3, <2>4, <2>5, <2>6, <2>7 DEF ReceiveDownload, TypeOK
<1>10. ASSUME NEW d \in Devices, LoseDownload(d)
       PROVE  TypeOK'
  BY <1>10, IdleTypes DEF LoseDownload, TypeOK
<1>11. CASE UNCHANGED vars
  BY <1>11 DEF vars, TypeOK
<1>12. QED
  BY <1>1, <1>2, <1>3, <1>4, <1>5, <1>6, <1>7, <1>8, <1>9, <1>10, <1>11
     DEF Next, Upload, Download

(***************************************************************************)
(* Type correctness.                                                       *)
(***************************************************************************)
THEOREM TypeCorrect == Spec => []TypeOK
BY InitTypeOK, NextTypeOK, PTL DEF Spec
-----------------------------------------------------------------------------
(* What makes VersionNamesPayload inductive. *)

Synced == Connections \cup Queries

\* A row has a version exactly when it has a payload.
RowsVersioned == \A i \in Synced : table[i].content = 0 <=> table[i].version = 0

\* A request sends payloads, and the change it is about to save has been compared with
\* what was read.
RequestsChecked ==
    \A d \in Devices :
        /\ up[d].item \subseteq up[d].todo
        /\ \A i \in up[d].todo : up[d].sent[i].content # 0
        /\ \A i \in up[d].item \ (up[d].deletes \cup History) :
              up[d].conflict = IsConflict(up[d].read, up[d].sent[i])

\* Version v with payload p is not ahead of the row of i, nor another payload of it.
Agrees(i, v, p) ==
    /\ v <= table[i].version
    /\ v = table[i].version => p = table[i].content

\* Every version of an unforked item that a device holds, sends or is being sent agrees
\* with the row.
CopiesAgree ==
    \A d \in Devices, i \in Synced \ forked :
        /\ Agrees(i, local[d][i].version, local[d][i].base)
        /\ Agrees(i, up[d].sent[i].version, up[d].sent[i].base)
        /\ Agrees(i, down[d].rows[i].version, down[d].rows[i].content)

VersionInv == TypeOK /\ RowsVersioned /\ RequestsChecked /\ CopiesAgree

(***************************************************************************)
(* Connections and saved queries are items, and none is a history entry.   *)
(***************************************************************************)
LEMMA SyncedFacts == ASSUME NEW i \in Synced PROVE i \in Items /\ i \notin History
BY SyncServerAssumption DEF Synced, Items

LEMMA InitVersionInv == Init => VersionInv
<1> SUFFICES ASSUME Init PROVE VersionInv
  OBVIOUS
<1>1. TypeOK
  BY InitTypeOK
<1>2. \A i \in Synced : table[i] = NoRow
  BY SyncedFacts DEF Init
<1>3. RowsVersioned
  BY <1>2 DEF RowsVersioned, NoRow
<1>4. RequestsChecked
  BY DEF Init, RequestsChecked, NoUpload
<1>5. CopiesAgree
  BY <1>2, SyncedFacts DEF Init, CopiesAgree, Agrees, NoUpload, NoDownload, Unknown, NoRow
<1>6. QED
  BY <1>1, <1>3, <1>4, <1>5 DEF VersionInv

(***************************************************************************)
(* The row of an unforked item that a save writes has a version above all  *)
(* those it had before.                                                    *)
(***************************************************************************)
LEMMA SaveIsNewer ==
    ASSUME VersionInv, NEW d \in Devices, NEW i \in Synced,
           i \in up[d].item, i \notin up[d].deletes, ~Forks(d, i)
    PROVE  table[i].version <= up[d].sent[i].version
<1>1. /\ i \in Items /\ i \notin History
      /\ table[i] \in Row /\ up[d].sent[i] \in Copy
  BY SyncedFacts DEF VersionInv, TypeOK, UploadRequest
<1>2. table[i].version \in Nat /\ up[d].sent[i].version \in Nat
  BY <1>1 DEF Row, Copy
<1>3. CASE table[i].content = 0
  BY <1>2, <1>3 DEF VersionInv, RowsVersioned
<1>4. CASE table[i].content # 0 /\ ~up[d].conflict /\ up[d].read = table[i]
  <2>1. ~IsConflict(table[i], up[d].sent[i])
    BY <1>1, <1>4 DEF VersionInv, RequestsChecked
  <2>2. QED
    BY <1>2, <1>4, <2>1 DEF IsConflict
<1>5. QED
  BY <1>1, <1>2, <1>3, <1>4 DEF Forks

(***************************************************************************)
(* Requests stay checked when one is replaced by a checked one.            *)
(***************************************************************************)
LEMMA AdvanceChecked ==
    ASSUME VersionInv, NEW d \in Devices, NEW todo \in SUBSET up[d].todo,
           up' = [up EXCEPT ![d] = Advance(up[d], todo)]
    PROVE  /\ RequestsChecked'
           /\ \A e \in Devices, i \in Items :
                 up'[e].sent[i] \in {up[e].sent[i], Unknown}
<1>1. up \in [Devices -> UploadRequest] /\ up[d] \in UploadRequest
  BY DEF VersionInv, TypeOK
<1> DEFINE u == Advance(up[d], todo)
<1>2. /\ u.item = {} /\ u.todo \subseteq todo
      /\ \/ u.sent = up[d].sent
         \/ u.todo = {} /\ u.sent = [i \in Items |-> Unknown]
  BY <1>1 DEF Advance, NoUpload, UploadRequest
<1>3. up' = [up EXCEPT ![d] = u]
  OBVIOUS
<1> HIDE DEF u
<1>4. RequestsChecked'
  <2> SUFFICES ASSUME NEW e \in Devices
               PROVE  /\ up'[e].item \subseteq up'[e].todo
                      /\ \A i \in up'[e].todo : up'[e].sent[i].content # 0
                      /\ \A i \in up'[e].item \ (up'[e].deletes \cup History) :
                            up'[e].conflict = IsConflict(up'[e].read, up'[e].sent[i])
    BY DEF RequestsChecked
  <2>1. CASE e = d
    BY <1>1, <1>2, <1>3, <2>1 DEF VersionInv, RequestsChecked
  <2>2. CASE e # d
    BY <1>1, <1>3, <2>2 DEF VersionInv, RequestsChecked
  <2>3. QED
    BY <2>1, <2>2
<1>5. \A e \in Devices, i \in Items : up'[e].sent[i] \in {up[e].sent[i], Unknown}
  BY <1>1, <1>2, <1>3
<1>6. QED
  BY <1>4, <1>5

(***************************************************************************)
(* A copy of nothing agrees with every row.                                *)
(***************************************************************************)
LEMMA NothingAgrees ==
    ASSUME VersionInv, NEW i \in Synced
    PROVE  Agrees(i, 0, 0)
<1>1. table[i].version \in Nat
  BY SyncedFacts DEF VersionInv, TypeOK, Row
<1>2. QED
  BY <1>1 DEF Agrees, VersionInv, RowsVersioned

(***************************************************************************)
(* A step that leaves the rows alone keeps agreement when every copy it    *)
(* leaves behind is one that was there, a row, or nothing.                 *)
(***************************************************************************)
LEMMA CopiesKept ==
    ASSUME VersionInv, UNCHANGED <<table, forked>>,
           \A e \in Devices, i \in Synced \ forked :
              /\ Agrees(i, local'[e][i].version, local'[e][i].base)
              /\ Agrees(i, up'[e].sent[i].version, up'[e].sent[i].base)
              /\ Agrees(i, down'[e].rows[i].version, down'[e].rows[i].content)
    PROVE  RowsVersioned' /\ CopiesAgree'
BY DEF VersionInv, RowsVersioned, CopiesAgree, Agrees

(***************************************************************************)
(* Every step preserves the invariant.  Only CommitChange writes a row:    *)
(* SaveIsNewer makes its version larger than that of every copy.           *)
(***************************************************************************)
LEMMA NextVersionInv == VersionInv /\ [Next]_vars => VersionInv'
<1> SUFFICES ASSUME VersionInv, [Next]_vars PROVE VersionInv'
  OBVIOUS
<1>0. TypeOK
  BY DEF VersionInv
<1> DEFINE Kept == RowsVersioned' /\ RequestsChecked' /\ CopiesAgree'
<1>a. table' = table /\ local' = local /\ up' = up /\ down' = down /\ forked' = forked => Kept
  <2> SUFFICES ASSUME table' = table, local' = local, up' = up, down' = down, forked' = forked
               PROVE  Kept
    OBVIOUS
  <2>1. RowsVersioned'
    BY DEF VersionInv, RowsVersioned
  <2>2. RequestsChecked'
    BY DEF VersionInv, RequestsChecked
  <2>3. CopiesAgree'
    BY DEF VersionInv, CopiesAgree, Agrees
  <2>4. QED
    BY <2>1, <2>2, <2>3
<1>1. ASSUME Tick
      PROVE  Kept
  BY <1>1, <1>a DEF Tick
<1>2. ASSUME NEW d \in Devices, NEW i \in Items, Edit(d, i)
      PROVE  Kept
  <2>1. \A e \in Devices, j \in Items :
           local'[e][j].version = local[e][j].version /\ local'[e][j].base = local[e][j].base
    BY <1>0, <1>2 DEF Edit, TypeOK, Copy
  <2>2. UNCHANGED <<table, up, down, forked>>
    BY <1>2 DEF Edit
  <2>3. QED
    BY <2>1, <2>2, SyncedFacts
       DEF VersionInv, RowsVersioned, RequestsChecked, CopiesAgree, Agrees
<1>3. ASSUME NEW d \in Devices, NEW S \in SUBSET Items, NEW D \in SUBSET Items,
             BeginUpload(d, S, D)
      PROVE  Kept
  <2> DEFINE sent == [i \in Items |-> IF i \in S THEN local[d][i] ELSE Unknown]
  <2>1. UNCHANGED <<table, down, forked>> /\ \A i \in S : local[d][i].content # 0
    BY <1>3 DEF BeginUpload
  <2>2. up' = [up EXCEPT ![d] = [NoUpload EXCEPT
                  !.phase = "next", !.todo = S, !.deletes = D, !.sent = sent]]
    BY <1>3 DEF BeginUpload
  <2>3. /\ up'[d].item = {} /\ up'[d].todo = S /\ up'[d].sent = sent
        /\ \A e \in Devices \ {d} : up'[e] = up[e]
    BY <1>0, <2>2 DEF NoUpload, TypeOK
  <2>4. \A e \in Devices, j \in Items :
           local'[e][j].version = local[e][j].version /\ local'[e][j].base = local[e][j].base
    BY <1>0, <1>3 DEF BeginUpload, TypeOK, Copy
  <2>5. RequestsChecked'
    BY <2>1, <2>3 DEF VersionInv, RequestsChecked
  <2>6. \A e \in Devices, i \in Synced \ forked :
              /\ Agrees(i, local'[e][i].version, local'[e][i].base)
              /\ Agrees(i, down'[e].rows[i].version, down'[e].rows[i].content)
    BY <2>1, <2>4, SyncedFacts DEF VersionInv, CopiesAgree
  <2>7. \A i \in Synced \ forked : Agrees(i, sent[i].version, sent[i].base)
    BY NothingAgrees, SyncedFacts DEF VersionInv, CopiesAgree, Unknown
  <2> HIDE DEF sent
  <2>8. \A e \in Devices, i \in Synced \ forked :
              Agrees(i, up'[e].sent[i].version, up'[e].sent[i].base)
    BY <2>3, <2>7 DEF VersionInv, CopiesAgree
  <2>9. QED
    BY <2>1, <2>5, <2>6, <2>8, CopiesKept
<1>4. ASSUME NEW d \in Devices, NEW i \in Items, CheckChange(d, i)
      PROVE  Kept
  <2>1. UNCHANGED <<table, local, down, forked>> /\ i \in up[d].todo
    BY <1>4 DEF CheckChange
  <2>2. PICK r \in ReadsOf(i) :
             up' = [up EXCEPT ![d] =
                     IF IsConflict(r, up[d].sent[i]) /\ KeepsExisting(r, up[d].sent[i])
                     THEN Advance(up[d], up[d].todo \ {i})
                     ELSE [up[d] EXCEPT !.phase = "save", !.item = {i}, !.read = r,
                                    !.conflict = IsConflict(r, up[d].sent[i]),
                                    !.since = now]]
    BY <1>0, <1>4 DEF CheckChange, TypeOK
  <2>3. RequestsChecked' /\ \A e \in Devices, j \in Items :
                                up'[e].sent[j] \in {up[e].sent[j], Unknown}
    <3>1. CASE IsConflict(r, up[d].sent[i]) /\ KeepsExisting(r, up[d].sent[i])
      <4>1. up[d].todo \ {i} \in SUBSET up[d].todo
        OBVIOUS
      <4>2. up' = [up EXCEPT ![d] = Advance(up[d], up[d].todo \ {i})]
        BY <2>2, <3>1
      <4>3. QED
        BY <4>1, <4>2, AdvanceChecked
    <3>2. CASE ~(IsConflict(r, up[d].sent[i]) /\ KeepsExisting(r, up[d].sent[i]))
      <4> DEFINE c == IsConflict(r, up[d].sent[i])
      <4>1. up' = [up EXCEPT ![d] = [up[d] EXCEPT !.phase = "save", !.item = {i}, !.read = r,
                                                  !.conflict = c, !.since = now]]
        BY <2>2, <3>2
      <4>2. c = IsConflict(r, up[d].sent[i])
        OBVIOUS
      <4> HIDE DEF c
      <4>3. /\ up'[d].item = {i} /\ up'[d].todo = up[d].todo /\ up'[d].sent = up[d].sent
            /\ up'[d].read = r /\ up'[d].conflict = c
            /\ \A e \in Devices \ {d} : up'[e] = up[e]
        BY <1>0, <4>1 DEF TypeOK, UploadRequest
      <4>4. QED
        BY <2>1, <4>2, <4>3 DEF VersionInv, RequestsChecked
    <3>3. QED
      BY <3>1, <3>2
  <2>4. \A e \in Devices, j \in Synced \ forked :
              Agrees(j, up'[e].sent[j].version, up'[e].sent[j].base)
    BY <2>3, NothingAgrees, SyncedFacts DEF VersionInv, CopiesAgree, Unknown
  <2>5. QED
    BY <2>1, <2>3, <2>4, CopiesKept DEF VersionInv, CopiesAgree
<1>5. ASSUME NEW d \in Devices, NEW i \in Items, TakeUnchecked(d, i)
      PROVE  Kept
  <2>1. /\ UNCHANGED <<table, local, down, forked>>
        /\ i \in up[d].todo \cap (up[d].deletes \cup History)
    BY <1>5 DEF TakeUnchecked
  <2>2. /\ up'[d].item = {i} /\ up'[d].todo = up[d].todo /\ up'[d].sent = up[d].sent
        /\ up'[d].deletes = up[d].deletes
        /\ \A e \in Devices \ {d} : up'[e] = up[e]
    BY <1>0, <1>5 DEF TakeUnchecked, TypeOK, UploadRequest
  <2>3. RequestsChecked'
    BY <2>1, <2>2 DEF VersionInv, RequestsChecked
  <2>4. \A e \in Devices : up'[e].sent = up[e].sent
    BY <2>2
  <2>5. QED
    BY <2>1, <2>3, <2>4, CopiesKept DEF VersionInv, CopiesAgree
<1>6. ASSUME NEW d \in Devices, CommitChange(d)
      PROVE  Kept
  <2>1. PICK i \in up[d].item :
           /\ StoreAccepts(d, i)
           /\ \E stamp \in Stamps(d, i) : table' = [table EXCEPT ![i] = RowAfter(d, i, stamp)]
           /\ forked' = IF Forks(d, i) THEN forked \cup {i} ELSE forked
           /\ up' = [up EXCEPT ![d] = Advance(up[d], up[d].todo \ {i})]
    BY <1>0, <1>6 DEF CommitChange, TypeOK
  <2>2. PICK stamp \in Stamps(d, i) : table' = [table EXCEPT ![i] = RowAfter(d, i, stamp)]
    BY <2>1
  <2>3. UNCHANGED <<local, down>>
    BY <1>6 DEF CommitChange
  <2>4. /\ i \in Items /\ up[d] \in UploadRequest /\ i \in up[d].todo
        /\ up[d].sent[i] \in Copy /\ up[d].sent[i].content # 0
        /\ table[i] \in Row
        /\ table' = [table EXCEPT ![i] = table'[i]] /\ table'[i] = RowAfter(d, i, stamp)
    <3>1. i \in Items /\ up[d] \in UploadRequest /\ up[d].sent[i] \in Copy /\ table[i] \in Row
      BY <1>0 DEF TypeOK, UploadRequest
    <3>2. i \in up[d].todo /\ up[d].sent[i].content # 0
      BY DEF VersionInv, RequestsChecked
    <3>3. table' = [table EXCEPT ![i] = table'[i]] /\ table'[i] = RowAfter(d, i, stamp)
      BY <1>0, <2>2, <3>1 DEF TypeOK
    <3>4. QED
      BY <3>1, <3>2, <3>3
  <2>5. /\ RequestsChecked'
        /\ \A e \in Devices, j \in Items : up'[e].sent[j] \in {up[e].sent[j], Unknown}
    <3>1. up[d].todo \ {i} \in SUBSET up[d].todo
      OBVIOUS
    <3>2. QED
      BY <2>1, <3>1, AdvanceChecked
  <2>6. CASE i \in up[d].deletes
    <3>1. \A j \in Items : table'[j].version = table[j].version
                           /\ table'[j].content = table[j].content
      <4>1. table'[i] = [table[i] EXCEPT !.deleted = TRUE, !.updatedAt = stamp]
        BY <2>4, <2>6 DEF RowAfter
      <4>2. table'[i].version = table[i].version /\ table'[i].content = table[i].content
        BY <2>4, <4>1 DEF Row
      <4>3. \A j \in Items \ {i} : table'[j] = table[j]
        BY <1>0, <2>4 DEF TypeOK
      <4>4. QED
        BY <4>2, <4>3
    <3>2. RowsVersioned'
      BY <3>1, SyncedFacts DEF VersionInv, RowsVersioned
    <3>3. forked \subseteq forked'
      BY <2>1
    <3>4. \A e \in Devices, j \in Synced \ forked :
              /\ Agrees(j, local[e][j].version, local[e][j].base)
              /\ Agrees(j, up'[e].sent[j].version, up'[e].sent[j].base)
              /\ Agrees(j, down[e].rows[j].version, down[e].rows[j].content)
      BY <2>5, NothingAgrees, SyncedFacts DEF VersionInv, CopiesAgree, Unknown
    <3>5. CopiesAgree'
      BY <2>3, <3>1, <3>3, <3>4, SyncedFacts DEF CopiesAgree, Agrees
    <3>6. QED
      BY <2>5, <3>2, <3>5
  <2>7. CASE i \in Synced /\ i \notin up[d].deletes
    <3>1. /\ table'[i].content = up[d].sent[i].content
          /\ table'[i].version = up[d].sent[i].version + 2
      BY <2>4, <2>7, SyncedFacts DEF RowAfter
    <3>2. /\ up[d].sent[i].version \in Nat /\ table[i].version \in Nat
      BY <2>4 DEF Copy, Row
    <3>3. RowsVersioned'
      <4>1. table'[i].content # 0 /\ table'[i].version # 0
        BY <2>4, <3>1, <3>2
      <4>2. \A j \in Synced \ {i} : table'[j] = table[j]
        BY <1>0, <2>4, SyncedFacts DEF TypeOK
      <4>3. QED
        BY <4>1, <4>2 DEF VersionInv, RowsVersioned
    <3>4. CopiesAgree'
      <4> SUFFICES ASSUME NEW e \in Devices, NEW j \in Synced \ forked'
                   PROVE  /\ Agrees(j, local[e][j].version, local[e][j].base)'
                          /\ Agrees(j, up[e].sent[j].version, up[e].sent[j].base)'
                          /\ Agrees(j, down[e].rows[j].version, down[e].rows[j].content)'
        BY DEF CopiesAgree
      <4>1. j \in Synced \ forked /\ j \in Items
        BY <2>1, SyncedFacts
      <4>2. /\ Agrees(j, local[e][j].version, local[e][j].base)
            /\ Agrees(j, up[e].sent[j].version, up[e].sent[j].base)
            /\ Agrees(j, down[e].rows[j].version, down[e].rows[j].content)
            /\ Agrees(j, 0, 0)
        BY <4>1, NothingAgrees DEF VersionInv, CopiesAgree
      <4>3. up'[e].sent[j] \in {up[e].sent[j], Unknown}
        BY <2>5, <4>1
      <4>4. CASE j # i
        <5>1. table'[j] = table[j]
          BY <1>0, <2>4, <4>1, <4>4 DEF TypeOK
        <5>2. QED
          BY <2>3, <4>2, <4>3, <5>1 DEF Agrees, Unknown
      <4>5. CASE j = i
        <5>1. ~Forks(d, i)
          BY <2>1, <4>5
        <5>2. table[i].version < table'[i].version
          BY <2>7, <3>1, <3>2, <5>1, SaveIsNewer
        <5>3. /\ local[e][j].version \in Nat /\ up[e].sent[j].version \in Nat
              /\ down[e].rows[j].version \in Nat /\ Unknown.version = 0
              /\ table'[i].version \in Nat
          BY <1>0, <3>1, <3>2, <4>1
             DEF TypeOK, UploadRequest, DownloadRequest, Copy, Row, Unknown
        <5>4. QED
          BY <2>3, <3>2, <4>2, <4>3, <4>5, <5>2, <5>3 DEF Agrees
      <4>6. QED
        BY <4>4, <4>5
    <3>5. QED
      BY <2>5, <3>3, <3>4
  <2>8. CASE i \in History
    <3>1. \A j \in Synced : table'[j] = table[j]
      BY <1>0, <2>4, <2>8, SyncedFacts DEF TypeOK
    <3>2. forked \subseteq forked'
      BY <2>1
    <3>3. \A e \in Devices, j \in Synced \ forked :
              /\ Agrees(j, local[e][j].version, local[e][j].base)
              /\ Agrees(j, up'[e].sent[j].version, up'[e].sent[j].base)
              /\ Agrees(j, down[e].rows[j].version, down[e].rows[j].content)
      BY <2>5, NothingAgrees, SyncedFacts DEF VersionInv, CopiesAgree, Unknown
    <3>4. RowsVersioned' /\ CopiesAgree'
      BY <2>3, <3>1, <3>2, <3>3 DEF VersionInv, RowsVersioned, CopiesAgree, Agrees
    <3>5. QED
      BY <2>5, <3>4
  <2>9. QED
    BY <2>4, <2>6, <2>7, <2>8 DEF Items, Synced
<1>7. ASSUME NEW d \in Devices, RejectChange(d)
      PROVE  Kept
  <2>1. UNCHANGED <<table, local, down, forked>>
    BY <1>7 DEF RejectChange
  <2>2. up' = [up EXCEPT ![d] = Advance(up[d], up[d].todo \ up[d].item)]
    BY <1>0, <1>7 DEF RejectChange, TypeOK
  <2>3. RequestsChecked' /\ \A e \in Devices, j \in Items :
                                up'[e].sent[j] \in {up[e].sent[j], Unknown}
    <3>1. up[d].todo \ up[d].item \in SUBSET up[d].todo
      OBVIOUS
    <3>2. QED
      BY <2>2, <3>1, AdvanceChecked
  <2>4. \A e \in Devices, j \in Synced \ forked :
              Agrees(j, up'[e].sent[j].version, up'[e].sent[j].base)
    BY <2>3, NothingAgrees, SyncedFacts DEF VersionInv, CopiesAgree, Unknown
  <2>5. QED
    BY <2>1, <2>3, <2>4, CopiesKept DEF VersionInv, CopiesAgree
<1>8. ASSUME NEW d \in Devices, NEW k \in Kinds, ListKind(d, k)
      PROVE  Kept
  <2>1. UNCHANGED <<table, local, up, forked>>
    BY <1>8 DEF ListKind
  <2>2. \A e \in Devices, j \in Items :
           down'[e].rows[j] = down[e].rows[j] \/ down'[e].rows[j] = table[j]
    <3> DEFINE rows == [i \in Items |-> IF KindOf(i) = k /\ InScope(i, table[i], cursor[d])
                                        THEN table[i] ELSE down[d].rows[i]]
    <3>1. down[d] \in DownloadRequest
      BY <1>0 DEF TypeOK
    <3> DEFINE dl == [down[d] EXCEPT
                        !.phase = "listing", !.listed = down[d].listed \cup {k},
                        !.from = [down[d].from EXCEPT ![k] = now], !.last = now,
                        !.rows = rows]
    <3>2. down' = [down EXCEPT ![d] = dl]
      BY <1>0, <1>8, <3>1 DEF ListKind, TypeOK, DownloadRequest
    <3>3. \A j \in Items : rows[j] = down[d].rows[j] \/ rows[j] = table[j]
      OBVIOUS
    <3> HIDE DEF rows
    <3>4. down'[d].rows = rows /\ \A e \in Devices \ {d} : down'[e] = down[e]
      <4>1. dl.rows = rows
        BY <3>1 DEF DownloadRequest
      <4> HIDE DEF dl
      <4>2. QED
        BY <1>0, <3>2, <4>1 DEF TypeOK
    <3>5. QED
      BY <3>3, <3>4
  <2>3. \A j \in Synced : Agrees(j, table[j].version, table[j].content)
    BY <1>0, SyncedFacts DEF Agrees, TypeOK, Row
  <2>4. \A e \in Devices, j \in Synced \ forked :
              Agrees(j, down'[e].rows[j].version, down'[e].rows[j].content)
    BY <2>2, <2>3, SyncedFacts DEF VersionInv, CopiesAgree
  <2>5. RequestsChecked'
    BY <2>1 DEF VersionInv, RequestsChecked
  <2>6. QED
    BY <2>1, <2>4, <2>5, CopiesKept DEF VersionInv, CopiesAgree
<1>9. ASSUME NEW d \in Devices, ReceiveDownload(d)
      PROVE  Kept
  <2>1. UNCHANGED <<table, up, forked>>
    BY <1>9 DEF ReceiveDownload
  <2>2. \A e \in Devices, j \in Items :
           \/ local'[e][j] = local[e][j]
           \/ /\ local'[e][j].version = down[e].rows[j].version
              /\ local'[e][j].base = down[e].rows[j].content
    BY <1>0, <1>9 DEF ReceiveDownload, TypeOK
  <2>3. \A e \in Devices, j \in Items : down'[e].rows[j] \in {down[e].rows[j], NoRow}
    BY <1>0, <1>9 DEF ReceiveDownload, TypeOK, NoDownload
  <2>4. \A e \in Devices, j \in Synced \ forked :
              /\ Agrees(j, local'[e][j].version, local'[e][j].base)
              /\ Agrees(j, down'[e].rows[j].version, down'[e].rows[j].content)
    BY <2>2, <2>3, NothingAgrees, SyncedFacts DEF VersionInv, CopiesAgree, NoRow
  <2>5. RequestsChecked'
    BY <2>1 DEF VersionInv, RequestsChecked
  <2>6. QED
    BY <2>1, <2>4, <2>5, CopiesKept DEF VersionInv, CopiesAgree
<1>10. ASSUME NEW d \in Devices, LoseDownload(d)
       PROVE  Kept
  <2>1. UNCHANGED <<table, local, up, forked>>
    BY <1>10 DEF LoseDownload
  <2>2. \A e \in Devices, j \in Items : down'[e].rows[j] \in {down[e].rows[j], NoRow}
    BY <1>0, <1>10 DEF LoseDownload, TypeOK, NoDownload
  <2>3. \A e \in Devices, j \in Synced \ forked :
              Agrees(j, down'[e].rows[j].version, down'[e].rows[j].content)
    BY <2>2, NothingAgrees, SyncedFacts DEF VersionInv, CopiesAgree, NoRow
  <2>4. RequestsChecked'
    BY <2>1 DEF VersionInv, RequestsChecked
  <2>5. QED
    BY <2>1, <2>3, <2>4, CopiesKept DEF VersionInv, CopiesAgree
<1>11. ASSUME UNCHANGED vars
       PROVE  Kept
  <2>1. table' = table /\ local' = local /\ up' = up /\ down' = down /\ forked' = forked
    BY <1>11 DEF vars
  <2>2. QED
    BY <2>1, <1>a
<1> HIDE DEF Kept
<1>12. Kept
  BY <1>1, <1>2, <1>3, <1>4, <1>5, <1>6, <1>7, <1>8, <1>9, <1>10, <1>11
     DEF Next, Upload, Download
<1>13. QED
  BY <1>0, <1>12, NextTypeOK DEF VersionInv, Kept

(***************************************************************************)
(* The invariant holds in every reachable state.                           *)
(***************************************************************************)
THEOREM VersionInvariant == Spec => []VersionInv
BY InitVersionInv, NextVersionInv, PTL DEF Spec

(***************************************************************************)
(* As long as no save has replaced a version newer than its base, a device *)
(* that holds the version number of a row holds its payload, whatever the  *)
(* interleaving of requests, lost answers and failing statements.          *)
(***************************************************************************)
THEOREM VersionNamesPayloadHolds == Spec => []VersionNamesPayload
<1>1. VersionInv => VersionNamesPayload
  BY DEF VersionInv, CopiesAgree, Agrees, VersionNamesPayload, Synced
<1>2. QED
  BY <1>1, VersionInvariant, PTL

(***************************************************************************)
(* A save without a conflict loses a payload its device had not seen only  *)
(* when the row is not the one the request read.                           *)
(***************************************************************************)
THEOREM NoSilentLossHolds == Spec => NoSilentLoss
<1> DEFINE Silent(d, i) == /\ up[d].phase = "save" /\ up[d].item = {i}
                           /\ i \notin up[d].deletes
                           /\ ~up[d].conflict
                           /\ table[i].content \notin {0, up[d].sent[i].base,
                                                       up[d].sent[i].content}
<1>1. ASSUME VersionInv, NEW d \in Devices, NEW i \in Synced, Silent(d, i), i \notin forked
      PROVE  up[d].read # table[i]
  <2> SUFFICES ASSUME up[d].read = table[i] PROVE FALSE
    OBVIOUS
  <2>1. i \in Items /\ i \notin History
    BY SyncedFacts
  <2>2. ~IsConflict(table[i], up[d].sent[i])
    BY <1>1, <2>1 DEF VersionInv, RequestsChecked
  <2>3. table[i].version \in Nat /\ up[d].sent[i].version \in Nat
    BY <1>1, <2>1 DEF VersionInv, TypeOK, UploadRequest, Row, Copy
  <2>4. table[i].version <= up[d].sent[i].version
    BY <1>1, <2>2, <2>3 DEF IsConflict
  <2>5. Agrees(i, up[d].sent[i].version, up[d].sent[i].base)
    BY <1>1 DEF VersionInv, CopiesAgree
  <2>6. QED
    BY <1>1, <2>3, <2>4, <2>5 DEF Agrees
<1>2. VersionInv /\ [Next]_vars =>
        [\A d \in Devices, i \in Connections \cup Queries :
          /\ up[d].phase = "save" /\ up[d].item = {i} /\ i \notin up[d].deletes
          /\ ~up[d].conflict
          /\ table'[i] # table[i]
          /\ table[i].content \notin {0, up[d].sent[i].base, up[d].sent[i].content}
          /\ up'[d] # up[d]
          => i \in forked \/ up[d].read # table[i]]_vars
  BY <1>1 DEF Synced
<1>3. QED
  BY <1>2, VersionInvariant, PTL DEF Spec, NoSilentLoss

-----------------------------------------------------------------------------
(* What makes MissedOnlyOnOverlap inductive: what a download that is under  *)
(* way has listed, what a cursor goes back to, and how the time stamp of a  *)
(* row relates to its save.                                                 *)

\* The save of i overlapped the download w of d.
Overlaps(d, i, w) ==
    /\ w.device = d
    /\ w.from[KindOf(i)] <= saveTime[i].ended
    /\ IF i \in History THEN table[i].updatedAt < Sec(w.timestamp)
                        ELSE Sec(saveTime[i].began) <= w.timestamp

\* Device d holds the row of i, will be given it, or has missed it by an overlap.
Accounted(d, i) ==
    table[i].content # 0 /\ ~table[i].deleted /\ local[d][i].base # table[i].content =>
        InScope(i, table[i], cursor[d]) \/ \E w \in windows : Overlaps(d, i, w)

\* A download that has listed the kind of i carries the row, or left it out because it is
\* not in scope, or i was saved since.
ListedRow(d, i) ==
    IF KindOf(i) \in down[d].listed
    THEN \/ down[d].from[KindOf(i)] <= saveTime[i].ended
         \/ down[d].rows[i] = table[i]
         \/ down[d].rows[i].content = 0 /\ ~InScope(i, table[i], cursor[d])
    ELSE down[d].rows[i].content = 0

\* A save under way began in the past, and after the first second.
SaveBegan(d) == up[d].phase = "save" => up[d].since \in TicksPerSecond .. now

\* A cursor comes from a download that is over.
CursorFrom(d) ==
    \/ cursor[d] = 0
    \/ \E w \in windows : /\ w.device = d /\ w.timestamp = cursor[d]
                          /\ \A k \in Kinds : w.from[k] <= now

\* The row of a template or query is stamped no earlier than in the second its save began.
Stamped(i) == table[i].content # 0 => Sec(saveTime[i].began) <= table[i].updatedAt

OverlapInv ==
    /\ TypeOK
    /\ TicksPerSecond <= now
    /\ \A d \in Devices : SaveBegan(d) /\ CursorFrom(d) /\ \A k \in Kinds : down[d].from[k] <= now
    /\ \A i \in Items \ History : Stamped(i)
    /\ \A d \in Devices, i \in Items : ListedRow(d, i) /\ Accounted(d, i)

(***************************************************************************)
(* Every item has a kind, and a time after the first second is in a second *)
(* of its own.                                                             *)
(***************************************************************************)
LEMMA KindFacts ==
    ASSUME NEW i \in Items
    PROVE  KindOf(i) \in Kinds /\ KindOf(i) \in KindsInUse
BY DEF KindOf, Kinds, KindsInUse

LEMMA SecPositive ==
    ASSUME NEW t \in Nat, TicksPerSecond <= t
    PROVE  0 < Sec(t)
<1> DEFINE n == TicksPerSecond
           q == t \div n
<1>1. n \in Nat /\ n > 0
  BY SyncServerAssumption
<1>2. q \in Nat /\ t < (q + 1) * n
  BY <1>1
<1>3. q # 0
  BY <1>1, <1>2
<1> HIDE DEF q, n
<1>4. q * n > 0
  BY <1>1, <1>2, <1>3
<1>5. QED
  BY <1>4 DEF Sec, q, n

LEMMA SecZero == Sec(0) = 0
<1>1. TicksPerSecond \in Nat /\ TicksPerSecond > 0
  BY SyncServerAssumption
<1>2. 0 \div TicksPerSecond = 0
  BY <1>1
<1>3. QED
  BY <1>1, <1>2 DEF Sec

LEMMA InitOverlapInv == Init => OverlapInv
<1> SUFFICES ASSUME Init PROVE OverlapInv
  OBVIOUS
<1>1. TypeOK
  BY InitTypeOK
<1>2. TicksPerSecond <= now
  BY SyncServerAssumption DEF Init
<1>3. /\ \A i \in Items : table[i].content = 0
      /\ \A d \in Devices : /\ down[d] = NoDownload /\ up[d].phase = "idle"
                            /\ cursor[d] = 0
  BY DEF Init, NoRow, NoUpload
<1>4. ASSUME NEW d \in Devices
      PROVE  SaveBegan(d) /\ CursorFrom(d) /\ \A k \in Kinds : down[d].from[k] <= now
  BY <1>1, <1>3 DEF SaveBegan, CursorFrom, NoDownload, TypeOK
<1>5. ASSUME NEW d \in Devices, NEW i \in Items
      PROVE  ListedRow(d, i) /\ Accounted(d, i)
  BY <1>3 DEF ListedRow, Accounted, NoDownload, NoRow
<1>6. \A i \in Items \ History : Stamped(i)
  BY <1>3 DEF Stamped
<1>7. QED
  BY <1>1, <1>2, <1>4, <1>5, <1>6 DEF OverlapInv

(***************************************************************************)
(* A step that neither writes a row nor completes a download: what is to   *)
(* be shown of the requests.                                               *)
(***************************************************************************)
LEMMA QuietStep ==
    ASSUME OverlapInv, TypeOK', UNCHANGED <<table, cursor, saveTime, windows>>, now <= now',
           \A d \in Devices, i \in Items : local'[d][i].base = local[d][i].base,
           \A d \in Devices : SaveBegan(d)' /\ \A k \in Kinds : down'[d].from[k] <= now',
           \A d \in Devices, i \in Items : ListedRow(d, i)'
    PROVE  OverlapInv'
<1>1. now \in Nat /\ now' \in Nat /\ TicksPerSecond \in Nat /\ TicksPerSecond <= now
      /\ windows \subseteq [device : Devices, from : [Kinds -> Nat], timestamp : Nat]
  BY SyncServerAssumption DEF OverlapInv, TypeOK
<1>2. ASSUME NEW d \in Devices
      PROVE  CursorFrom(d)'
  <2>1. CASE cursor[d] = 0
    BY <2>1 DEF CursorFrom
  <2>2. ASSUME NEW w \in windows, w.device = d, w.timestamp = cursor[d],
               \A k \in Kinds : w.from[k] <= now
        PROVE  CursorFrom(d)'
    <3>1. \A k \in Kinds : w.from[k] \in Nat
      BY <1>1
    <3>2. \A k \in Kinds : w.from[k] <= now'
      BY <1>1, <2>2, <3>1
    <3>3. QED
      BY <2>2, <3>2 DEF CursorFrom
  <2>3. QED
    BY <2>1, <2>2 DEF OverlapInv, CursorFrom
<1>3. ASSUME NEW d \in Devices, NEW i \in Items
      PROVE  Accounted(d, i)'
  BY DEF OverlapInv, Accounted, Overlaps
<1>4. \A i \in Items \ History : Stamped(i)'
  BY DEF OverlapInv, Stamped
<1>5. TicksPerSecond <= now'
  BY <1>1
<1>6. QED
  BY <1>2, <1>3, <1>4, <1>5 DEF OverlapInv

(***************************************************************************)
(* The same when the downloads do not change either.                       *)
(***************************************************************************)
LEMMA UploadStep ==
    ASSUME OverlapInv, TypeOK', UNCHANGED <<table, cursor, saveTime, windows, down>>,
           now <= now',
           \A d \in Devices, i \in Items : local'[d][i].base = local[d][i].base,
           \A d \in Devices : SaveBegan(d)'
    PROVE  OverlapInv'
<1>1. now \in Nat /\ now' \in Nat /\ down \in [Devices -> DownloadRequest]
  BY DEF OverlapInv, TypeOK
<1>2. ASSUME NEW d \in Devices, NEW k \in Kinds
      PROVE  down'[d].from[k] <= now'
  <2>1. down[d].from[k] \in Nat /\ down[d].from[k] <= now
    BY <1>1 DEF OverlapInv, DownloadRequest
  <2>2. QED
    BY <1>1, <2>1
<1>3. \A d \in Devices, i \in Items : ListedRow(d, i)'
  BY DEF OverlapInv, ListedRow
<1>4. QED
  BY <1>2, <1>3, QuietStep

(***************************************************************************)
(* What a request saves, and that after it the request saves nothing.      *)
(***************************************************************************)
LEMMA RowAfterFacts ==
    ASSUME TypeOK, NEW d \in Devices, NEW i \in Items, NEW stamp \in Nat
    PROVE  /\ RowAfter(d, i, stamp).updatedAt = stamp
           /\ i \in up[d].deletes => RowAfter(d, i, stamp).deleted
<1>1. table[i] \in Row
  BY DEF TypeOK
<1>2. QED
  BY <1>1 DEF RowAfter, Row

LEMMA AdvancePhase ==
    ASSUME NEW u \in UploadRequest, NEW todo \in SUBSET Items
    PROVE  Advance(u, todo).phase # "save"
BY DEF Advance, NoUpload, UploadRequest

(***************************************************************************)
(* A save: whoever does not find the row in the scope of the next download *)
(* has a cursor from a download that the save overlapped.                  *)
(***************************************************************************)
LEMMA CommitOverlap ==
    ASSUME OverlapInv, TypeOK', NEW d \in Devices, CommitChange(d)
    PROVE  OverlapInv'
<1>1. TypeOK /\ TicksPerSecond \in Nat /\ now \in Nat /\ TicksPerSecond <= now
  BY SyncServerAssumption DEF OverlapInv, TypeOK
<1>2. /\ up[d].phase = "save"
      /\ UNCHANGED <<now, local, cursor, down, windows>>
  BY DEF CommitChange
<1>3. PICK i \in up[d].item :
         /\ \E stamp \in Stamps(d, i) : table' = [table EXCEPT ![i] = RowAfter(d, i, stamp)]
         /\ saveTime' = [saveTime EXCEPT ![i] = [began |-> up[d].since, ended |-> now]]
         /\ up' = [up EXCEPT ![d] = Advance(up[d], up[d].todo \ {i})]
  BY <1>1 DEF CommitChange, TypeOK
<1>4. PICK stamp \in Stamps(d, i) : table' = [table EXCEPT ![i] = RowAfter(d, i, stamp)]
  BY <1>3
<1>5. /\ i \in Items /\ up[d] \in UploadRequest /\ up[d].todo \ {i} \in SUBSET Items
      /\ up[d].since \in TicksPerSecond .. now
  BY <1>1, <1>2 DEF TypeOK, UploadRequest, OverlapInv, SaveBegan
<1> DEFINE row == RowAfter(d, i, stamp)
           since == up[d].since
<1>6. stamp \in Nat /\ row.updatedAt = stamp
  BY <1>1, <1>5, StampType, RowAfterFacts
<1>7. /\ table'[i] = row /\ \A j \in Items \ {i} : table'[j] = table[j]
      /\ saveTime'[i].began = since /\ saveTime'[i].ended = now
      /\ \A j \in Items \ {i} : saveTime'[j] = saveTime[j]
  BY <1>1, <1>3, <1>4, <1>5 DEF TypeOK
<1>8. since \in Nat /\ Sec(since) \in Nat /\ 0 < Sec(since)
  BY <1>1, <1>5, SecFacts, SecPositive
<1>9. i \notin History => Sec(since) <= stamp
  <2>1. SUFFICES ASSUME i \notin History PROVE Sec(since) <= stamp
    OBVIOUS
  <2>2. PICK t \in since .. now : stamp = Sec(t)
    BY <1>4, <2>1 DEF Stamps
  <2>3. QED
    BY <1>8, <2>2, SecFacts
<1> HIDE DEF row, since
<1>10. ASSUME NEW e \in Devices
       PROVE  SaveBegan(e)' /\ CursorFrom(e)'
  <2>1. Advance(up[d], up[d].todo \ {i}).phase # "save"
    BY <1>5, AdvancePhase
  <2>2. SaveBegan(e)'
    <3>1. CASE e = d
      BY <1>1, <1>3, <2>1, <3>1 DEF TypeOK, SaveBegan
    <3>2. CASE e # d
      BY <1>1, <1>2, <1>3, <3>2 DEF TypeOK, OverlapInv, SaveBegan
    <3>3. QED
      BY <3>1, <3>2
  <2>3. CursorFrom(e)'
    BY <1>2 DEF OverlapInv, CursorFrom
  <2>4. QED
    BY <2>2, <2>3
<1>11. ASSUME NEW j \in Items \ History
       PROVE  Stamped(j)'
  <2>1. CASE j = i
    BY <1>6, <1>7, <1>9, <2>1 DEF Stamped
  <2>2. CASE j # i
    BY <1>7, <2>2 DEF OverlapInv, Stamped
  <2>3. QED
    BY <2>1, <2>2
<1>12. ASSUME NEW e \in Devices, NEW j \in Items
       PROVE  ListedRow(e, j)'
  <2>1. CASE j # i
    BY <1>2, <1>7, <2>1 DEF OverlapInv, ListedRow
  <2>2. CASE j = i
    <3>1. down[e].from[KindOf(i)] <= saveTime'[i].ended
      BY <1>5, <1>7, KindFacts DEF OverlapInv
    <3>2. ListedRow(e, i)
      BY <1>5 DEF OverlapInv
    <3>3. QED
      BY <1>2, <2>2, <3>1, <3>2 DEF ListedRow
  <2>3. QED
    BY <2>1, <2>2
<1>13. ASSUME NEW e \in Devices, NEW j \in Items
       PROVE  Accounted(e, j)'
  <2>1. CASE j # i
    BY <1>2, <1>7, <2>1 DEF OverlapInv, Accounted, Overlaps
  <2>2. CASE j = i /\ ~InScope(i, row, cursor[e]) /\ row.content # 0 /\ ~row.deleted
    <3>1. cursor[e] \in Nat /\ Sec(cursor[e]) \in Nat
      BY <1>1, SecFacts DEF TypeOK
    <3>2. IF i \in History THEN stamp < Sec(cursor[e]) ELSE stamp <= cursor[e]
      BY <1>6, <2>2, <3>1 DEF InScope
    <3>3. cursor[e] # 0
      BY <1>6, <1>8, <1>9, <3>2, SecZero
    <3>4. PICK w \in windows : /\ w.device = e /\ w.timestamp = cursor[e]
                               /\ \A k \in Kinds : w.from[k] <= now
      BY <3>3 DEF OverlapInv, CursorFrom
    <3>5. w.from[KindOf(i)] <= saveTime'[i].ended
      BY <1>5, <1>7, <3>4, KindFacts
    <3>6. IF i \in History THEN table'[i].updatedAt < Sec(w.timestamp)
                           ELSE Sec(saveTime'[i].began) <= w.timestamp
      BY <1>6, <1>7, <1>8, <1>9, <3>1, <3>2, <3>4
    <3>7. w \in windows' /\ Overlaps(e, i, w)'
      BY <1>2, <3>4, <3>5, <3>6 DEF Overlaps
    <3>8. QED
      BY <2>2, <3>7 DEF Accounted
  <2>3. CASE j = i /\ (InScope(i, row, cursor[e]) \/ row.content = 0 \/ row.deleted)
    BY <1>2, <1>7, <2>3 DEF Accounted
  <2>4. QED
    BY <2>1, <2>2, <2>3
<1>14. QED
  BY <1>1, <1>2, <1>10, <1>11, <1>12, <1>13 DEF OverlapInv

(***************************************************************************)
(* A listing: what it leaves out is not in scope.                          *)
(***************************************************************************)
LEMMA ListOverlap ==
    ASSUME OverlapInv, TypeOK', NEW d \in Devices, NEW k \in Kinds, ListKind(d, k)
    PROVE  OverlapInv'
<1>1. TypeOK /\ now \in Nat /\ down[d] \in DownloadRequest
  BY DEF OverlapInv, TypeOK
<1>2. /\ k \notin down[d].listed
      /\ UNCHANGED <<now, edits, table, local, cursor, up, saveTime, forked, windows>>
  BY DEF ListKind
<1> DEFINE rows == [i \in Items |-> IF KindOf(i) = k /\ InScope(i, table[i], cursor[d])
                                    THEN table[i] ELSE down[d].rows[i]]
           dl == [down[d] EXCEPT
                    !.phase = "listing", !.listed = down[d].listed \cup {k},
                    !.from = [down[d].from EXCEPT ![k] = now], !.last = now,
                    !.rows = rows]
<1>3. down' = [down EXCEPT ![d] = dl]
  BY <1>1 DEF ListKind, TypeOK, DownloadRequest
<1>4. /\ dl.listed = down[d].listed \cup {k} /\ dl.rows = rows
      /\ dl.from = [down[d].from EXCEPT ![k] = now]
  BY <1>1 DEF DownloadRequest
<1> HIDE DEF dl
<1>5. down'[d] = dl /\ \A e \in Devices \ {d} : down'[e] = down[e]
  BY <1>1, <1>3 DEF TypeOK
<1>6. ASSUME NEW e \in Devices
      PROVE  SaveBegan(e)' /\ \A l \in Kinds : down'[e].from[l] <= now'
  <2>1. SaveBegan(e)'
    BY <1>2 DEF OverlapInv, SaveBegan
  <2>2. CASE e = d
    <3>1. down[d].from \in [Kinds -> Nat] /\ \A l \in Kinds : down[d].from[l] <= now
      BY <1>1 DEF OverlapInv, DownloadRequest
    <3>2. QED
      BY <1>1, <1>2, <1>4, <1>5, <2>1, <2>2, <3>1
  <2>3. CASE e # d
    BY <1>2, <1>5, <2>1, <2>3 DEF OverlapInv
  <2>4. QED
    BY <2>2, <2>3
<1>7. ASSUME NEW e \in Devices, NEW i \in Items
      PROVE  ListedRow(e, i)'
  <2>1. ListedRow(e, i)
    BY DEF OverlapInv
  <2>2. CASE e # d
    BY <1>2, <1>5, <2>1, <2>2 DEF ListedRow
  <2>3. CASE e = d /\ KindOf(i) # k
    <3>1. /\ dl.rows[i] = down[d].rows[i] /\ dl.from[KindOf(i)] = down[d].from[KindOf(i)]
          /\ KindOf(i) \in dl.listed <=> KindOf(i) \in down[d].listed
      BY <1>1, <1>4, <2>3, KindFacts DEF DownloadRequest
    <3> HIDE DEF rows
    <3>2. QED
      BY <1>2, <1>5, <2>1, <2>3, <3>1 DEF ListedRow
  <2>4. CASE e = d /\ KindOf(i) = k
    <3>1. down[d].rows[i].content = 0
      BY <1>2, <2>1, <2>4 DEF ListedRow
    <3>2. /\ KindOf(i) \in dl.listed
          /\ IF InScope(i, table[i], cursor[d]) THEN dl.rows[i] = table[i]
                                                ELSE dl.rows[i].content = 0
      BY <1>4, <2>4, <3>1
    <3> HIDE DEF rows
    <3>3. QED
      BY <1>2, <1>5, <2>4, <3>2 DEF ListedRow
  <2>5. QED
    BY <2>2, <2>3, <2>4
<1>8. QED
  BY <1>1, <1>2, <1>6, <1>7, QuietStep

(***************************************************************************)
(* A download is complete: what was saved since the listing is in the      *)
(* scope of the next one, or the save overlapped this one.                 *)
(***************************************************************************)
LEMMA ReceiveOverlap ==
    ASSUME OverlapInv, TypeOK', NEW d \in Devices, ReceiveDownload(d)
    PROVE  OverlapInv'
<1>1. TypeOK /\ now \in Nat /\ down[d] \in DownloadRequest
  BY DEF OverlapInv, TypeOK
<1>2. /\ down[d].listed = KindsInUse /\ down' = [down EXCEPT ![d] = NoDownload]
      /\ UNCHANGED <<now, edits, table, up, saveTime, forked>>
  BY DEF ReceiveDownload
<1>3. PICK timestamp \in down[d].last .. now :
         /\ cursor' = [cursor EXCEPT ![d] = timestamp]
         /\ windows' = windows \cup {[device |-> d, from |-> down[d].from,
                                      timestamp |-> timestamp]}
  BY DEF ReceiveDownload
<1>4. PICK win \in windows' : /\ win.device = d /\ win.from = down[d].from
                              /\ win.timestamp = timestamp /\ windows \subseteq windows'
  <2> DEFINE r == [device |-> d, from |-> down[d].from, timestamp |-> timestamp]
  <2>1. r \in windows' /\ windows \subseteq windows'
    BY <1>3
  <2>2. r.device = d /\ r.from = down[d].from /\ r.timestamp = timestamp
    OBVIOUS
  <2> HIDE DEF r
  <2>3. QED
    BY <2>1, <2>2
<1>5. timestamp \in Nat /\ Sec(timestamp) \in Nat
  <2>1. down[d].last \in Nat
    BY <1>1 DEF DownloadRequest
  <2>2. QED
    BY <1>1, <1>3, <2>1, SecFacts
<1>6. cursor'[d] = timestamp /\ \A e \in Devices \ {d} : cursor'[e] = cursor[e]
  BY <1>1, <1>3 DEF TypeOK
<1>7. /\ \A e \in Devices \ {d} : local'[e] = local[e] /\ down'[e] = down[e]
      /\ \A i \in Items : local'[d][i].base = IF down[d].rows[i].content = 0
                                              THEN local[d][i].base
                                              ELSE down[d].rows[i].content
  <2> DEFINE new(i) == [content |-> down[d].rows[i].content, base |-> down[d].rows[i].content,
                        version |-> down[d].rows[i].version, at |-> down[d].rows[i].updatedAt]
             l == [i \in Items |-> IF down[d].rows[i].content = 0 THEN local[d][i] ELSE new(i)]
  <2>1. local' = [local EXCEPT ![d] = l]
    BY <1>1 DEF ReceiveDownload, TypeOK
  <2>2. \A i \in Items : l[i].base = IF down[d].rows[i].content = 0 THEN local[d][i].base
                                     ELSE down[d].rows[i].content
    OBVIOUS
  <2> HIDE DEF l
  <2>3. QED
    BY <1>1, <1>2, <2>1, <2>2 DEF TypeOK
<1>8. ASSUME NEW e \in Devices
      PROVE  SaveBegan(e)' /\ CursorFrom(e)' /\ \A k \in Kinds : down'[e].from[k] <= now'
  <2>1. SaveBegan(e)'
    BY <1>2 DEF OverlapInv, SaveBegan
  <2>2. CASE e = d
    <3>1. CursorFrom(d)'
      BY <1>2, <1>4, <1>6 DEF OverlapInv, CursorFrom
    <3>2. \A k \in Kinds : down'[d].from[k] = 0
      BY <1>1, <1>2 DEF TypeOK, NoDownload
    <3>3. QED
      BY <1>1, <1>2, <2>1, <2>2, <3>1, <3>2
  <2>3. CASE e # d
    BY <1>2, <1>4, <1>6, <1>7, <2>1, <2>3 DEF OverlapInv, CursorFrom
  <2>4. QED
    BY <2>2, <2>3
<1>9. \A i \in Items \ History : Stamped(i)'
  BY <1>2 DEF OverlapInv, Stamped
<1>10. ASSUME NEW e \in Devices, NEW i \in Items
       PROVE  ListedRow(e, i)'
  <2>1. CASE e = d
    <3>1. down'[d] = NoDownload
      BY <1>1, <1>2 DEF TypeOK
    <3>2. QED
      BY <2>1, <3>1 DEF ListedRow, NoDownload, NoRow
  <2>2. CASE e # d
    BY <1>2, <1>6, <1>7, <2>2 DEF OverlapInv, ListedRow
  <2>3. QED
    BY <2>1, <2>2
<1>11. ASSUME NEW e \in Devices, NEW i \in Items
       PROVE  Accounted(e, i)'
  <2>1. Accounted(e, i)
    BY DEF OverlapInv
  <2>2. CASE e # d
    BY <1>2, <1>4, <1>6, <1>7, <2>1, <2>2 DEF Accounted, Overlaps
  <2>3. CASE e = d /\ down[d].from[KindOf(i)] <= saveTime[i].ended
    <3>1. SUFFICES ASSUME table[i].content # 0, ~table[i].deleted,
                          ~InScope(i, table[i], timestamp)
                   PROVE  Overlaps(d, i, win)'
      BY <1>2, <1>4, <1>6, <2>3 DEF Accounted
    <3>2. table[i].updatedAt \in Nat /\ saveTime[i].began \in Nat
      BY <1>1 DEF TypeOK, Row
    <3>3. Sec(saveTime[i].began) \in Nat
      BY <3>2, SecFacts
    <3>4. CASE i \in History
      <4>1. table[i].updatedAt < Sec(timestamp)
        BY <1>5, <3>1, <3>2, <3>4 DEF InScope
      <4>2. QED
        BY <1>2, <1>4, <2>3, <3>4, <4>1 DEF Overlaps
    <3>5. CASE i \notin History
      <4>1. table[i].updatedAt <= timestamp
        BY <1>5, <3>1, <3>2, <3>5 DEF InScope
      <4>2. Sec(saveTime[i].began) <= table[i].updatedAt
        BY <3>1, <3>5 DEF OverlapInv, Stamped
      <4>3. Sec(saveTime[i].began) <= timestamp
        BY <1>5, <3>2, <3>3, <4>1, <4>2
      <4>4. QED
        BY <1>2, <1>4, <2>3, <3>5, <4>3 DEF Overlaps
    <3>6. QED
      BY <3>4, <3>5
  <2>4. CASE e = d /\ down[d].rows[i] = table[i]
    BY <1>2, <1>7, <2>4 DEF Accounted
  <2>5. CASE e = d /\ down[d].rows[i].content = 0 /\ ~InScope(i, table[i], cursor[d])
    BY <1>2, <1>4, <1>7, <2>1, <2>5 DEF Accounted, Overlaps
  <2>6. CASE e = d
    <3>1. ListedRow(d, i) /\ KindOf(i) \in down[d].listed
      BY <1>2, KindFacts DEF OverlapInv
    <3>2. QED
      BY <2>3, <2>4, <2>5, <2>6, <3>1 DEF ListedRow
  <2>7. QED
    BY <2>2, <2>6
<1>12. QED
  BY <1>2, <1>8, <1>9, <1>10, <1>11 DEF OverlapInv

(***************************************************************************)
(* Every step keeps the invariant.                                         *)
(***************************************************************************)
LEMMA NextOverlapInv == OverlapInv /\ [Next]_vars => OverlapInv'
<1> SUFFICES ASSUME OverlapInv, [Next]_vars PROVE OverlapInv'
  OBVIOUS
<1>1. TypeOK /\ TypeOK'
  BY NextTypeOK DEF OverlapInv
<1>2. /\ now \in Nat /\ TicksPerSecond \in Nat /\ TicksPerSecond <= now
      /\ up \in [Devices -> UploadRequest] /\ local \in [Devices -> [Items -> Copy]]
      /\ \A d \in Devices : up[d].phase = "save" => up[d].since \in TicksPerSecond .. now
  BY <1>1, SyncServerAssumption DEF TypeOK, OverlapInv, SaveBegan
<1>3. ASSUME up' = up, now <= now' PROVE \A d \in Devices : SaveBegan(d)'
  <2>1. now' \in Nat
    BY <1>1 DEF TypeOK
  <2>2. QED
    BY <1>2, <1>3, <2>1 DEF SaveBegan
<1>4. CASE Tick
  <2>1. now <= now' /\ UNCHANGED <<table, local, cursor, up, down, saveTime, windows>>
    BY <1>2, <1>4 DEF Tick
  <2>2. QED
    BY <1>1, <1>3, <2>1, UploadStep
<1>5. ASSUME NEW d \in Devices, NEW i \in Items, Edit(d, i)
      PROVE  OverlapInv'
  <2>1. now <= now' /\ UNCHANGED <<table, cursor, up, down, saveTime, windows>>
    BY <1>2, <1>5 DEF Edit
  <2>2. \A e \in Devices, j \in Items : local'[e][j].base = local[e][j].base
    BY <1>2, <1>5 DEF Edit, Copy
  <2>3. QED
    BY <1>1, <1>3, <2>1, <2>2, UploadStep
<1>6. ASSUME NEW d \in Devices, NEW u \in UploadRequest,
             up' = [up EXCEPT ![d] = u],
             u.phase = "save" => u.since \in TicksPerSecond .. now,
             UNCHANGED <<now, table, cursor, down, saveTime, windows>>,
             \A e \in Devices, j \in Items : local'[e][j].base = local[e][j].base
      PROVE  OverlapInv'
  <2>1. \A e \in Devices : SaveBegan(e)'
    BY <1>2, <1>6 DEF SaveBegan
  <2>2. QED
    BY <1>1, <1>2, <1>6, <2>1, UploadStep
<1>7. ASSUME NEW d \in Devices, NEW S \in SUBSET Items, NEW D \in SUBSET Items,
             BeginUpload(d, S, D)
      PROVE  OverlapInv'
  <2>1. /\ up'[d] \in UploadRequest /\ up' = [up EXCEPT ![d] = up'[d]]
        /\ up'[d].phase = "next"
    BY <1>1, <1>7 DEF BeginUpload, NoUpload, TypeOK
  <2>2. UNCHANGED <<now, table, cursor, down, saveTime, windows>>
    BY <1>7 DEF BeginUpload
  <2>3. \A e \in Devices, j \in Items : local'[e][j].base = local[e][j].base
    <3> DEFINE l == [i \in Items |-> IF i \in D THEN [local[d][i] EXCEPT !.content = 0]
                                                ELSE local[d][i]]
    <3>1. local' = [local EXCEPT ![d] = l]
      BY <1>2, <1>7 DEF BeginUpload
    <3>2. \A j \in Items : l[j].base = local[d][j].base
      <4>1. ASSUME NEW j \in Items
            PROVE  [local[d][j] EXCEPT !.content = 0].base = local[d][j].base
        <5>1. local[d][j] \in Copy
          BY <1>2
        <5>2. QED
          BY <5>1 DEF Copy
      <4>2. QED
        BY <4>1
    <3> HIDE DEF l
    <3>3. QED
      BY <1>2, <3>1, <3>2
  <2>4. QED
    BY <1>6, <2>1, <2>2, <2>3
<1>8. ASSUME NEW d \in Devices, NEW i \in Items, CheckChange(d, i)
      PROVE  OverlapInv'
  <2>1. UNCHANGED <<now, table, local, cursor, down, saveTime, windows>>
    BY <1>8 DEF CheckChange
  <2>2. PICK r \in ReadsOf(i) :
           up' = [up EXCEPT ![d] =
                   IF IsConflict(r, up[d].sent[i]) /\ KeepsExisting(r, up[d].sent[i])
                   THEN Advance(up[d], up[d].todo \ {i})
                   ELSE [up[d] EXCEPT !.phase = "save", !.item = {i}, !.read = r,
                                      !.conflict = IsConflict(r, up[d].sent[i]),
                                      !.since = now]]
    BY <1>1, <1>8 DEF CheckChange, TypeOK
  <2>3. up[d] \in UploadRequest /\ up[d].todo \ {i} \in SUBSET Items
    BY <1>2 DEF UploadRequest
  <2>4. Advance(up[d], up[d].todo \ {i}).phase # "save"
    BY <2>3, AdvancePhase
  <2>5. up'[d] \in UploadRequest /\ up' = [up EXCEPT ![d] = up'[d]]
    BY <1>1, <1>2, <2>2 DEF TypeOK
  <2>6. up'[d].phase = "save" => up'[d].since = now
    BY <1>2, <2>2, <2>3, <2>4 DEF UploadRequest
  <2>7. QED
    BY <1>2, <1>6, <2>1, <2>5, <2>6
<1>9. ASSUME NEW d \in Devices, NEW i \in Items, TakeUnchecked(d, i)
      PROVE  OverlapInv'
  <2>1. UNCHANGED <<now, table, local, cursor, down, saveTime, windows>>
    BY <1>9 DEF TakeUnchecked
  <2>2. up'[d] \in UploadRequest /\ up' = [up EXCEPT ![d] = up'[d]] /\ up'[d].since = now
    BY <1>1, <1>2, <1>9 DEF TakeUnchecked, TypeOK, UploadRequest
  <2>3. QED
    BY <1>2, <1>6, <2>1, <2>2
<1>10. ASSUME NEW d \in Devices, RejectChange(d)
       PROVE  OverlapInv'
  <2>1. UNCHANGED <<now, table, local, cursor, down, saveTime, windows>>
        /\ up' = [up EXCEPT ![d] = Advance(up[d], up[d].todo \ up[d].item)]
    BY <1>1, <1>10 DEF RejectChange, TypeOK
  <2>2. up[d] \in UploadRequest /\ up[d].todo \ up[d].item \in SUBSET Items
    BY <1>2 DEF UploadRequest
  <2>3. Advance(up[d], up[d].todo \ up[d].item).phase # "save"
    BY <2>2, AdvancePhase
  <2>4. up'[d] \in UploadRequest /\ up' = [up EXCEPT ![d] = up'[d]] /\ up'[d].phase # "save"
    BY <1>1, <1>2, <2>1, <2>3 DEF TypeOK
  <2>5. QED
    BY <1>6, <2>1, <2>4
<1>11. ASSUME NEW d \in Devices, CommitChange(d) PROVE OverlapInv'
  BY <1>1, <1>11, CommitOverlap
<1>12. ASSUME NEW d \in Devices, NEW k \in Kinds, ListKind(d, k) PROVE OverlapInv'
  BY <1>1, <1>12, ListOverlap
<1>13. ASSUME NEW d \in Devices, ReceiveDownload(d) PROVE OverlapInv'
  BY <1>1, <1>13, ReceiveOverlap
<1>14. ASSUME NEW d \in Devices, LoseDownload(d) PROVE OverlapInv'
  <2>1. /\ UNCHANGED <<now, table, local, cursor, up, saveTime, windows>>
        /\ down' = [down EXCEPT ![d] = NoDownload]
    BY <1>14 DEF LoseDownload
  <2>2. down'[d] = NoDownload /\ \A e \in Devices \ {d} : down'[e] = down[e]
    BY <1>1, <2>1 DEF TypeOK
  <2>3. ASSUME NEW e \in Devices, NEW i \in Items PROVE ListedRow(e, i)'
    <3>1. CASE e = d
      BY <2>2, <3>1 DEF ListedRow, NoDownload, NoRow
    <3>2. CASE e # d
      BY <2>1, <2>2, <3>2 DEF OverlapInv, ListedRow
    <3>3. QED
      BY <3>1, <3>2
  <2>4. ASSUME NEW e \in Devices, NEW k \in Kinds PROVE down'[e].from[k] <= now'
    <3>1. CASE e = d
      BY <1>2, <2>1, <2>2, <3>1 DEF NoDownload
    <3>2. CASE e # d
      BY <2>1, <2>2, <3>2 DEF OverlapInv
    <3>3. QED
      BY <3>1, <3>2
  <2>5. QED
    BY <1>1, <1>2, <1>3, <2>1, <2>3, <2>4, QuietStep
<1>15. CASE UNCHANGED vars
  <2>1. now <= now' /\ UNCHANGED <<table, local, cursor, up, down, saveTime, windows>>
    BY <1>2, <1>15 DEF vars
  <2>2. QED
    BY <1>1, <1>3, <2>1, UploadStep
<1>16. QED
  BY <1>4, <1>5, <1>7, <1>8, <1>9, <1>10, <1>11, <1>12, <1>13, <1>14, <1>15
     DEF Next, Upload, Download

(***************************************************************************)
(* The invariant holds in every reachable state.                           *)
(***************************************************************************)
THEOREM OverlapInvariant == Spec => []OverlapInv
BY InitOverlapInv, NextOverlapInv, PTL DEF Spec

(***************************************************************************)
(* A device misses a change only when its save overlapped one of the       *)
(* device's downloads, whatever the number of devices, the resolution of   *)
(* the clock, the interleaving of requests and the failures.               *)
(***************************************************************************)
THEOREM MissedOnlyOnOverlapHolds == Spec => []MissedOnlyOnOverlap
<1>1. OverlapInv => MissedOnlyOnOverlap
  BY DEF OverlapInv, Accounted, Overlaps, MissedOnlyOnOverlap
<1>2. QED
  BY <1>1, OverlapInvariant, PTL
===============================================================================
