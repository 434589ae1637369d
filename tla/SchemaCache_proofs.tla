-------------------------- MODULE SchemaCache_proofs --------------------------
(***************************************************************************)
(* For any requests, databases, lists and times: what the cache returns    *)
(* was seen in a database recently, and what is cached under the id of a   *)
(* session does not outlive a switch of its database.                      *)
(***************************************************************************)
EXTENDS SchemaCache, TLAPS

USE SchemaCacheAssumption

Entries == {NoSchema} \cup Schema
Copies == {NoSchema} \cup Copy

(* How long ago the list of an entry was seen, by its own times. *)
EntryOK(e) ==
    e # NoSchema =>
        /\ e.age <= TTL => e.seen <= e.age + RequestTime
        /\ ~e.doubt /\ e.checked < FreshTime => e.seen <= e.checked + 2 * RequestTime

(* The same of what a request holds, by its age; and an entry other than the one it checks  *)
(* was cached after it began. *)
RequestOK(q, e) ==
    /\ q.phase \in {"detect", "compare", "touch", "put", "done"} => q.schema \in Copy
    /\ q.phase \in {"detect", "compare"} => q.schema.seen <= TTL + RequestTime + q.age
    /\ q.phase = "touch" =>
          q.schema.seen <= (IF q.schema.doubt THEN TTL + RequestTime ELSE 0) + q.age
    /\ q.phase = "put" => q.schema.seen <= q.age
    /\ q.phase = "done" =>
          q.schema.seen <= (IF q.schema.doubt THEN TTL ELSE FreshTime - 1) + 2 * RequestTime
    /\ q.phase \in {"detect", "compare", "touch"} /\ e # NoSchema /\ e.list # q.schema.list =>
          e.seen <= RequestTime + q.age

Bounded == EntryOK(entry) /\ \A r \in Requests : RequestOK(request[r], entry)

IInv == TypeOK /\ Bounded /\ SwitchForgets

Phases == {"idle", "resolve", "lookup", "detect", "compare", "touch", "invalidate", "fetch",
           "tables", "put", "done"}

-----------------------------------------------------------------------------
(* What is done to entries and copies. *)

LEMMA Numbers == /\ FreshTime \in Nat /\ FreshTime >= 1 /\ TTL \in Nat /\ RequestTime \in Nat
                 /\ FreshTime <= TTL /\ Horizon \in Nat /\ Horizon >= TTL + 2 * RequestTime
BY DEF Horizon

LEMMA OlderFacts ==
    ASSUME NEW cap \in Nat, NEW n \in 0..cap
    PROVE  /\ Older(n, cap) \in 0..cap /\ n <= Older(n, cap) /\ Older(n, cap) <= n + 1
           /\ Older(n, cap) < cap => Older(n, cap) = n + 1
BY DEF Older

LEMMA EntryParts ==
    ASSUME NEW e \in Schema
    PROVE  /\ e.list \in Readings /\ e.age \in 0..(TTL + 1) /\ e.checked \in 0..FreshTime
           /\ e.seen \in 0..Horizon /\ e.from \in {"current", "overtaken", "survivor"}
           /\ e.doubt \in BOOLEAN
BY DEF Schema

LEMMA CopyParts ==
    ASSUME NEW c \in Copy
    PROVE  c.list \in Readings /\ c.seen \in 0..Horizon /\ c.doubt \in BOOLEAN
BY DEF Copy

LEMMA SurvivorFacts ==
    ASSUME NEW e \in Schema
    PROVE  LET f == [e EXCEPT !.from = "survivor"] IN
           /\ f \in Schema /\ f.list = e.list /\ f.age = e.age /\ f.checked = e.checked
           /\ f.seen = e.seen /\ f.doubt = e.doubt
BY DEF Schema

LEMMA AgedFacts ==
    ASSUME NEW e \in Schema
    PROVE  LET f == [e EXCEPT !.age = Older(@, TTL + 1), !.checked = Older(@, FreshTime),
                              !.seen = Older(@, Horizon)] IN
           /\ f \in Schema /\ f.list = e.list /\ f.from = e.from /\ f.doubt = e.doubt
           /\ f.age = Older(e.age, TTL + 1) /\ f.checked = Older(e.checked, FreshTime)
           /\ f.seen = Older(e.seen, Horizon)
<1>1. /\ Older(e.age, TTL + 1) \in 0..(TTL + 1) /\ Older(e.checked, FreshTime) \in 0..FreshTime
      /\ Older(e.seen, Horizon) \in 0..Horizon
  <2>1. TTL + 1 \in Nat /\ FreshTime \in Nat /\ Horizon \in Nat
    BY Numbers
  <2>2. e.age \in 0..(TTL + 1) /\ e.checked \in 0..FreshTime /\ e.seen \in 0..Horizon
    BY EntryParts
  <2> QED
    BY <2>1, <2>2, OlderFacts
<1> QED
  BY <1>1 DEF Schema

LEMMA AgedCopyFacts ==
    ASSUME NEW c \in Copy
    PROVE  /\ AgedCopy(c) \in Copy /\ AgedCopy(c).list = c.list /\ AgedCopy(c).doubt = c.doubt
           /\ AgedCopy(c).seen <= c.seen + 1
<1>1. Older(c.seen, Horizon) \in 0..Horizon /\ Older(c.seen, Horizon) <= c.seen + 1
  BY CopyParts, OlderFacts, Numbers
<1>2. LET d == [c EXCEPT !.seen = Older(@, Horizon)] IN
      /\ d \in Copy /\ d.list = c.list /\ d.doubt = c.doubt /\ d.seen = Older(c.seen, Horizon)
  BY <1>1 DEF Copy
<1> QED
  BY <1>1, <1>2, CopyParts DEF AgedCopy

LEMMA TouchedFacts ==
    ASSUME NEW e \in Schema, NEW c \in Copy
    PROVE  LET f == [e EXCEPT !.checked = 0, !.doubt = @ \/ c.doubt,
                       !.seen = IF e.list = c.list /\ c.seen < @ THEN c.seen ELSE @] IN
           /\ f \in Schema /\ f.list = e.list /\ f.from = e.from /\ f.age = e.age
           /\ f.checked = 0 /\ f.doubt = (e.doubt \/ c.doubt)
           /\ f.seen = IF e.list = c.list /\ c.seen < e.seen THEN c.seen ELSE e.seen
<1>1. (e.doubt \/ c.doubt) \in BOOLEAN
  OBVIOUS
<1>2. (IF e.list = c.list /\ c.seen < e.seen THEN c.seen ELSE e.seen) \in 0..Horizon
  BY EntryParts, CopyParts
<1>3. 0 \in 0..FreshTime
  BY Numbers
<1> QED
  BY <1>1, <1>2, <1>3 DEF Schema

LEMMA CopyWith ==
    ASSUME NEW c \in Copy
    PROVE  /\ [c EXCEPT !.doubt = TRUE] \in Copy /\ [c EXCEPT !.doubt = TRUE].doubt
           /\ [c EXCEPT !.doubt = TRUE].list = c.list /\ [c EXCEPT !.doubt = TRUE].seen = c.seen
           /\ [c EXCEPT !.seen = 0] \in Copy /\ [c EXCEPT !.seen = 0].seen = 0
           /\ [c EXCEPT !.seen = 0].list = c.list /\ [c EXCEPT !.seen = 0].doubt = c.doubt
<1>1. /\ [c EXCEPT !.doubt = TRUE] \in Copy
      /\ [c EXCEPT !.doubt = TRUE].list = c.list /\ [c EXCEPT !.doubt = TRUE].seen = c.seen
  BY DEF Copy
<1>2. [c EXCEPT !.doubt = TRUE].doubt
  BY DEF Copy
<1>3. 0 \in 0..Horizon
  BY Numbers
<1>4. /\ [c EXCEPT !.seen = 0] \in Copy /\ [c EXCEPT !.seen = 0].seen = 0
      /\ [c EXCEPT !.seen = 0].list = c.list /\ [c EXCEPT !.seen = 0].doubt = c.doubt
  BY <1>3 DEF Copy
<1> QED
  BY <1>1, <1>2, <1>4

LEMMA ReadingsType ==
    ASSUME TypeOK, NEW r \in Requests, NEW reading \in ReadingsOf(r)
    PROVE  reading \in Readings
<1>1. request[r].handle \in Handles
  BY DEF TypeOK, Request
<1>2. tables[database] \in Lists /\ \A d \in switch.old : tables[d] \in Lists
  BY DEF TypeOK
<1>3. CASE request[r].handle = "current"
  BY <1>2, <1>3 DEF ReadingsOf, Readings
<1>4. CASE request[r].handle = "replaced"
  BY <1>2, <1>4 DEF ReadingsOf, Readings
<1>5. CASE request[r].handle = "closed"
  BY <1>5 DEF ReadingsOf, Readings
<1> QED
  BY <1>1, <1>3, <1>4, <1>5 DEF Handles

-----------------------------------------------------------------------------
(* Steps of one request. *)

LEMMA RequestParts ==
    ASSUME TypeOK, NEW r \in Requests
    PROVE  /\ request[r] \in Request /\ request[r].phase \in Phases
           /\ request[r].kind \in {"get", "refresh"} /\ request[r].handle \in Handles
           /\ request[r].age \in 0..RequestTime /\ request[r].schema \in Copies
BY DEF TypeOK, Request, Phases, Copies

LEMMA MakeRequest ==
    ASSUME NEW phase \in Phases, NEW kind \in {"get", "refresh"}, NEW handle \in Handles,
           NEW age \in 0..RequestTime, NEW schema \in Copies
    PROVE  [phase |-> phase, kind |-> kind, handle |-> handle, age |-> age, schema |-> schema]
              \in Request
BY DEF Request, Phases, Copies

LEMMA DoneType == ASSUME NEW c \in Copy PROVE Done(c) \in Request
<1>1. 0 \in 0..RequestTime /\ c \in Copies
  BY Numbers DEF Copies
<1> QED
  BY <1>1 DEF Done, Request, Handles, Copies

LEMMA BegunType ==
    ASSUME NEW phase \in Phases, NEW kind \in {"get", "refresh"}, NEW handle \in Handles
    PROVE  Begun(kind, phase, handle) \in Request
BY MakeRequest, Numbers DEF Begun, Copies

LEMMA BegunOK ==
    ASSUME NEW phase \in {"idle", "lookup", "resolve"}, NEW kind, NEW handle, NEW e
    PROVE  RequestOK(Begun(kind, phase, handle), e)
BY DEF Begun, RequestOK

LEMMA Emptied ==
    ASSUME NEW q, NEW e, RequestOK(q, e) PROVE RequestOK(q, NoSchema)
BY DEF RequestOK

Frame == UNCHANGED <<tables, database, connected, switch, byAlias>>

LEMMA OneRequest ==
    ASSUME TypeOK, Frame, NEW r \in Requests, NEW q \in Request,
           request' = [request EXCEPT ![r] = q],
           entry' \in Entries, EntryOK(entry'), RequestOK(q, entry'),
           \A x \in Requests \ {r} : RequestOK(request[x], entry')
    PROVE  TypeOK' /\ Bounded'
<1>1. TypeOK'
  BY DEF TypeOK, Frame, Entries
<1>2. /\ request'[r] = q /\ \A x \in Requests \ {r} : request'[x] = request[x]
  BY DEF TypeOK
<1>3. \A x \in Requests : RequestOK(request'[x], entry')
  BY <1>2
<1> QED
  BY <1>1, <1>3 DEF Bounded, EntryOK, RequestOK

LEMMA SameEntry ==
    ASSUME TypeOK, Bounded, Frame, UNCHANGED entry, NEW r \in Requests, NEW q \in Request,
           request' = [request EXCEPT ![r] = q], RequestOK(q, entry)
    PROVE  TypeOK' /\ Bounded'
<1>1. entry' \in Entries /\ EntryOK(entry') /\ RequestOK(q, entry')
  BY DEF TypeOK, Bounded, Entries
<1>2. \A x \in Requests \ {r} : RequestOK(request[x], entry')
  BY DEF Bounded
<1> QED
  BY <1>1, <1>2, OneRequest

LEMMA NoEntry ==
    ASSUME TypeOK, Bounded, Frame, entry' = NoSchema, NEW r \in Requests, NEW q \in Request,
           request' = [request EXCEPT ![r] = q], RequestOK(q, NoSchema)
    PROVE  TypeOK' /\ Bounded'
<1>1. entry' \in Entries /\ EntryOK(entry') /\ RequestOK(q, entry')
  BY DEF Entries, EntryOK
<1>2. \A x \in Requests \ {r} : RequestOK(request[x], entry')
  BY Emptied DEF Bounded
<1> QED
  BY <1>1, <1>2, OneRequest

(* A move within a request, by what its new phase asks of it. *)
Moved(r, phase, schema) ==
    [phase |-> phase, kind |-> request[r].kind, handle |-> request[r].handle,
     age |-> request[r].age, schema |-> schema]

LEMMA MovedType ==
    ASSUME TypeOK, NEW r \in Requests, NEW phase \in Phases, NEW schema \in Copies,
           Moves(r, phase, schema)
    PROVE  /\ Moved(r, phase, schema) \in Request
           /\ request' = [request EXCEPT ![r] = Moved(r, phase, schema)]
BY RequestParts, MakeRequest DEF Moves, Moved, TypeOK

LEMMA MovedOK ==
    ASSUME NEW r \in Requests, NEW phase \in {"invalidate", "fetch", "tables"}, NEW schema, NEW e
    PROVE  RequestOK(Moved(r, phase, schema), e)
BY DEF RequestOK, Moved

LEMMA BegunStep ==
    ASSUME IInv, NEW r \in Requests, Get(r) \/ FetchFails(r) \/ Return(r)
    PROVE  TypeOK' /\ Bounded'
<1>1. CASE Get(r)
  BY <1>1, BegunType, BegunOK, SameEntry DEF Get, IInv, Frame, Phases, Handles
<1>2. CASE FetchFails(r) \/ Return(r)
  BY <1>2, BegunType, BegunOK, SameEntry DEF FetchFails, Return, Ends, Idle, IInv, Frame, Phases, Handles
<1> QED
  BY <1>1, <1>2

LEMMA LookupStep ==
    ASSUME IInv, NEW r \in Requests, Lookup(r) PROVE TypeOK' /\ Bounded'
<1> DEFINE c == CopyOf(entry)
<1>0. TypeOK /\ Bounded /\ Frame /\ UNCHANGED entry /\ entry \in Entries /\ EntryOK(entry)
  BY DEF IInv, Lookup, Frame, TypeOK, Entries, Bounded
<1>1. CASE AfterLookup(entry) = "done"
  <2>1. entry # NoSchema /\ ~Expired(entry) /\ IsFresh(entry)
    BY <1>1 DEF AfterLookup
  <2>2. entry \in Schema
    BY <1>0, <2>1 DEF Entries
  <2>3. c \in Copy /\ c.seen = entry.seen /\ c.doubt = entry.doubt
    BY <2>1, <2>2, EntryParts DEF CopyOf, Copy
  <2>4. c.seen <= (IF c.doubt THEN TTL ELSE FreshTime - 1) + 2 * RequestTime
    <3>1. entry.age <= TTL /\ entry.checked < FreshTime
      BY <2>1, <2>2, EntryParts, Numbers DEF Expired, IsFresh
    <3>2. CASE entry.doubt
      BY <1>0, <2>1, <2>2, <2>3, <3>1, <3>2, EntryParts, Numbers DEF EntryOK
    <3>3. CASE ~entry.doubt
      BY <1>0, <2>1, <2>2, <2>3, <3>1, <3>3, EntryParts, Numbers DEF EntryOK
    <3> QED
      BY <3>2, <3>3
  <2>5. Done(c) \in Request
    BY <2>3, DoneType
  <2>6. RequestOK(Done(c), entry)
    BY <2>3, <2>4 DEF RequestOK, Done
  <2>7. request' = [request EXCEPT ![r] = Done(c)]
    BY <1>1 DEF Lookup
  <2> QED
    BY <1>0, <2>5, <2>6, <2>7, SameEntry
<1>2. CASE AfterLookup(entry) = "detect"
  <2>1. entry # NoSchema /\ ~Expired(entry)
    BY <1>2 DEF AfterLookup
  <2>2. entry \in Schema
    BY <1>0, <2>1 DEF Entries
  <2>3. c \in Copy /\ c.seen = entry.seen /\ c.list = entry.list
    BY <2>1, <2>2, EntryParts DEF CopyOf, Copy
  <2>4. c.seen <= TTL + RequestTime + request[r].age
    BY <1>0, <2>1, <2>2, <2>3, EntryParts, RequestParts, Numbers DEF EntryOK, Expired
  <2>5. Moves(r, "detect", c)
    BY <1>2 DEF Lookup
  <2>6. RequestOK(Moved(r, "detect", c), entry)
    BY <2>3, <2>4 DEF RequestOK, Moved
  <2> QED
    BY <1>0, <2>3, <2>5, <2>6, MovedType, SameEntry DEF Phases, Copies
<1>3. CASE AfterLookup(entry) \in {"fetch", "invalidate"}
  <2>1. Moves(r, AfterLookup(entry), NoSchema)
    BY <1>3 DEF Lookup
  <2> QED
    BY <1>0, <1>3, <2>1, MovedType, MovedOK, SameEntry DEF Phases, Copies
<1> QED
  BY <1>1, <1>2, <1>3 DEF AfterLookup

LEMMA ReadStep ==
    ASSUME IInv, NEW r \in Requests, ReadSchemas(r) \/ CheckFails(r) PROVE TypeOK' /\ Bounded'
<1> DEFINE q == request[r]  c == q.schema
<1>0. TypeOK /\ Bounded /\ Frame /\ UNCHANGED entry /\ RequestOK(q, entry)
  BY DEF IInv, ReadSchemas, CheckFails, Frame, Bounded
<1>1. CASE q.phase = "detect" /\ Moves(r, "compare", c)
  <2>1. c \in Copy /\ RequestOK(Moved(r, "compare", c), entry)
    BY <1>0, <1>1 DEF RequestOK, Moved
  <2> QED
    BY <1>0, <1>1, <2>1, MovedType, SameEntry DEF Phases, Copies
<1>2. CASE q.phase = "fetch" /\ Moves(r, "tables", NoSchema)
  BY <1>0, <1>2, MovedType, MovedOK, SameEntry DEF Phases, Copies
<1>3. CASE q.phase = "detect" /\ Moves(r, "touch", [c EXCEPT !.doubt = TRUE])
  <2> DEFINE d == [c EXCEPT !.doubt = TRUE]
  <2>1. c \in Copy
    BY <1>0, <1>3 DEF RequestOK
  <2>2. d \in Copy /\ d.doubt /\ d.list = c.list /\ d.seen = c.seen
    BY <2>1, CopyWith
  <2> HIDE DEF d
  <2>3. RequestOK(Moved(r, "touch", d), entry)
    BY <1>0, <1>3, <2>2 DEF RequestOK, Moved
  <2> QED
    BY <1>0, <1>3, <2>2, <2>3, MovedType, SameEntry DEF Phases, Copies, d
<1> QED
  BY <1>1, <1>2, <1>3 DEF ReadSchemas, CheckFails

LEMMA CompareStep ==
    ASSUME IInv, NEW r \in Requests, Compare(r) PROVE TypeOK' /\ Bounded'
<1> DEFINE q == request[r]  c == q.schema
<1>0. /\ TypeOK /\ Bounded /\ Frame /\ UNCHANGED entry /\ RequestOK(q, entry)
      /\ q.phase = "compare" /\ q.age \in Nat
  BY RequestParts DEF IInv, Compare, Frame, Bounded
<1>1. c \in Copy
  BY <1>0 DEF RequestOK
<1>2. CASE Moves(r, "touch", [c EXCEPT !.seen = 0])
  <2> DEFINE d == [c EXCEPT !.seen = 0]
  <2>1. d \in Copy /\ d.seen = 0 /\ d.list = c.list
    BY <1>1, CopyWith
  <2> HIDE DEF d
  <2>2. RequestOK(Moved(r, "touch", d), entry)
    BY <1>0, <2>1, Numbers DEF RequestOK, Moved
  <2> QED
    BY <1>0, <1>2, <2>1, <2>2, MovedType, SameEntry DEF Phases, Copies, d
<1>3. CASE Moves(r, "invalidate", NoSchema)
  BY <1>0, <1>3, MovedType, MovedOK, SameEntry DEF Phases, Copies
<1> QED
  BY <1>2, <1>3 DEF Compare, Changed

LEMMA TouchStep ==
    ASSUME IInv, NEW r \in Requests, Touch(r) PROVE TypeOK' /\ Bounded'
<1> DEFINE q == request[r]  c == q.schema
<1>0. /\ TypeOK /\ Bounded /\ Frame /\ EntryOK(entry) /\ RequestOK(q, entry)
      /\ q.phase = "touch" /\ q.age \in 0..RequestTime /\ entry \in Entries
      /\ request' = [request EXCEPT ![r] = Done(c)] /\ entry' = Touched(entry, c)
  BY RequestParts DEF IInv, Touch, Frame, Bounded, TypeOK, Entries
<1>1. /\ c \in Copy /\ c.seen \in Nat /\ c.doubt \in BOOLEAN
      /\ c.seen <= (IF c.doubt THEN TTL + RequestTime ELSE 0) + q.age
  BY <1>0, CopyParts, Numbers DEF RequestOK
<1>2. Done(c) \in Request
  BY <1>1, DoneType
<1>3. c.seen <= (IF c.doubt THEN TTL ELSE FreshTime - 1) + 2 * RequestTime
  BY <1>0, <1>1, Numbers
<1>4. \A e : RequestOK(Done(c), e)
  BY <1>1, <1>3 DEF RequestOK, Done
<1>5. CASE entry = NoSchema
  BY <1>0, <1>2, <1>4, <1>5, SameEntry DEF Touched
<1>6. CASE entry # NoSchema
  <2>1. entry \in Schema
    BY <1>0, <1>6 DEF Entries
  <2>2. /\ entry' \in Schema /\ entry'.list = entry.list /\ entry'.age = entry.age
        /\ entry'.checked = 0 /\ entry'.doubt = (entry.doubt \/ c.doubt)
        /\ entry'.seen = IF entry.list = c.list /\ c.seen < entry.seen THEN c.seen ELSE entry.seen
    BY <1>0, <1>1, <1>6, <2>1, TouchedFacts DEF Touched
  <2>3. entry'.seen <= entry.seen /\ entry'.seen \in Nat /\ entry.seen \in Nat /\ entry.age \in Nat
    BY <1>1, <2>1, <2>2, EntryParts, Numbers
  <2>4. ASSUME ~entry'.doubt PROVE entry'.seen <= 2 * RequestTime
    <3>1. ~c.doubt /\ c.seen <= RequestTime
      BY <1>0, <1>1, <2>2, <2>4, Numbers
    <3>2. CASE entry.list = c.list
      BY <2>2, <2>3, <3>1, <3>2, <1>1, Numbers
    <3>3. CASE entry.list # c.list
      <4>1. entry.seen <= RequestTime + q.age
        BY <1>0, <1>6, <3>3 DEF RequestOK
      <4> QED
        BY <1>0, <2>3, <4>1, Numbers
    <3> QED
      BY <3>2, <3>3
  <2>5. EntryOK(entry')
    <3>1. entry.age <= TTL => entry.seen <= entry.age + RequestTime
      BY <1>0, <1>6 DEF EntryOK
    <3>2. entry'.age <= TTL => entry'.seen <= entry'.age + RequestTime
      BY <2>2, <2>3, <3>1, Numbers
    <3> QED
      BY <2>2, <2>4, <3>2, Numbers DEF EntryOK
  <2>6. ASSUME NEW x \in Requests \ {r} PROVE RequestOK(request[x], entry')
    <3>1. RequestOK(request[x], entry) /\ request[x].age \in Nat
      BY <1>0, RequestParts, Numbers DEF Bounded
    <3> QED
      BY <1>6, <2>2, <2>3, <3>1, Numbers DEF RequestOK
  <2> QED
    BY <1>0, <1>2, <1>4, <2>2, <2>5, <2>6, OneRequest DEF Entries
<1> QED
  BY <1>5, <1>6

LEMMA InvalidateStep ==
    ASSUME IInv, NEW r \in Requests, Invalidate(r) PROVE TypeOK' /\ Bounded'
BY MovedType, MovedOK, NoEntry DEF Invalidate, IInv, Frame, Phases, Copies

LEMMA ReadTablesStep ==
    ASSUME IInv, NEW r \in Requests, ReadTables(r) PROVE TypeOK' /\ Bounded'
<1>1. PICK reading \in ReadingsOf(r) :
         Moves(r, "put", [list |-> reading, seen |-> 0, doubt |-> FALSE])
  BY DEF ReadTables
<1> DEFINE c == [list |-> reading, seen |-> 0, doubt |-> FALSE]
<1>2. c \in Copy /\ c.seen = 0
  BY ReadingsType, Numbers DEF IInv, Copy
<1>3. request[r].age \in Nat
  BY RequestParts, Numbers DEF IInv
<1> HIDE DEF c
<1>4. RequestOK(Moved(r, "put", c), entry)
  BY <1>2, <1>3 DEF RequestOK, Moved
<1> QED
  BY <1>1, <1>2, <1>4, MovedType, SameEntry DEF ReadTables, IInv, Frame, Phases, Copies, c

LEMMA PutStep ==
    ASSUME IInv, NEW r \in Requests, Put(r) PROVE TypeOK' /\ Bounded'
<1> DEFINE q == request[r]  c == q.schema  e == Stamped(c, q.handle)
<1>0. /\ TypeOK /\ Bounded /\ Frame /\ RequestOK(q, entry)
      /\ q.phase = "put" /\ q.age \in 0..RequestTime /\ entry' = e
      /\ request' = [request EXCEPT ![r] = IF q.kind = "get" THEN Done(c) ELSE Idle]
  BY RequestParts DEF IInv, Put, Frame, Bounded
<1>1. /\ c \in Copy /\ c.list \in Readings /\ c.seen \in 0..Horizon /\ c.doubt \in BOOLEAN
      /\ c.seen <= RequestTime
  BY <1>0, CopyParts, Numbers DEF RequestOK
<1>2. 0 \in 0..(TTL + 1) /\ 0 \in 0..FreshTime
  BY Numbers
<1>3. /\ e \in Schema /\ e.list = c.list /\ e.age = 0 /\ e.checked = 0 /\ e.seen = c.seen
  BY <1>1, <1>2 DEF Stamped, Schema
<1> HIDE DEF e
<1>4. EntryOK(e)
  BY <1>1, <1>3, Numbers DEF EntryOK
<1>5. ASSUME NEW x \in Requests \ {r} PROVE RequestOK(request[x], e)
  <2>1. RequestOK(request[x], entry) /\ request[x].age \in Nat
    BY <1>0, RequestParts, Numbers DEF Bounded
  <2> QED
    BY <1>1, <1>3, <2>1, Numbers DEF RequestOK
<1>6. c.seen <= (IF c.doubt THEN TTL ELSE FreshTime - 1) + 2 * RequestTime
  BY <1>1, Numbers
<1>7. RequestOK(Done(c), e)
  BY <1>1, <1>6 DEF RequestOK, Done
<1>8. Done(c) \in Request /\ Idle \in Request /\ RequestOK(Idle, e)
  BY <1>1, DoneType, BegunType, BegunOK DEF Idle, Phases, Handles
<1> QED
  BY <1>0, <1>3, <1>4, <1>5, <1>7, <1>8, OneRequest DEF Entries

LEMMA RefreshStep ==
    ASSUME IInv, NEW r \in Requests, RefreshSchema(r) PROVE TypeOK' /\ Bounded'
<1>0. TypeOK /\ Bounded /\ Frame /\ entry' = NoSchema
  BY DEF IInv, RefreshSchema, Frame
<1>1. CASE ~byAlias
  BY <1>0, <1>1, BegunType, BegunOK, NoEntry DEF RefreshSchema, Phases, Handles
<1>2. CASE byAlias
  <2>1. RequestOK(request[r], NoSchema) /\ request[r] \in Request
    BY <1>0, Emptied, RequestParts DEF Bounded
  <2>2. request' = [request EXCEPT ![r] = request[r]]
    BY <1>0, <1>2 DEF RefreshSchema, TypeOK
  <2> QED
    BY <1>0, <2>1, <2>2, NoEntry
<1> QED
  BY <1>1, <1>2

LEMMA ResolveStep ==
    ASSUME IInv, NEW r \in Requests, Resolve(r) PROVE TypeOK' /\ Bounded'
<1>0. TypeOK /\ Bounded /\ Frame /\ UNCHANGED entry
  BY DEF IInv, Resolve, Frame
<1>1. CASE connected
  <2> DEFINE q == [phase |-> "fetch", kind |-> "refresh", handle |-> "current",
                   age |-> request[r].age, schema |-> NoSchema]
  <2>1. q \in Request
    BY <1>0, RequestParts, MakeRequest DEF Phases, Handles, Copies
  <2>2. RequestOK(q, entry)
    BY DEF RequestOK
  <2>3. request' = [request EXCEPT ![r] = q]
    BY <1>1 DEF Resolve
  <2> QED
    BY <1>0, <2>1, <2>2, <2>3, SameEntry
<1>2. CASE ~connected
  BY <1>0, <1>2, BegunType, BegunOK, SameEntry DEF Resolve, Ends, Idle, Phases, Handles
<1> QED
  BY <1>1, <1>2

-----------------------------------------------------------------------------
(* Steps of the others: the requests keep what they hold, for an entry that is at least as  *)
(* young. *)

Alike(e, f) ==
    f = NoSchema \/ (e # NoSchema /\ f \in Schema /\ f.list = e.list /\ f.age = e.age
                       /\ f.checked = e.checked /\ f.seen = e.seen /\ f.doubt = e.doubt)

LEMMA AlikeOK ==
    ASSUME NEW e, NEW f, EntryOK(e), Alike(e, f)
    PROVE  EntryOK(f) /\ \A q : RequestOK(q, e) => RequestOK(q, f)
BY DEF EntryOK, Alike, RequestOK

(* Requests differ in their handles only. *)
LEMMA HandlesStep ==
    ASSUME IInv, NEW f \in [Requests -> Handles],
           request' = [r \in Requests |->
              [phase |-> request[r].phase, kind |-> request[r].kind, handle |-> f[r],
               age |-> request[r].age, schema |-> request[r].schema]],
           Alike(entry, entry')
    PROVE  request' \in [Requests -> Request] /\ Bounded'
<1>1. ASSUME NEW r \in Requests PROVE request'[r] \in Request /\ RequestOK(request'[r], entry')
  <2>1. request'[r] \in Request
    BY RequestParts, MakeRequest DEF IInv
  <2>2. RequestOK(request[r], entry')
    BY AlikeOK DEF IInv, Bounded
  <2>3. /\ request'[r].phase = request[r].phase /\ request'[r].age = request[r].age
        /\ request'[r].schema = request[r].schema
    OBVIOUS
  <2> QED
    BY <2>1, <2>2, <2>3 DEF RequestOK
<1>2. EntryOK(entry')
  BY AlikeOK DEF IInv, Bounded
<1> QED
  BY <1>1, <1>2 DEF Bounded, EntryOK, RequestOK

LEMMA SameAlike == ASSUME TypeOK PROVE Alike(entry, entry) /\ Alike(entry, NoSchema)
BY DEF Alike, TypeOK

LEMMA RequestsSame ==
    ASSUME IInv, UNCHANGED request, Alike(entry, entry') PROVE Bounded'
<1>1. EntryOK(entry') /\ \A r \in Requests : RequestOK(request[r], entry')
  BY AlikeOK DEF IInv, Bounded
<1> QED
  BY <1>1 DEF Bounded, EntryOK, RequestOK

LEMMA SurvivorAlike ==
    ASSUME TypeOK PROVE Survivor(entry) \in Entries /\ Alike(entry, Survivor(entry))
<1>1. CASE entry = NoSchema
  BY <1>1 DEF Survivor, Entries, Alike
<1>2. CASE entry # NoSchema
  <2>1. entry \in Schema
    BY <1>2 DEF TypeOK
  <2> QED
    BY <1>2, <2>1, SurvivorFacts DEF Survivor, Entries, Alike
<1> QED
  BY <1>1, <1>2

LEMMA SwitchStep ==
    ASSUME IInv, (\E d \in Databases : SwitchSwaps(d)) \/ SwitchDisconnects \/ SwitchInvalidates
    PROVE  TypeOK' /\ Bounded'
<1>0. TypeOK /\ Bounded
  BY DEF IInv
<1>1. ASSUME NEW d \in Databases, SwitchSwaps(d) PROVE TypeOK' /\ Bounded'
  <2> DEFINE f == [r \in Requests |-> Later(request[r].handle)]
  <2>1. f \in [Requests -> Handles]
    BY <1>0, RequestParts DEF Later, Handles
  <2>2. request' = [r \in Requests |->
              [phase |-> request[r].phase, kind |-> request[r].kind, handle |-> f[r],
               age |-> request[r].age, schema |-> request[r].schema]]
    BY <1>1 DEF SwitchSwaps, Rehandled
  <2> HIDE DEF f
  <2>3. entry' = Survivor(entry)
    BY <1>1 DEF SwitchSwaps
  <2>4. request' \in [Requests -> Request] /\ Bounded'
    BY <1>0, <2>1, <2>2, <2>3, SurvivorAlike, HandlesStep
  <2>5. entry' \in Entries
    BY <1>0, <2>3, SurvivorAlike
  <2>6. switch' \in [phase: {"idle", "disconnect", "invalidate", "again"}, old: SUBSET Databases]
    BY <1>0, <1>1 DEF SwitchSwaps, TypeOK
  <2> QED
    BY <1>0, <1>1, <2>4, <2>5, <2>6 DEF SwitchSwaps, TypeOK, Entries
<1>2. CASE SwitchDisconnects
  <2> DEFINE f == [r \in Requests |-> Closing(request[r].handle)]
  <2>1. f \in [Requests -> Handles]
    BY <1>0, RequestParts DEF Closing, Handles
  <2>2. request' = [r \in Requests |->
              [phase |-> request[r].phase, kind |-> request[r].kind, handle |-> f[r],
               age |-> request[r].age, schema |-> request[r].schema]]
    BY <1>2 DEF SwitchDisconnects, Rehandled
  <2> HIDE DEF f
  <2>3. request' \in [Requests -> Request] /\ Bounded'
    BY <1>0, <1>2, <2>1, <2>2, SameAlike, HandlesStep DEF SwitchDisconnects
  <2> QED
    BY <1>0, <1>2, <2>3 DEF SwitchDisconnects, TypeOK
<1>3. CASE SwitchInvalidates
  <2>1. entry' \in Entries /\ Alike(entry, entry') /\ UNCHANGED request
    BY <1>0, <1>3, SameAlike DEF SwitchInvalidates, AfterSwitch, TypeOK, Entries
  <2>2. switch' \in [phase: {"idle", "disconnect", "invalidate", "again"}, old: SUBSET Databases]
    <3>1. [switch EXCEPT !.phase = "again"]
             \in [phase: {"idle", "disconnect", "invalidate", "again"}, old: SUBSET Databases]
      BY <1>0 DEF TypeOK
    <3> QED
      BY <1>3, <3>1 DEF SwitchInvalidates, NoSwitch
  <2> QED
    BY <1>0, <1>3, <2>1, <2>2, RequestsSame DEF SwitchInvalidates, TypeOK, Entries
<1> QED
  BY <1>1, <1>2, <1>3

LEMMA ConnectionStep ==
    ASSUME IInv, RemoveConnection \/ (\E d \in Databases : CreateConnection(d))
    PROVE  TypeOK' /\ Bounded'
<1>0. TypeOK /\ Bounded
  BY DEF IInv
<1>1. CASE RemoveConnection
  <2> DEFINE f == [r \in Requests |-> Removing(request[r].handle)]
  <2>1. f \in [Requests -> Handles]
    BY <1>0, RequestParts DEF Removing, Handles
  <2>2. request' = [r \in Requests |->
              [phase |-> request[r].phase, kind |-> request[r].kind, handle |-> f[r],
               age |-> request[r].age, schema |-> request[r].schema]]
    BY <1>1 DEF RemoveConnection, Rehandled
  <2> HIDE DEF f
  <2>3. request' \in [Requests -> Request] /\ Bounded'
    BY <1>0, <1>1, <2>1, <2>2, SameAlike, HandlesStep DEF RemoveConnection
  <2> QED
    BY <1>0, <1>1, <2>3 DEF RemoveConnection, TypeOK
<1>2. ASSUME NEW d \in Databases, CreateConnection(d), byAlias PROVE TypeOK' /\ Bounded'
  <2>1. UNCHANGED <<entry, request>>
    BY <1>2 DEF CreateConnection
  <2> QED
    BY <1>0, <1>2, <2>1, SameAlike, RequestsSame DEF CreateConnection, TypeOK
<1>3. ASSUME NEW d \in Databases, CreateConnection(d), ~byAlias PROVE TypeOK' /\ Bounded'
  <2>1. entry' = NoSchema /\ request' = [r \in Requests |-> Idle]
    BY <1>3 DEF CreateConnection
  <2>2. Idle \in Request /\ RequestOK(Idle, NoSchema)
    BY BegunType, BegunOK DEF Idle, Phases, Handles
  <2>3. Bounded'
    BY <2>1, <2>2 DEF Bounded, EntryOK, RequestOK
  <2> QED
    BY <1>0, <1>3, <2>1, <2>2, <2>3 DEF CreateConnection, TypeOK
<1> QED
  BY <1>1, <1>2, <1>3

LEMMA TickStep == ASSUME IInv, Tick PROVE TypeOK' /\ Bounded'
<1>0. TypeOK /\ Bounded /\ EntryOK(entry)
  BY DEF IInv, Bounded
<1>1. /\ entry' \in Entries /\ EntryOK(entry')
      /\ entry' # NoSchema => /\ entry # NoSchema /\ entry \in Schema /\ entry' \in Schema
                              /\ entry'.list = entry.list /\ entry'.seen <= entry.seen + 1
  <2>1. CASE entry = NoSchema
    BY <2>1 DEF Tick, AgedEntry, Entries, EntryOK
  <2>2. CASE entry # NoSchema
    <3>1. entry \in Schema
      BY <1>0, <2>2 DEF TypeOK
    <3>2. /\ entry' \in Schema /\ entry'.list = entry.list /\ entry'.doubt = entry.doubt
          /\ entry'.age = Older(entry.age, TTL + 1)
          /\ entry'.checked = Older(entry.checked, FreshTime)
          /\ entry'.seen = Older(entry.seen, Horizon)
      BY <2>2, <3>1, AgedFacts DEF Tick, AgedEntry
    <3>3. /\ entry'.age \in 0..(TTL + 1)
          /\ entry'.age < TTL + 1 => entry'.age = entry.age + 1
          /\ entry'.checked \in 0..FreshTime
          /\ entry'.checked < FreshTime => entry'.checked = entry.checked + 1
          /\ entry'.seen <= entry.seen + 1
      <4>1. TTL + 1 \in Nat /\ FreshTime \in Nat /\ Horizon \in Nat
        BY Numbers
      <4> QED
        BY <3>1, <3>2, <4>1, EntryParts, OlderFacts
    <3>4. /\ entry.age \in Nat /\ entry.checked \in Nat /\ entry.seen \in Nat
          /\ entry'.seen \in Nat
      BY <3>1, <3>2, EntryParts, Numbers
    <3>5. entry'.age <= TTL => entry'.seen <= entry'.age + RequestTime
      BY <1>0, <2>2, <3>3, <3>4, Numbers DEF EntryOK
    <3>6. ~entry'.doubt /\ entry'.checked < FreshTime =>
             entry'.seen <= entry'.checked + 2 * RequestTime
      BY <1>0, <2>2, <3>2, <3>3, <3>4, Numbers DEF EntryOK
    <3> QED
      BY <2>2, <3>1, <3>2, <3>3, <3>5, <3>6 DEF Entries, EntryOK
  <2> QED
    BY <2>1, <2>2
<1>2. ASSUME NEW r \in Requests PROVE request'[r] \in Request /\ RequestOK(request'[r], entry')
  <2> DEFINE q == request[r]
  <2>0. q \in Request /\ q.phase \in Phases /\ RequestOK(q, entry) /\ q.age \in 0..RequestTime
    BY <1>0, RequestParts DEF Bounded
  <2>1. CASE q.phase \in {"idle", "done"}
    <3>1. request'[r] = q
      BY <2>1 DEF Tick
    <3> QED
      BY <2>0, <2>1, <3>1 DEF RequestOK
  <2>2. CASE q.phase \notin {"idle", "done"}
    <3>1. /\ request'[r] = [phase |-> q.phase, kind |-> q.kind, handle |-> q.handle,
                            age |-> q.age + 1, schema |-> AgedCopy(q.schema)]
          /\ q.age < RequestTime
      BY <2>2 DEF Tick
    <3>2. q.age + 1 \in 0..RequestTime
      BY <2>0, <3>1, Numbers
    <3>3. AgedCopy(q.schema) \in Copies
      <4>1. q.schema \in Copies
        BY <1>0, RequestParts
      <4> QED
        BY <4>1, AgedCopyFacts DEF Copies, AgedCopy
    <3>4. request'[r] \in Request
      BY <1>0, <2>0, <3>1, <3>2, <3>3, RequestParts, MakeRequest
    <3>5. ASSUME q.phase \in {"detect", "compare", "touch", "put"}
          PROVE  RequestOK(request'[r], entry')
      <4>1. q.schema \in Copy
        BY <2>0, <3>5 DEF RequestOK
      <4> DEFINE c == AgedCopy(q.schema)
      <4>2. /\ c \in Copy /\ c.list = q.schema.list /\ c.doubt = q.schema.doubt
            /\ c.seen <= q.schema.seen + 1
        BY <4>1, AgedCopyFacts
      <4>3. c.seen \in Nat /\ q.schema.seen \in Nat
        BY <4>1, <4>2, CopyParts, Numbers
      <4>4. /\ request'[r].phase = q.phase /\ request'[r].age = q.age + 1
            /\ request'[r].schema = c
        BY <3>1
      <4> HIDE DEF c
      <4>5. q.phase \in {"detect", "compare"} => c.seen <= TTL + RequestTime + (q.age + 1)
        BY <2>0, <4>2, <4>3, Numbers DEF RequestOK
      <4>6. q.phase = "touch" => c.seen <= (IF c.doubt THEN TTL + RequestTime ELSE 0) + (q.age + 1)
        BY <2>0, <4>2, <4>3, Numbers DEF RequestOK
      <4>7. q.phase = "put" => c.seen <= q.age + 1
        BY <2>0, <4>2, <4>3, Numbers DEF RequestOK
      <4>8. /\ q.phase \in {"detect", "compare", "touch"} /\ entry' # NoSchema
            /\ entry'.list # c.list
            => entry'.seen <= RequestTime + (q.age + 1)
        <5>1. ASSUME entry' # NoSchema PROVE entry.seen \in Nat /\ entry'.seen \in Nat
          BY <1>1, <5>1, EntryParts, Numbers
        <5> QED
          BY <1>1, <2>0, <4>2, <5>1, Numbers DEF RequestOK
      <4> QED
        BY <3>5, <4>2, <4>4, <4>5, <4>6, <4>7, <4>8 DEF RequestOK
    <3>6. ASSUME q.phase \notin {"detect", "compare", "touch", "put"}
          PROVE  RequestOK(request'[r], entry')
      BY <2>2, <3>1, <3>6 DEF RequestOK
    <3> QED
      BY <3>4, <3>5, <3>6
  <2> QED
    BY <2>1, <2>2
<1>3. DOMAIN request' = Requests /\ request' = [r \in Requests |-> request'[r]]
  BY DEF Tick
<1>4. request' \in [Requests -> Request]
  BY <1>2, <1>3
<1>5. Bounded'
  BY <1>1, <1>2 DEF Bounded, EntryOK, RequestOK
<1> QED
  BY <1>0, <1>1, <1>4, <1>5 DEF Tick, TypeOK, Entries

-----------------------------------------------------------------------------
(* SwitchForgets needs the frame of each step only: nothing but a switch makes a survivor.   *)
LEMMA ForgetsStep == IInv /\ TypeOK' /\ [Next]_vars => SwitchForgets'
<1> SUFFICES ASSUME IInv, TypeOK', [Next]_vars, ~byAlias', switch' = NoSwitch, entry' # NoSchema
             PROVE  entry'.from # "survivor"
  BY DEF SwitchForgets
<1>0. TypeOK /\ SwitchForgets
  BY DEF IInv
<1>1. ASSUME UNCHANGED <<switch, byAlias>>, entry # NoSchema, entry'.from = entry.from
      PROVE  entry'.from # "survivor"
  BY <1>0, <1>1 DEF SwitchForgets
<1>2. ASSUME NEW r \in Requests, RequestStep(r) PROVE entry'.from # "survivor"
  <2>1. UNCHANGED <<switch, byAlias>>
    BY <1>2 DEF RequestStep, Get, Lookup, ReadSchemas, CheckFails, FetchFails, Compare, Touch,
                Invalidate, ReadTables, Put, Return, RefreshSchema, Resolve
  <2>2. CASE Touch(r)
    <3> DEFINE c == request[r].schema
    <3>1. c \in Copy /\ entry' = Touched(entry, c)
      BY <2>2 DEF IInv, Bounded, RequestOK, Touch
    <3>2. entry # NoSchema /\ entry \in Schema
      BY <1>0, <3>1 DEF Touched, TypeOK
    <3>3. entry'.from = entry.from
      BY <3>1, <3>2, TouchedFacts DEF Touched
    <3> QED
      BY <1>1, <2>1, <3>2, <3>3
  <2>3. CASE Put(r)
    BY <2>3 DEF Put, Stamped
  <2>4. CASE UNCHANGED entry
    BY <1>1, <2>1, <2>4
  <2> QED
    BY <1>2, <2>2, <2>3, <2>4
       DEF RequestStep, Get, Lookup, ReadSchemas, CheckFails, FetchFails, Compare,
           Invalidate, ReadTables, Return, RefreshSchema, Resolve
<1>3. ASSUME NEW d \in Databases, SwitchSwaps(d) PROVE FALSE
  <2>1. switch'.phase = "disconnect"
    BY <1>3 DEF SwitchSwaps
  <2> QED
    BY <2>1 DEF NoSwitch
<1>4. CASE SwitchDisconnects
  <2>1. switch'.phase = "invalidate"
    BY <1>4 DEF SwitchDisconnects
  <2> QED
    BY <2>1 DEF NoSwitch
<1>5. CASE SwitchInvalidates
  BY <1>5 DEF SwitchInvalidates, AfterSwitch
<1>6. ASSUME NEW d \in Databases, CreateConnection(d) PROVE entry'.from # "survivor"
  BY <1>1, <1>6 DEF CreateConnection
<1>7. CASE RemoveConnection
  BY <1>1, <1>7 DEF RemoveConnection
<1>8. CASE InvalidateSchemaCache
  BY <1>8 DEF InvalidateSchemaCache
<1>9. ASSUME NEW d \in Databases, NEW list \in Lists, Migrate(d, list)
      PROVE  entry'.from # "survivor"
  BY <1>1, <1>9 DEF Migrate
<1>10. CASE Tick
  <2>1. entry # NoSchema /\ entry \in Schema
    BY <1>0, <1>10 DEF Tick, AgedEntry, TypeOK
  <2>2. entry'.from = entry.from
    BY <1>10, <2>1, AgedFacts DEF Tick, AgedEntry
  <2> QED
    BY <1>1, <1>10, <2>1, <2>2 DEF Tick
<1>11. CASE UNCHANGED vars
  BY <1>1, <1>11 DEF vars
<1> QED
  BY <1>2, <1>3, <1>4, <1>5, <1>6, <1>7, <1>8, <1>9, <1>10, <1>11 DEF Next

LEMMA InitInv == Init => IInv
<1> SUFFICES ASSUME Init PROVE IInv
  OBVIOUS
<1>1. Idle \in Request /\ RequestOK(Idle, NoSchema)
  BY BegunType, BegunOK DEF Idle, Phases, Handles
<1>2. TypeOK
  BY <1>1 DEF Init, TypeOK, NoSwitch
<1>3. Bounded /\ SwitchForgets
  BY <1>1 DEF Init, Bounded, EntryOK, SwitchForgets
<1> QED
  BY <1>2, <1>3 DEF IInv

LEMMA StepInv == IInv /\ [Next]_vars => IInv'
<1> SUFFICES ASSUME IInv, [Next]_vars PROVE TypeOK' /\ Bounded'
  BY ForgetsStep DEF IInv
<1>0. TypeOK /\ Bounded
  BY DEF IInv
<1>1. ASSUME NEW r \in Requests, RequestStep(r) PROVE TypeOK' /\ Bounded'
  BY <1>1, BegunStep, LookupStep, ReadStep, CompareStep, TouchStep, InvalidateStep, ReadTablesStep,
     PutStep, RefreshStep, ResolveStep DEF RequestStep
<1>2. CASE (\E d \in Databases : SwitchSwaps(d)) \/ SwitchDisconnects \/ SwitchInvalidates
  BY <1>2, SwitchStep
<1>3. CASE RemoveConnection \/ \E d \in Databases : CreateConnection(d)
  BY <1>3, ConnectionStep
<1>4. CASE InvalidateSchemaCache
  BY <1>0, <1>4, SameAlike, RequestsSame DEF InvalidateSchemaCache, TypeOK
<1>5. ASSUME NEW d \in Databases, NEW list \in Lists, Migrate(d, list) PROVE TypeOK' /\ Bounded'
  BY <1>0, <1>5, SameAlike, RequestsSame DEF Migrate, TypeOK
<1>6. CASE Tick
  BY <1>6, TickStep
<1>7. CASE UNCHANGED vars
  BY <1>0, <1>7, SameAlike, RequestsSame DEF vars, TypeOK
<1> QED
  BY <1>1, <1>2, <1>3, <1>4, <1>5, <1>6, <1>7 DEF Next

LEMMA Invariant == Spec => []IInv
BY InitInv, StepInv, PTL DEF Spec

(* The cache, the requests and a switch keep their types. *)
THEOREM TypeCorrect == Spec => []TypeOK
<1>1. IInv => TypeOK
  BY DEF IInv
<1> QED
  BY <1>1, Invariant, PTL

(* However requests, switches, removals, migrations and failed checks interleave, what      *)
(* GetMultiConnectionSchema returns was seen within five minutes (an hour when checks       *)
(* failed) and the time of two requests.                                                    *)
THEOREM VerifiedRecentlyHolds == Spec => []VerifiedRecently
<1>1. IInv => VerifiedRecently
  BY DEF IInv, Bounded, RequestOK, VerifiedRecently
<1> QED
  BY <1>1, Invariant, PTL

(* A switch of database leaves nothing of before it under the id of the session. *)
THEOREM SwitchForgetsHolds == Spec => []SwitchForgets
<1>1. IInv => SwitchForgets
  BY DEF IInv
<1> QED
  BY <1>1, Invariant, PTL
===============================================================================
