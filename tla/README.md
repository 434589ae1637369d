# Formal model of HowlerOps

TLA+ modules, TLC runs and TLAPS proofs for the parts of HowlerOps whose correctness depends
on the order in which things happen: cloud sync, the tabs of one browser, the registry of
database connections and its schema cache, schedules, and alerts. HowlerOps is a desktop
(Wails, Go) and browser (TypeScript) SQL client with a cloud service (Go). Paths below are
relative to the repository's root.

## 1. Inventory

| Component | Code | State | Operations | Talks to |
|---|---|---|---|---|
| Cloud sync service | `internal/sync/service.go`, `internal/server/sync_routes.go`, `pkg/storage/turso/sync_store_adapter.go`, `app_data_store.go` | rows with version, time stamp and soft deletion | Upload, Download, the conflict routes | devices (HTTP), Turso (SQL) |
| Sync cycle of a tab | `frontend/src/lib/sync/sync-service.ts`, the repositories of connections and saved queries, `lib/sanitization/connection-sanitizer.ts` | records in IndexedDB and SQLite, the cursor in localStorage, the `isSyncing` guard | syncNow, resolveConflict, create/update/delete | the service over HTTP; called by the store and by its own timer |
| Sync store | `frontend/src/store/sync-store.ts`, `lib/request-deduplication.ts` | status, isSyncing, pendingConflicts, the timer | enable, disable, reset, syncNow, resolve, clear | the cycle |
| Sync HTTP client | `frontend/src/lib/api/sync-client.ts` | one AbortController, one timer per request | request, cancel | fetch |
| Tab lifecycle | `frontend/src/lib/sync/tab-lifecycle.ts`, `broadcast-sync.ts` | per tab: a map of the tabs heard from, isPrimary | start, heartbeat, cleanup, receive, beforeunload | the other tabs over a BroadcastChannel |
| Connection manager | `pkg/database/manager.go`, `services/database.go` | four maps under one RWMutex, the instances in them | create, remove, close, query a database, switch database | pools, the schema cache, the federation engine |
| Schema cache | `pkg/database/schema_cache.go`, `schema_cache_manager.go` | cached schemas with fingerprints and times | get, cache, invalidate, refresh | the connection manager |
| Pools and SSH tunnels | `pkg/database/pool.go`, `ssh_tunnel.go` | open pools, tunnels, keep-alives | open, reconnect, close | drivers |
| Scheduler | `internal/scheduler/scheduler.go`, `pkg/storage/turso/schedule_store.go`, `internal/templates/service.go` | the table of schedules; running, the stop channel, the ticker, a semaphore | start, stop, check, execute, execute now; create, pause, resume, delete | the database queried, the cron library |
| Alert monitor | `internal/alertsched/monitor.go`, `internal/alertsvc/service.go`, `alert_service_wails.go` | the table of alerts; what of them fires, in memory | save, delete, enable; start, stop, tick, check, dispatch | the connection manager's queries, the user interface |
| Password transfer, store broadcast | `frontend/src/lib/sync/password-transfer.ts`, `zustand-broadcast-middleware.ts` | pending requests, debounced updates | request, approve, time out; broadcast, apply | the channel of the tabs |

`PROJECT.json` lists the rest (authentication, organisations, quotas, federation, AI and
RAG, backup, notebooks, updater, user interface) with the reason why each is not modelled.

What makes these parts hard, and what must hold of each:

* **Cloud sync service.** Two devices upload and download at once, and no request is a
  transaction: a row is read, checked and upserted in three statements. A version number
  must keep naming one payload, no payload may be replaced without anybody being told, and
  what a device has not been given must come with its next download.
* **Sync cycle.** The user edits while the cycle awaits, and edits start from SQLite's
  record, which knows nothing of sync; a request fails before or after the server acted; the
  answer lacks fields. An edit must stay pending until the server has been offered it, the
  cursor must not pass rows that were not merged, and a merge must not overwrite what the
  server never stored.
* **Sync store.** The store's cycle, the service's timer, and the user who enables,
  disables, resets and resolves, all without waiting for one another. The syncing flag must
  not be left behind; a settled conflict must not return.
* **Sync client.** Requests overlap though the client has a single controller. Each must end
  though the server is silent.
* **Tab lifecycle.** Tabs crash, timers and messages are late, a farewell may be taken back.
  Live tabs must stay in the maps, dead ones leave them, somebody must lead.
* **Scheduler.** Nothing claims a schedule between reading that it is due and writing its
  next run; executions overlap, fail and are cut off; Stop waits for goroutines while Start
  may add more and a second Stop may pass. Nothing may run after a Stop that returns, a time
  for which the next run has been written may not come due again, a pause must take hold,
  and what is due must be run.
* **Schema cache.** The lock is never held while a database is read, and an entry is
  checked, renewed, dropped and filled by requests that overlap with a switch, a removal and
  each other. Nothing older than the limits may be returned; a switch must leave nothing of
  before it.
* **Alert monitor.** An alert is remembered as fired before it is told, and telling may
  fail; rows change while a tick goes through them. A breach must be told once, and must be
  told for the alert as it is.
* **Connection manager.** Connecting happens outside the mutex. No instance may leak, none
  may be handed out closed, a query must run on the database it names, and a removed session
  must not come back.

`PROJECT.json` lists 40 hazards at their lines, each with the properties that watch it or
with the reason why none does yet.

## 2. Modules

| Module | Models | Abstract for |
|---|---|---|
| `SyncServer` | the cloud service and its store, one action per statement of a request | the `server` variable of `SyncService`, where a request is atomic |
| `SyncService` | a tab's cycle, one action per stretch between awaits, and the repositories | a cycle of `SyncStore`, which ends with some conflicts or fails |
| `SyncStore` | the actions of the store and who starts cycles | `SyncTab` |
| `SyncClient` | `request()` and `cancel()` | |
| `SyncTab` | the store, the requests of its cycle and the calls that resolve conflicts, over one `SyncClient` | implements `SyncStore` |
| `TabLifecycle` | all tabs of a browser, the channel between them, and time | |
| `ConnectionManager` | `Manager`, every call split at its locks | |
| `SchemaCache` | one entry of the cache, the requests on it, and the events of the manager around it | |
| `Scheduler` | loops, executions, users and the table of schedules, one action per statement | |
| `AlertEdges` | what the monitor's comment promises: one notice for each rising edge | `AlertMonitor` |
| `AlertMonitor` | the rows, the loop with its checks and dispatches, the service that owns it | implements `AlertEdges` |
| `..._proofs` | theorems about the module they are named for | |
| `MC...` | the model values and symmetries for TLC | |

Names are those of the code where TLA+ allows it; `PROJECT.json` maps every definition to
its lines. Operators named `BugX` are mutated forms of X used to see that each property can
fail; no specification uses them.

**SyncServer.** `table` holds the rows of the three tables, `up[d]` and `down[d]` the
requests of device d. `BeginUpload` is POST /upload; `CheckChange` is
`processConnectionChange` or `processSavedQueryChange` up to the decision to save;
`TakeUnchecked` stands for deletions and history, which nothing checks; `CommitChange` is
the SQL statement, with the time stamp taken somewhere between the check and it;
`RejectChange` a failed one. A failed SELECT is one of the outcomes of `ReadsOf`, since the
code takes it for a missing row. `ListKind` is one SELECT of `Download`, `ReceiveDownload`
its time stamp and the adoption of the rows by the device (external). Time has ticks finer
than the seconds of the store: `Sec` drops the fraction as `Time.Unix` does. `saveTime`,
`forked` and `windows` are history variables that the properties read and no action does,
but for `windows` in the bound on downloads.

**SyncService.** `service` is the cycle with what it keeps in local variables across awaits:
the snapshot and the changes found in it, the rows, the conflicts, what is left to merge. An
edit is two actions, `BeginEdit` (the record and the clock are read) and `PutEdit`
(IndexedDB is written after SQLite has been), since a cycle may read in between;
`CreateQuery` is one, as a saved query is put in IndexedDB first. What `BeginEdit` reads is
`Existing`: SQLite's record, synced and of version 0, or IndexedDB's when SQLite has none or
fails. SQLite is the set of ids that it holds, since nothing else of it reaches a cycle.
`suspicious` is the payloads in which the sanitizer finds a credential; `Passed` is what it
lets through, and the cycle goes on without the rest. `ReceiveRows` is what the client makes
of an answer: fields that are missing are replaced (`Received`, `Cursor`), and dates that
are text make the comparison of versions throw (`DatesOnly`), which leaves the phase to
`FailCycle`. `FailCycle` may happen in every phase; a request that fails after the server
acted is `ServerUpload` followed by `FailCycle`. `skipped`, `raced`, `held`, `stored` and
`refused` are history.

**SyncStore.** A cycle is a value of `cycle`: who started it. `EnableSync(auto)` starts the
timer and its first cycle only when auto sync is on; `UpdateInterval(auto)` is
`updateConfig`, which restarts a timer that runs. `dedupedRequest` is the condition `cycle #
"store"` and the one call per conflict in `MayCall`. Calls of `resolveConflict` keep the
list they read before the await.

**SyncClient.** `controller` is the field, `timers` the armed timeouts in the order in which
they fire, which is the order of arming as all have one length.

**SyncTab.** It extends `SyncStore` and instantiates `SyncClient` with one request for the
cycle, which makes one at a time, and one for each conflict. `turn` is where `syncNow`
stands: before a request or in one (upload, download, or the resolution of a conflict
without the user). Every step is one of the store, one of the client, or one of both: a
request that throws ends its cycle (`OwnThrows`) or its call (`CallThrows`), also when the
timer of another aborts it. `SyncStore` leaves open when a cycle ends; here it ends only as
its requests do.

**TabLifecycle.** Time stamps are kept as ages, so that time needs no bound. `Elect` is
`electPrimaryTab` with the heartbeat that a change of status sends. Each tab opens once; a
reload is a new tab.

**ConnectionManager.** `SameName` is `strings.EqualFold`: each name has a `Fold`, which its
spellings share. `connections`, `connectionNames`, `connectionConfigs` and `dbConnections`
are the four maps. `calls[c]` is what the goroutine c has read and carries from one critical
section to the next. `Query` and `QueryAgain` are the two resolutions of the target in
`ExecuteQueryOnDatabase`; `LookupTarget`, `OpenTarget`, `InsertTarget` the slow path of
`getExecutionTarget`; `ReadSwitch`, `UseDatabase`, `RecordSwitch` the switch in place;
`ReadSwitch`, `Reopen`, `Swap`, `DropOld` the one that reconnects.

**SchemaCache.** `request[r]` is where a call of GetMultiConnectionSchema or RefreshSchema
stands, with the copy it holds; `handle` is whether its instance is still the session's, has
been replaced by a switch, or is closed. `Lookup` is GetCachedSchema under the read lock,
`ReadSchemas` and `Compare` the check outside it, `Touch` and `Invalidate` what it does to
the entry that is there by then; `ReadTables` and `Put` fill the cache. `SwitchSwaps`,
`SwitchDisconnects`, `SwitchInvalidates` (twice: the manager and its caller) are the switch.
Times are ages with an end where nothing tells them apart. `byAlias` chooses whether the
requests name the id of the session or an alias, under which nothing is invalidated. `seen`,
`from` and `doubt` are history.

**Scheduler.** `loop` holds the goroutines of `run`: several when Start comes between the
steps of Stop. `closing` and `waiting` are the calls of Stop before and after
`close(stopChan)`; as `stopChan` is made once, the second one to close it panics, which ends
the process. `slot` holds the executions, which are as many as the semaphore counts; an
execution is a query, then a write. `row` is the table: `ExecuteNow` looks at its status
only, the loop at its copy. `resume[s]` is a call of `ResumeSchedule`, which reads the
clock, writes the next run and then the status. A cron expression is the set of the minutes
that match it; an empty one never matches, and its next run is `Never`, the zero time, which
is always due. `ProcessEnds` is a crash, or that panic. `settled` and `afterOff` are
history; `settled` starts anew when a schedule is deleted, as it is never due again.

**AlertMonitor.** `loop` is the tick under way: its specs still to check, and the alert in
hand. `Note` is the section under the lock, `Emit` and `DispatchFails` the two results of a
dispatch. `notices` counts what was told since the last clear evaluation, which is what
`AlertEdges` is about; `fired` is its `fires`. `outdated` is history: the alerts of which
the loop has fired for, or has in hand, a row that was changed since.

### Assumptions of the models

* What the service sends differs from what `frontend/src/types/sync.ts` declares. It calls
  its fields `saved_queries`, `query_history` and `sync_timestamp`
  (`internal/sync/types.go:158-165`), so in an answer of this service the client finds no
  queries and takes its own clock as the cursor; dates are JSON strings. `ReceiveRows`
  allows every subset of the fields the client reads, so this answer is one of those that
  are checked, and so is the one declared. A connection comes with `id` (`types.go:61`)
  where the store of IndexedDB wants `connection_id` (`schema.ts:36`), so its put throws,
  which is a `FailCycle` in the merge. `internal/server/sync_routes.go:68-76` answers 400 to
  an upload without `device_id` and `changes`, which is what this client sends: a request
  that fails, as `FailCycle` has it. With the names as they are no cycle of this client and
  this service completes; the model covers these failures and what happens once the names
  agree, in full or in part.
* Device and server clocks agree in `SyncService`. In `SyncServer` only the server's clock
  is read, but for the times an edit or a history entry carries.
* `SyncServer` has the conflict storage that is wired: a stub. `SyncService` resolves
  conflicts automatically in its runs (`AutoResolve = TRUE`): the default is not to, which
  is the same cycle with fewer steps.
* Sync of connections and saved queries is what is modelled of a cycle; reports and query
  history are left out. One `update` or `create` at a time waits for SQLite; a bound, not a
  rule of the code.
* A browser's timer does not fire early and is late by no more than `TimerLateness`,
  messages by no more than `MessageDelay`, and one round of both fits the stale timeout.
* A schedule keeps its cron expression (`UpdateSchedule` leaves `next_run_at` as it was,
  which is then a time of the old one). It matches again and again, or never. Times are
  minutes, the resolution of cron. The ticker is left out: a loop that waits may read the
  table at any time.
* The rule of an alert is a threshold; anomaly and forecast rules compute more but also
  yield "fires" or not. A tick that cannot read the alerts does nothing.
* The names of a connection do not share entries of the schema cache, so one connection and
  one of its names are followed. A request ends within `RequestTime`.
* An instance has one database. (A MySQL pool runs USE on one of its connections; see the
  plan.)

## 3. Runs

Every run is exhaustive for its bounds. The numbers are distinct states.

| Run | States | Shows |
|---|---|---|
| `sync_server` | 2.32 M | `TypeOK`, `VersionNamesPayload`, `NoSilentLoss`, `MissedOnlyOnOverlap` for a saved query and a history entry shared by two devices, 2 ticks a second, the clock about to pass one: hidden deleted rows, inserts that fail on a known id, listings one after the other |
| `sync_service` | 408 k | `EditsPending`, `NothingMissed`, `LostOnlyWhenRaced` for a connection and a query, with answers complete or not |
| `sync_service_overwritten` | counterexample | `NeverSilentlyOverwritten` fails |
| `sync_store` | 77 k | `SyncingIsReal`, `ReturnsOnlyByOverlap`, and the liveness property `SyncingEnds` |
| `sync_tab` | 226 k | `InStep`, `HangsOnlyWhenOvertaken`, the liveness property `CallEnds`, and that the composition implements `SyncStore` with its fairness |
| `sync_client_timeout` | counterexample | `TimesOut` fails |
| `tab_lifecycle` | 542 k | `LiveTabsKept`, `LoneSurvivorLeads`, `GoneAreForgotten` |
| `connection_manager` | 547 k | `InstancesOwned`, `RegisteredAreOpen`, `RemovedStaysGone`, `ConfigAgrees`, `NamesLead`, `TargetIsRight` |
| `connection_metadata` | counterexample | `MetadataTarget` fails |
| `schema_cache` | 2.23 M | `VerifiedRecently`, `SwitchForgets` |
| `scheduler` | 545 k | `QuietAfterStop`, `NotDueAgain`, `OffStartsOnceMore`, and the liveness property `DueRuns` |
| `alert_monitor` | 38.7 k | `NoticesAgree`, the liveness property `BreachIsTold`, and that the monitor implements `AlertEdges` with its fairness |

Several properties name the window in which the code does lose something, and say that it
happens in no other: a row is missed only if its save overlapped a download
(`MissedOnlyOnOverlap`), or, on the device, in the tick of a listing, before the device's
clock that stands in for the server's time, or in a list that the answer lacked
(`NothingMissed`); an edit is overwritten only if it was made after the cycle had read it,
the sanitizer kept it back or the server refused it (`LostOnlyWhenRaced`); a removed session
comes back only if a call had read it before (`RemovedStaysGone`); a time that is settled
comes due again only if it passed between computing the next run and writing it
(`NotDueAgain`). Settled means that a run or a resume wrote the next run: a time whose run
failed to write it, or was cut off, is due until one does, and runs again. A query may run
on a database whose name differs from the target's in case alone (`TargetIsRight`).

### Bounds, and why they are enough

* `sync_server`: two devices are what a lost update, a fork and a missed row take. Two edits
  give every device one payload of its own, or one device an edit of the other's; 2 ticks a
  second with the clock starting at the last tick of one let a save fall before, in and
  after the second of a download; two downloads let a device download, edit, upload and
  download again. A connection template is a query whose deleted rows are not hidden from
  the check, so the query's cases include its own; the proofs cover all three sorts.
* `sync_service`: one item of each sort, since they differ in the mark an edit leaves and in
  when a cycle reads them. Edits, remote edits and deletions are two together (edit and
  remote edit, edit twice, edit and delete); cycles are as many as fit, for only
  `MaxVersion`, above which no cycle starts, and the clock are bounded. The clock makes one
  step, which no cycle waits for: a save is before, in or after the tick of a listing, and
  the device's clock is that of the listing or past it. A version that grows is why
  `MaxVersion` is needed: each cycle that uploads adds 2. Edits of the connection go through
  SQLite or IndexedDB, whichever answers.
* `sync_store`: three conflicts make lists in which one is resolved, one is being resolved
  and one is left; four cycles give one of each owner before and after a failure, a reset or
  a new interval. Cycles are counted to bound the ids of conflicts.
* `sync_tab`: the cycle's request and the calls of two conflicts make three requests on one
  controller, of which the second can be overtaken while the timer of the first is due. Two
  cycles let a request of the first call outlive its cycle; one conflict of a cycle is
  resolved without the user, so that a request can fail which does not end the cycle. Two
  requests suffice for the counterexample of `sync_client_timeout`.
* `tab_lifecycle`: the properties relate a tab to another one. The stale timeout is the
  least that the assumption on lateness allows, which is where they would break first. Each
  tab announces to close once.
* `connection_manager`: two goroutines beside removals and `Close`, which are single
  critical sections and need no goroutine; two sessions, one of each sort of engine or two
  of one; three databases, two of which differ in the case of their names: one is the home
  of the PostgreSQL connection and an alias of the other, the second and the third are what
  queries and switches name; three instances, which allow a session, its replacement and a
  cached or redundant one.
* `schema_cache`: two requests on one entry, two databases to switch between, two lists of
  tables and the one that lacks what could not be read. Fresh for less than one unit,
  expired after more than one, a request within one: every pair of ages the code compares
  occurs on both sides.
* `scheduler`: one schedule, since executions of different ones share only the slots; two
  slots let its executions overlap. Cron matches every minute or never, the clock takes one
  step and then stays: a time is before, at and after the next run. Two loops and two calls
  of Stop at a time are what Stop, Start, Stop takes, with the panic of the second; the
  proofs are for any number.
* `alert_monitor`: two alerts, so that one can fail, or change, while the other is in hand;
  two levels and two rules, one of which always fires.

### Deadlock, symmetry, fairness

Deadlock is checked, except for `SyncServer` (the edits, downloads and the clock run out).
Devices, goroutines, sessions, and the requests, databases and lists of the schema cache are
interchangeable and symmetric in the safety runs; runs with liveness properties use no
symmetry.

* `SyncStore` assumes `WF_vars(~overtaken /\ EndCycle)`: a cycle ends unless a call overlaps
  it. `SyncTab` shows that this holds of the composition (`ImplementsStore`).
* `SyncTab`: timers fire (the browser's), the tab's own steps are taken (`Local`, `Apply`),
  and a body that has begun ends, because the timer is cleared before it
  (`sync-client.ts:150`): this last is assumed of the server, and nothing else is, not even
  that it ever sends headers.
* `SyncClient`, for its counterexample: timers fire.
* `Scheduler`: time passes, and goroutines run. Strong fairness of `Check` says that the
  database does not fail every read; of `Hand`, that a goroutine blocked on the semaphore
  gets a slot that is given back again and again, as Go's channels serve their waiters in
  order; `WF` of the executions, that a query ends, for which it has a timeout.
* `AlertMonitor`: the loop runs, and neither the query of an alert nor its dispatch fails
  every time (strong fairness of `Evaluate` and `Emit`); without the latter nothing could be
  told.

The other specifications state safety only.

## 4. Findings

* A merge overwrites local edits that no conflict names (`sync_service_overwritten`),
  against `docs/sync-protocol.md:25`.
* A request overtaken by another loses its timeout (`sync_client_timeout`), against
  `sync-client.ts:121`.
* The handle for editable metadata of a query may be of another database than the query's
  (`connection_metadata`), against `services/database.go:322-324`.

The rest is stated by what the passing runs allow, not by runs of their own.

* Two conflicts resolved at a time: the second answer writes back the list it read before,
  so the first is pending again, against `sync-store.ts:283` ("Remove resolved conflict from
  pending"); `ReturnsOnlyByOverlap` says that this is the only way.
* The primary tab is elected by the last heartbeat and by each tab over its own map, so it
  need not be the oldest (`frontend/src/lib/sync/README.md:178`), nor one;
  `LoneSurvivorLeads` is what does hold.
* Client and service disagree about the names of fields, as described under the assumptions:
  the cursor is the device's clock, the rows saved between the listing and that moment are
  passed over, queries are not received, connections cannot be put, and uploads are refused.
  `NothingMissed` exempts what this misses, by time and by list.
* `ConnectionRepository.update` starts from SQLite's record, which "is the source of truth"
  and counts as synced with version 0 (`connection-repository.ts:76-77`, 175-187, 212): the
  edit loses the pending mark and the version that IndexedDB had, and is uploaded by its
  time alone. `EditsPending` holds since that time is later than the cursor, but for edits
  that race with a cycle or are no later than the cursor.
* `detectConflicts` calls `getTime()` on dates that are text: on those of a downloaded query
  (`sync-service.ts:612`), and on those of a connection that an earlier cycle put as it came
  (574). Such a cycle fails, and so does every later one that meets the same row.
* Database names are compared without case (`manager.go:517` and 618). PostgreSQL's are
  case-sensitive when quoted: a query that targets "sales" runs on "Sales" if that is the
  live database, and a switch between them does nothing.
* `Monitor.Reset` should be called "after it is edited or removed, so it can fire again on
  the next breach" (`monitor.go:101-102`); nothing calls it. An alert that is edited,
  disabled, or deleted and made anew while it is remembered as fired is not told until an
  evaluation has cleared it. `BreachIsTold` leaves these alerts out until then.
* `Stop` twice panics: `stopChan` is made once, and the second call closes a closed channel
  (`scheduler.go:126`), be it after a restart or, with a Start in between, during the first.
  A scheduler that was restarted has a loop that ends at its first look at the channel.
* A cron expression that never matches gets the zero time as its next run, which is earlier
  than any clock: the schedule is due at every tick (`schedule_store.go:274-277`).

## 5. Proofs

TLAPS checks eight modules, for every value of the constants that satisfies the named
assumption of the module they extend (`SyncServerAssumption`, `SyncServiceAssumption`,
`SyncStoreAssumption`, `SyncTabAssumption`, `TabLifecycleAssumption`,
`ConnectionManagerAssumption`, `SchemaCacheAssumption`, `SchedulerAssumption`,
`AlertAssumption`); nothing else is assumed. Each follows one argument: an invariant that is
inductive, one lemma per action that it is preserved, and the theorem by temporal logic.
Every invariant and every action property that a passing run checks is proved.

| Theorem | Module | Property |
|---|---|---|
| `TypeCorrect`, `VersionNamesPayloadHolds`, `NoSilentLossHolds`, `MissedOnlyOnOverlapHolds` | `SyncServer_proofs` | the properties they are named for: all of the run |
| `TypeCorrect`, `EditsPendingHolds`, `NothingMissedHolds`, `LostOnlyWhenRacedHolds` | `SyncService_proofs` | the properties they are named for: all of the run |
| `StoreTypeCorrect`, `SyncingIsRealHolds`, `ReturnsOnlyByOverlapHolds` | `SyncTab_proofs` | `TypeOK` and the two safety properties of the store |
| `TabRefinesStore`, `TabStoreInvariant`, `InStepHolds`, `HangsOnlyWhenOvertakenHolds` | `SyncTab_proofs` | `TabSpec => Init /\ [][Next]_vars`, the safety part of `ImplementsStore`; the store's invariants in the composition; the composition's own |
| `NeverStuck`, `AnyTimerEndsTheRest` | `SyncTab_proofs` | the safety part of the argument for `CallEnds` |
| `TypeCorrect`, `LiveTabsKeptHolds`, `LoneSurvivorLeadsHolds`, `GoneAreForgottenHolds` | `TabLifecycle_proofs` | the properties they are named for: all of the run |
| `TypeCorrect`, `InstancesOwnedHolds`, `RegisteredAreOpenHolds`, `RemovedStaysGoneHolds`, `TargetIsRightHolds`, `NamesLeadHolds`, `ConfigAgreesHolds` | `ConnectionManager_proofs` | the properties they are named for: all of the run |
| `TypeCorrect`, `VerifiedRecentlyHolds`, `SwitchForgetsHolds` | `SchemaCache_proofs` | the properties they are named for: all of the run |
| `TypeCorrect`, `QuietAfterStopHolds`, `NotDueAgainHolds`, `OffStartsOnceMoreHolds`, `LoopsAreCounted` | `Scheduler_proofs` | all safety properties of the run, and how many loops there can be |
| `TypeCorrect`, `NoticesAgreeHolds`, `RefinesEdges` | `AlertMonitor_proofs` | the invariants of the run, and `Spec => Edges!SafeSpec`, the safety part of `KeepsPromise` |

* **SyncServer**, versions (`VersionInvariant`). That a version names one payload in the
  table is not inductive: devices and requests hold copies that come back later. The
  invariant therefore says of every copy there is (what the devices hold, what their
  requests carry, what a download has read) that its version is at most that of the row, and
  that it was made from the row's payload if the two are equal, unless two requests forked
  the row (`CopiesAgree`); and of a request about to save how what it read compares with
  what it sends (`RequestsChecked`).
* **SyncServer**, listings (`OverlapInvariant`). `MissedOnlyOnOverlap` compares a row with a
  cursor, and both move while requests are under way. The invariant adds what a download in
  progress owes: an item of a kind it has listed is among its rows, or was out of its scope,
  or has been saved since (`ListedRow`); that a cursor other than 0 is the time stamp of a
  completed download, whose listings are in the past (`CursorFrom`); and that a row is
  stamped no earlier than in the second its save began (`Stamped`). A save that is not in
  scope of a cursor then has the download of that cursor to blame, and a download that
  completes has itself.
* **SyncService** (`ServiceInvariance`). Two properties of states between cycles, and both
  depend on where in a cycle the code stands. `EditsPending`: an edit that the server was
  never offered is newer than the cursor (for a connection read from SQLite its time is all
  that says so); once a cycle has read past its record it is among the changes in hand, with
  that payload, or it raced with the cycle (`PendingAt`); a saved query says so itself, as
  it is unsynced. `NothingMissed`: the rows up to the cursor have been held or skipped
  (`Covered`), and while an answer is under way, those older than the listing have been held
  or are in it (`Answered`); while it is merged, those up to the cursor it will become,
  which is the listing's time or the device's clock, have been held, skipped, or wait to be
  merged (`Arriving`). That a cursor is always a time that has been skipped in every list
  (`Times`) is what keeps a row saved later in its very tick from counting. `Payloads` says
  whose payload each copy is. A cycle that fails falls back to what holds of the old cursor,
  in every phase.
* **SyncStore** (`StoreInvariant`). `ReturnsOnlyByOverlap` speaks of a step. It needs to
  know that a cycle's conflicts are new, hence `KnownConflicts`: all that is pending,
  settled or in a call has been reported before, and the conflict of a call is in the list
  that the call read.
* **SyncTab**. For the refinement no invariant is needed beyond the store's: a request that
  throws is one of the ways the store's cycle fails (`ThrowsIsAllowed`), and every other
  step of the client is a step of the store or changes none of its variables
  (`TabStepIsAllowed`). The store's theorems then carry over to the composition
  (`TabStoreInvariant`). That a request hangs only when overtaken (`TabInvariance`) rests on
  two facts about the shared controller: a request that waits is the controller's or was
  overtaken, and it has a timer or was overtaken; a timer that fires aborts the controller's
  request, its own or a later one, and so leaves without a timer only those that were
  overtaken. `InStep` is kept because the store's cycle and a call end in the very step in
  which their request does. From the same invariant: a cycle or a call that was not
  overtaken always has a step to take, a body to wait for or an armed timer (`NeverStuck`),
  and any timer ends all that wait and were not overtaken (`AnyTimerEndsTheRest`).
* **TabLifecycle** (`LifeInvariance`). `LiveTabsKept` is about two tabs and about time. For
  each pair of open tabs, what one knows of the other, or the last message it has under way
  from it, is a heartbeat no older than the other's timer (`Fresh`, `Alive`), as long as the
  other has not said farewell. A timer is at most one interval and its lateness old, so the
  cleanup, which drops what is older than the timeout, drops none of them; `LiveTabsKept`
  follows when no message is under way. What a map holds of tabs that are gone is no older
  than the timeout and the age of the cleanup timer (`Cleaned`), which gives the bound of
  `GoneAreForgotten`. The inequality between intervals and lateness is used in two places,
  the step of the cleanup and the arrival of a message, and nowhere else; what it needs of a
  step of one tab is stated once (`TabStep`).
* **ConnectionManager** (`ManagerInvariant`). None of its properties is inductive, as the
  instance a goroutine has made is in no map while the mutex is released. The invariant
  adds: no instance is in the maps twice and those in them are open (`MapsOK`); the instance
  of a call that will register, cache or drop it is its own (`CallsApart`), so that
  disconnecting it closes nobody else's; an instance bound to a database is filed under that
  database (`Filed`), which is why a query gets the right one from either map; a call's
  session is registered or removed, and in `overlapped` if removed (`Reads`); and no session
  is switched in place by one goroutine and by reconnecting in another (`OneSort`), without
  which a USE could fall on an instance that is filed under another name. Two more
  invariants rest on it. `NamesInv`: the session last registered for a saved connection is
  there or removed, so that one that comes back, by a switch, is one that `NamesLead` does
  not speak of. `ConfigInv`: the instance that a USE will reach is its session's or
  nobody's, never one about to be registered, and what a call is about to record is the
  database already, unless two USEs overlapped.
* **SchemaCache** (`IInv`). How long ago a schema was true depends on three ages. The
  invariant bounds what each entry, and each copy a request works on, has `seen` by its own
  ages and by that of the request in hand (`Bounded`); a switch is in none of them
  (`SwitchForgets`).
* **Scheduler**. Four invariants beside the types. `Stopped`: the loops are no more than the
  scheduler that runs and the calls of Stop that have not returned (`LoopsCounted`), an
  execution of a loop has one of them to answer for it (`LoopRunsCounted`), and only one
  call waits, as the channel is closed once (`WaitsForClosed`); `QuietAfterStop` is the case
  of none. `ExistingInv`: only schedules that exist are read, run and resumed. `SettledInv`:
  what a loop holds, and what it has started, was due when the list was read
  (`ReadWhenDue`), so what its run settles is in the past and below every next cron time
  (`SettledUpToNow`); a schedule that never matches has nothing but `Never` written
  (`NeverRuns`). `AccountInv`: the starts since the schedule was last active, and the number
  of loops that still hold it, are together at most the number of loops.
* **AlertMonitor** (`IInv`). An alert about to be told is recorded as fired
  (`TellingFired`), which makes every step of the loop one of `AlertEdges` (`Evaluate`,
  `Notify`, `Forget`) or a stutter.

What stays with TLC is liveness: `SyncingEnds`, `CallEnds`, `DueRuns`, `BreachIsTold` and
the fairness of the two refinements (`ImplementsStore`, `KeepsPromise`), whose safety is
proved. Fairness needs ENABLED, which is out of the prover's reach; what `CallEnds` needs
beside fairness is `NeverStuck` and `AnyTimerEndsTheRest`. Out of reach too is induction
over data: no proved operator is recursive. Sequences are reasoned about by their positions:
what is known of a list of timers or messages is which it holds, that it repeats none, and
what its last one is.

## 6. Not modelled, and why

Per component, in `PROJECT.json`. In the components that are modelled:

* Sync: the `sync_metadata` row, which nothing reads; validation of payloads; the limits of
  a listing and of the history, whose `has_more` no caller can follow up; deletions, which
  listings leave out; progress, configuration and the persisted copy in the store.
* Tabs: `stop()` and `destroy()` of the tab manager, which the application does not call,
  and its retry queue.
* Connections: transient instances, streams, transactions and metadata jobs of the manager;
  what a constructor opens before `Connect` fails (`postgres.go:42`); the rows of query
  results.
* Scheduler: changes of a schedule's query or cron expression while it runs
  (`UpdateSchedule`), the rows that record an execution and the mails that report it.
* Schema cache: hashes (a list of tables stands for its fingerprint), statistics, and
  engines that switch in place, whose schema does not change.
* Alerts: the drivers' queries and the channels a message is sent to; only whether each
  succeeds.

## 7. Plan

In order of what is at stake:

1. `ConnectionPool`: Close, Reconnect and the keep-alive of tunnels; and the USE of MySQL,
   which reaches one connection of a pool, not the pool. It refines the instance of
   `ConnectionManager`.
2. `SyncService` implements an abstract cycle that `SyncStore` uses; and the server of
   `SyncService`, whose requests are atomic, made as weak as `SyncServer`, whose are not.
3. `SchemaCache` composed with `ConnectionManager`, whose events invalidate it.
4. `PasswordTransfer` and `StoreBroadcast` over the channel of `TabLifecycle`: requests,
   approvals and timeouts; updates applied out of order.
5. Authentication: refresh against password change, after the above.

Proofs: with every invariant of the runs proved, what is next is the refinements of 1 and 2,
step by step, from the invariants above: `Arriving` and `Pending` say what an abstract cycle
promises, and `OverlapInvariant` what a weaker server would.
