------------------------------ MODULE SyncStore ------------------------------
(***************************************************************************)
(* The store that drives the sync service of a tab: the actions of         *)
(* useSyncStore (frontend/src/store/sync-store.ts) with dedupedRequest     *)
(* (frontend/src/lib/request-deduplication.ts), and the part of            *)
(* SyncService that starts and ends cycles: startSync, stopSync, the       *)
(* isSyncing guard of syncNow.  What a cycle does in between is module     *)
(* SyncService; here it ends with some conflicts or fails.                 *)
(*                                                                         *)
(* A conflict is known by its id, a fresh UUID each time it is detected.   *)
(***************************************************************************)
EXTENDS Naturals, FiniteSets

CONSTANTS
    Conflicts,   \* ids of conflicts
    MaxCycles    \* bound on the number of cycles

ASSUME SyncStoreAssumption == IsFiniteSet(Conflicts) /\ MaxCycles \in Nat

VARIABLES
    overtaken,   \* history: a call of resolveConflict was made while the cycle runs
    cycle,       \* who started the cycle under way: "none", "store" or "service"
    timer,       \* SyncService.intervalId is set
    enabling,    \* an enableSync that waits for a cycle of the store
    syncEnabled, \* the rest is state of the store
    syncing,     \* isSyncing
    status,
    pending,     \* pendingConflicts
    calls,       \* calls of resolveConflict that wait for the server
    cycles,      \* cycles started so far
    reported,    \* history: the conflicts that cycles have reported, to the store or not
    settled      \* history: the conflicts whose resolution the server acknowledged

vars == <<overtaken, cycle, timer, enabling, syncEnabled, syncing, status, pending, calls,
          cycles, reported, settled>>

Init ==
    /\ overtaken = FALSE
    /\ cycle = "none"
    /\ timer = FALSE
    /\ enabling = FALSE
    /\ syncEnabled = FALSE
    /\ syncing = FALSE
    /\ status = "idle"
    /\ pending = {}
    /\ calls = {}
    /\ cycles = 0
    /\ reported = {}
    /\ settled = {}

-----------------------------------------------------------------------------
\* Mutated forms of definitions, named BugX for X, are what the runs must catch.

Start(owner) ==
    /\ cycles < MaxCycles
    /\ cycle' = owner
    /\ overtaken' = FALSE
    /\ cycles' = cycles + 1

\* The store's syncNow.  dedupedRequest gives every caller the promise of a call under
\* way, which lasts as long as the store's cycle; else service.syncNow starts a cycle, or
\* throws at once because one is running.
CallSyncNow ==
    IF cycle = "none"
    THEN Start("store") /\ syncing' = TRUE /\ status' = "syncing"
    ELSE syncing' = FALSE /\ status' = "error" /\ UNCHANGED <<overtaken, cycle, cycles>>

SyncNow ==
    /\ cycle # "store"
    /\ CallSyncNow
    /\ UNCHANGED <<timer, enabling, syncEnabled, pending, calls, reported, settled>>

\* enableSync: startSync starts a cycle of the service and sets the timer, unless the timer
\* is set or auto sync is off; then the store's own syncNow is called and waited for.
\* "auto" is config.autoSyncEnabled, which updateConfig may have set to anything by then.
EnableSync(auto) ==
    /\ ~enabling
    /\ timer' = (timer \/ auto)
    /\ syncEnabled' = TRUE
    /\ \/ /\ cycle = "store"
          /\ status' = "idle"
          /\ UNCHANGED <<overtaken, cycle, cycles, syncing>>
       \/ /\ cycle # "store" /\ (timer \/ ~auto)
          /\ CallSyncNow
       \/ /\ cycle # "store" /\ ~timer /\ auto
          /\ IF cycle = "none" THEN Start("service")
                              ELSE UNCHANGED <<overtaken, cycle, cycles>>
          /\ syncing' = FALSE /\ status' = "error"
    /\ enabling' = (cycle' = "store")
    /\ UNCHANGED <<pending, calls, reported, settled>>

\* The interval's callback.
PeriodicSync ==
    /\ timer
    /\ cycle = "none"
    /\ Start("service")
    /\ UNCHANGED <<timer, enabling, syncEnabled, syncing, status, pending, calls, reported,
                   settled>>

\* updateConfig with a new interval: a service that has its timer set is stopped and
\* started, which leaves it stopped if auto sync is off.
UpdateInterval(auto) ==
    /\ timer
    /\ timer' = auto
    /\ IF auto /\ cycle = "none" THEN Start("service")
                                ELSE UNCHANGED <<overtaken, cycle, cycles>>
    /\ UNCHANGED <<enabling, syncEnabled, syncing, status, pending, calls, reported, settled>>

\* disableSync: a cycle under way goes on.
DisableSync ==
    /\ timer' = FALSE
    /\ syncEnabled' = FALSE
    /\ status' = "idle"
    /\ UNCHANGED <<overtaken, cycle, enabling, syncing, pending, calls, cycles,
                   reported, settled>>

\* resetSync: disableSync and the default state; a cycle under way goes on.
ResetSync ==
    /\ timer' = FALSE
    /\ syncEnabled' = FALSE
    /\ syncing' = FALSE
    /\ status' = "idle"
    /\ pending' = {}
    /\ UNCHANGED <<overtaken, cycle, enabling, calls, cycles, reported, settled>>

BugStatusAfter(found) == IF found = {} THEN "synced" ELSE "conflict"
StatusAfter(found) == IF found = {} THEN "idle" ELSE "conflict"

\* A cycle ends with the conflicts found; only a cycle of the store reports them to it.
FinishCycle(found) ==
    /\ cycle # "none"
    /\ found \cap reported = {}
    /\ reported' = reported \cup found
    /\ IF cycle = "store"
       THEN /\ syncing' = FALSE
            /\ status' = StatusAfter(found)
            /\ pending' = found
       ELSE UNCHANGED <<syncing, status, pending>>
    /\ cycle' = "none"
    /\ overtaken' = FALSE
    /\ enabling' = FALSE
    /\ UNCHANGED <<timer, syncEnabled, calls, cycles, settled>>

\* The catch block of the store's syncNow.
BugAfterFailure == syncing
AfterFailure == FALSE

FailCycle ==
    /\ cycle # "none"
    /\ IF cycle = "store"
       THEN syncing' = AfterFailure /\ status' = "error"
       ELSE UNCHANGED <<syncing, status>>
    /\ cycle' = "none"
    /\ overtaken' = FALSE
    /\ enabling' = FALSE
    /\ UNCHANGED <<timer, syncEnabled, pending, calls, cycles, reported, settled>>

\* resolveConflict up to its request; calls for one conflict share a promise.
MayCall(c) == c \in pending /\ \A call \in calls : call.conflict # c

ResolveConflict(c) ==
    /\ MayCall(c)
    /\ calls' = calls \cup {[conflict |-> c, pending |-> pending]}
    /\ overtaken' = (cycle # "none")
    /\ UNCHANGED <<cycle, timer, enabling, syncEnabled, syncing, status, pending,
                   cycles, reported, settled>>

BugRemaining(call) == call.pending
Remaining(call) == call.pending \ {call.conflict}

\* The server agrees: what is pending becomes what was pending at the time of the call,
\* without this conflict.
ResolveAnswered(call) ==
    /\ calls' = calls \ {call}
    /\ pending' = Remaining(call)
    /\ status' = IF Cardinality(call.pending) = 1 THEN "idle" ELSE "conflict"
    /\ settled' = settled \cup {call.conflict}
    /\ UNCHANGED <<overtaken, cycle, timer, enabling, syncEnabled, syncing, cycles,
                   reported>>

ResolveFailed(call) ==
    /\ calls' = calls \ {call}
    /\ UNCHANGED <<overtaken, cycle, timer, enabling, syncEnabled, syncing, status,
                   pending, cycles, reported, settled>>

ClearConflicts ==
    /\ pending' = {}
    /\ status' = "idle"
    /\ UNCHANGED <<overtaken, cycle, timer, enabling, syncEnabled, syncing, calls,
                   cycles, reported, settled>>

-----------------------------------------------------------------------------

EndCycle == (\E found \in SUBSET Conflicts : FinishCycle(found)) \/ FailCycle

EndCall == \E call \in calls : ResolveAnswered(call) \/ ResolveFailed(call)

Next ==
    \/ SyncNow \/ PeriodicSync \/ DisableSync \/ ResetSync
    \/ \E auto \in BOOLEAN : EnableSync(auto) \/ UpdateInterval(auto)
    \/ EndCycle
    \/ \E c \in Conflicts : ResolveConflict(c)
    \/ EndCall
    \/ ClearConflicts

\* A cycle waits for requests one after the other, and each of them settles unless another
\* request overtakes it (module SyncClient).  Nothing is assumed of the calls.
Spec == Init /\ [][Next]_vars /\ WF_vars(~overtaken /\ EndCycle)

-----------------------------------------------------------------------------

\* The types of all variables.
TypeOK ==
    /\ cycle \in {"none", "store", "service"}
    /\ overtaken \in BOOLEAN /\ (overtaken => cycle # "none")
    /\ timer \in BOOLEAN /\ enabling \in BOOLEAN
    /\ syncEnabled \in BOOLEAN /\ syncing \in BOOLEAN
    /\ enabling => cycle = "store"
    /\ status \in {"idle", "syncing", "error", "conflict"}
    /\ pending \subseteq Conflicts
    /\ calls \subseteq [conflict : Conflicts, pending : SUBSET Conflicts]
    /\ cycles \in 0 .. MaxCycles
    /\ reported \subseteq Conflicts /\ settled \subseteq Conflicts

\* The store shows a sync under way only while a cycle that it started runs: no order of
\* enabling, disabling, configuring, resetting and failing cycles leaves the flag behind and the
\* button dead.
SyncingIsReal == syncing => cycle = "store"

\* A settled conflict is or gets pending only through the answer to a call for another
\* conflict, made when both were pending: one user working through the list, one conflict
\* after the other, never sees a settled one again.
ReturnsOnlyByOverlap ==
    [][\A c \in (settled' \cap pending') \ (settled \cap pending) :
          \E call \in calls \ calls' : c \in call.pending /\ call.conflict # c]_vars

\* A sync that the store shows ends, unless the user resolves a conflict meanwhile.
SyncingEnds == syncing ~> ~syncing \/ overtaken

=============================================================================
