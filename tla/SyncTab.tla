------------------------------- MODULE SyncTab -------------------------------
(***************************************************************************)
(* The store of a tab, the requests of its cycle and the calls that        *)
(* resolve conflicts, over the one SyncClient they share: SyncStore and    *)
(* SyncClient composed along syncNow and resolveConflict of                *)
(* frontend/src/lib/sync/sync-service.ts.                                  *)
(*                                                                         *)
(* SyncStore takes for granted that a cycle ends when no conflict is being *)
(* resolved beside it.  Here a cycle ends only as its requests do, so the  *)
(* assumption becomes a property: this module implements SyncStore.        *)
(***************************************************************************)
EXTENDS SyncStore, Sequences

CONSTANTS
    Own,      \* the request that the cycle under way makes
    MaxAuto   \* bound on the conflicts of a cycle that are resolved without the user

ASSUME SyncTabAssumption == Own \notin Conflicts /\ MaxAuto \in Nat

VARIABLES
    phase, controller, timers,  \* state of the client
    late,   \* history of the client: requests that another one overtook
    turn,   \* of the cycle: "none", before a request ("start", "middle", "end") or in one
    left    \* conflicts of the cycle still to resolve without the user

clientVars == <<phase, controller, timers, late>>
cycleVars == <<turn, left>>
tabVars == <<vars, clientVars, cycleVars>>

Client == INSTANCE SyncClient WITH Requests <- Conflicts \cup {Own}, overtaken <- late

TabInit ==
    /\ Init /\ Client!Init
    /\ turn = "none" /\ left = 0

-----------------------------------------------------------------------------
\* Mutated forms of definitions, named BugX for X, are what the runs must catch.

\* The user and the interval: a cycle may start, no request is sent yet.
Drive ==
    /\ \/ SyncNow \/ PeriodicSync \/ DisableSync \/ ResetSync \/ ClearConflicts
       \/ \E auto \in BOOLEAN : EnableSync(auto) \/ UpdateInterval(auto)
    /\ turn' = IF cycle = "none" /\ cycle' # "none" THEN "start" ELSE turn
    /\ UNCHANGED <<left, clientVars>>

\* uploadChanges, downloadChanges, and syncClient.resolveConflict in autoResolveConflicts.
RequestAt == [start |-> "upload", middle |-> "download", end |-> "resolve"]

SendOwn ==
    /\ turn \in DOMAIN RequestAt
    /\ turn = "end" => left > 0
    /\ turn' = RequestAt[turn]
    /\ left' = IF turn = "end" THEN left - 1 ELSE left
    /\ Client!Send(Own)
    /\ UNCHANGED vars

\* canSync, the offline check or local storage throws.
FailLocally ==
    /\ turn \in DOMAIN RequestAt
    /\ turn' = "none" /\ left' = 0
    /\ FailCycle
    /\ UNCHANGED clientVars

\* No conflict is left to resolve without the user: the rows are merged and syncNow returns.
Return ==
    /\ turn = "end" /\ left = 0
    /\ turn' = "none"
    /\ \E found \in SUBSET Conflicts : FinishCycle(found)
    /\ UNCHANGED <<left, clientVars>>

\* The request of the cycle answers ...
OwnAnswered ==
    /\ turn' = IF turn = "upload" THEN "middle" ELSE "end"
    /\ IF turn = "download" THEN left' \in 0 .. MaxAuto ELSE UNCHANGED left
    /\ UNCHANGED vars

\* ... or throws, which ends the cycle unless it was made in autoResolveConflicts.
BugOwnThrows == turn' = "none" /\ left' = 0 /\ UNCHANGED vars
OwnThrows ==
    IF turn = "resolve"
    THEN turn' = "end" /\ UNCHANGED <<left, vars>>
    ELSE turn' = "none" /\ left' = 0 /\ FailCycle

\* The user resolves a conflict: the store's call and its request.
Resolve(c) ==
    /\ ResolveConflict(c)
    /\ Client!Send(c)
    /\ UNCHANGED cycleVars

CallsOf(c) == {call \in calls : call.conflict = c}

CallThrows(c) ==
    /\ \E call \in CallsOf(c) : ResolveFailed(call)
    /\ UNCHANGED cycleVars

\* The request of a call was answered: the chosen version is put into IndexedDB, and the
\* store takes the conflict off its list.
Apply(c) ==
    /\ phase[c] = "idle"
    /\ \E call \in CallsOf(c) : ResolveAnswered(call) \/ ResolveFailed(call)
    /\ UNCHANGED <<clientVars, cycleVars>>

\* What a request that throws does to who waits for it.
Throws(r) == IF r = Own THEN OwnThrows ELSE CallThrows(r)

Headers(r) == Client!Headers(r) /\ UNCHANGED <<vars, cycleVars>>

NetworkError(r) == Client!NetworkError(r) /\ Throws(r)

Body(r) ==
    /\ Client!Body(r)
    /\ \/ Throws(r)
       \/ r = Own /\ OwnAnswered
       \/ r # Own /\ UNCHANGED <<vars, cycleVars>>

TimerFires ==
    /\ Client!TimerFires
    /\ LET aborted == {r \in controller : phase[r] # "idle"} IN
       IF aborted = {} THEN UNCHANGED <<vars, cycleVars>>
       ELSE \A r \in aborted : Throws(r)

-----------------------------------------------------------------------------

Local == SendOwn \/ FailLocally \/ Return

TabNext ==
    \/ Drive
    \/ Local
    \/ \E c \in Conflicts : Resolve(c) \/ Apply(c)
    \/ \E r \in Conflicts \cup {Own} : Headers(r) \/ NetworkError(r) \/ Body(r)
    \/ TimerFires

\* Timers fire, local work goes on, and an answer that has begun ends: its body is not
\* under a timer.  Nothing is assumed of when, or whether, an answer begins.
TabSpec ==
    /\ TabInit /\ [][TabNext]_tabVars
    /\ WF_tabVars(TimerFires)
    /\ WF_tabVars(Local)
    /\ \A c \in Conflicts : WF_tabVars(Apply(c))
    /\ \A r \in Conflicts \cup {Own} : WF_tabVars(Body(r))

-----------------------------------------------------------------------------

\* The client's requests are those that the store waits for: the cycle's own exactly in its
\* turns, a conflict's only for a call of it, and a cycle is under way as its turns say.
InStep ==
    /\ Client!TypeOK
    /\ (turn = "none") = (cycle = "none")
    /\ (phase[Own] # "idle") = (turn \in {"upload", "download", "resolve"})
    /\ \A c \in Conflicts : phase[c] # "idle" => CallsOf(c) # {}
    /\ left \in 0 .. MaxAuto

\* A request waits without a limit only if another one was sent while it waited, although
\* the cycle and the calls share one controller and fail each other's requests.
HangsOnlyWhenOvertaken == Client!HangsOnlyWhenOvertaken

\* A call of resolveConflict ends, whether the server answers or not, unless the cycle or
\* another call sent a request while its own waited.
CallEnds == \A c \in Conflicts : CallsOf(c) # {} ~> CallsOf(c) = {} \/ c \in late

\* The store over the client implements SyncStore, which assumes that a cycle ends unless a
\* conflict is resolved while it runs.
ImplementsStore == Spec

=============================================================================
