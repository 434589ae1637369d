----------------------------- MODULE AlertMonitor -----------------------------
(***************************************************************************)
(* The alerts on time series: the rows of timeseries_alerts (src/pkg/      *)
(* storage/timeseries_alerts.go), the loop that evaluates them (src/       *)
(* internal/alertsched/monitor.go) with what it hands out (internal/       *)
(* alertsvc/service.go), and the service that owns both                    *)
(* (src/alert_service_wails.go).                                           *)
(*                                                                         *)
(* The memory of what has fired is the monitor's, not the rows'.  Nobody   *)
(* calls Reset.  The app starts the monitor when its storage is ready and  *)
(* stops it on shutdown, so a process has one.                             *)
(***************************************************************************)
EXTENDS Naturals, Functions

CONSTANTS
    Alerts,
    Rules,      \* thresholds
    Levels      \* the latest value of a series

ASSUME AlertAssumption == Rules \subseteq Nat /\ Levels \subseteq Nat

VARIABLES
    alerts,     \* the rows
    level,      \* what the query of each alert finds
    process,    \* "off", "on", or "stopping": the context of the loop is cancelled
    loop,       \* the loop of Run
    fired,      \* Monitor.fired
    \* History:
    notices,    \* events since the last evaluation that was clear
    outdated    \* alerts of which the loop knows a row that has been changed since

vars == <<alerts, level, process, loop, fired, notices, outdated>>

NoRow == [enabled |-> FALSE]
Row == [enabled: BOOLEAN, rule: Rules]

(* The specs of a tick still to be checked, and the one in hand. *)
Loop == [pc: {"wait", "next", "note", "dispatch", "returned"},
         specs: UNION {[A -> Rules] : A \in SUBSET Alerts},
         alert: SUBSET Alerts, fires: BOOLEAN]
Idle == [pc |-> "wait", specs |-> <<>>, alert |-> {}, fires |-> FALSE]

Init ==
    /\ alerts = [a \in Alerts |-> NoRow]
    /\ level \in [Alerts -> Levels]
    /\ process = "off"
    /\ loop = Idle
    /\ fired = [a \in Alerts |-> FALSE]
    /\ notices = [a \in Alerts |-> 0]
    /\ outdated = {}

-----------------------------------------------------------------------------
(* The rows, from the user interface. *)

(* History: what the loop has fired for, or is evaluating, is not the alert as it is now. *)
Changed(a) ==
    outdated' = IF fired[a] \/ a \in DOMAIN loop.specs \/ loop.alert = {a}
                THEN outdated \cup {a} ELSE outdated

SaveAlert(a, enabled, rule) ==
    /\ process # "off"
    /\ alerts' = [alerts EXCEPT ![a] = [enabled |-> enabled, rule |-> rule]]
    /\ Changed(a)
    /\ UNCHANGED <<level, process, loop, fired, notices>>

DeleteAlert(a) ==
    /\ process # "off"
    /\ alerts' = [alerts EXCEPT ![a] = NoRow]
    /\ Changed(a)
    /\ UNCHANGED <<level, process, loop, fired, notices>>

SetAlertEnabled(a, enabled) ==
    /\ process # "off" /\ alerts[a] # NoRow
    /\ alerts' = [alerts EXCEPT ![a].enabled = enabled]
    /\ Changed(a)
    /\ UNCHANGED <<level, process, loop, fired, notices>>

(* Their series. *)
Measure(a, n) ==
    /\ level' = [level EXCEPT ![a] = n]
    /\ UNCHANGED <<alerts, process, loop, fired, notices, outdated>>

-----------------------------------------------------------------------------
(* The process.  Its end, by a crash or after the shutdown, cuts the loop anywhere. *)

Start ==
    /\ process = "off"
    /\ process' = "on"
    /\ UNCHANGED <<alerts, level, loop, fired, notices, outdated>>

Stop ==
    /\ process = "on"
    /\ process' = "stopping"
    /\ UNCHANGED <<alerts, level, loop, fired, notices, outdated>>

Exit ==
    /\ process # "off"
    /\ process' = "off"
    /\ loop' = Idle
    /\ fired' = [a \in Alerts |-> FALSE]
    /\ notices' = [a \in Alerts |-> 0]
    /\ outdated' = {}
    /\ UNCHANGED <<alerts, level>>

-----------------------------------------------------------------------------
(* Run.  When the context is done and a tick is due, either case is taken.  A tick on which *)
(* the list of alerts cannot be read has no specs: it changes nothing. *)

Specs == [a \in {b \in Alerts : alerts[b].enabled} |-> alerts[a].rule]

Tick ==
    /\ process # "off" /\ loop.pc = "wait"
    /\ loop' = [loop EXCEPT !.pc = "next", !.specs = Specs]
    /\ outdated' = {a \in outdated : fired[a]}
    /\ UNCHANGED <<alerts, level, process, fired, notices>>

RunReturns ==
    /\ process = "stopping" /\ loop.pc = "wait"
    /\ loop' = [loop EXCEPT !.pc = "returned"]
    /\ UNCHANGED <<alerts, level, process, fired, notices, outdated>>

(* All of the specs: that the context is done is not looked at. *)
TickEnds ==
    /\ loop.pc = "next" /\ DOMAIN loop.specs = {}
    /\ loop' = Idle
    /\ UNCHANGED <<alerts, level, process, fired, notices, outdated>>

Others(a) == Restrict(loop.specs, DOMAIN loop.specs \ {a})

Fires(rule, n) == n >= rule

(* Check: the query and the rule.  The specs are in the order of their last change. *)
Evaluate(a) ==
    /\ loop.pc = "next" /\ a \in DOMAIN loop.specs
    /\ loop' = [pc |-> "note", specs |-> Others(a), alert |-> {a},
                fires |-> Fires(loop.specs[a], level[a])]
    /\ UNCHANGED <<alerts, level, process, fired, notices, outdated>>

(* Mutant: the first error ends the loop. *)
BugAfterError(a) == [Idle EXCEPT !.pc = "returned"]

AfterError(a) == [loop EXCEPT !.specs = Others(a)]

(* The query fails, or there is no data. *)
EvaluateFails(a) ==
    /\ loop.pc = "next" /\ a \in DOMAIN loop.specs
    /\ loop' = AfterError(a)
    /\ UNCHANGED <<alerts, level, process, fired, notices, outdated>>

HandedBack == [loop EXCEPT !.pc = "next", !.alert = {}, !.fires = FALSE]

(* Mutant: every evaluation that fires is told. *)
BugRisingEdge(was, fires) == fires

(* Under the lock. *)
RisingEdge(was, fires) == fires /\ ~was

Note(a) ==
    /\ loop.pc = "note" /\ loop.alert = {a}
    /\ fired' = [fired EXCEPT ![a] = loop.fires]
    /\ notices' = IF loop.fires THEN notices ELSE [notices EXCEPT ![a] = 0]
    /\ outdated' = IF loop.fires THEN outdated ELSE outdated \ {a}
    /\ loop' = IF RisingEdge(fired[a], loop.fires) THEN [loop EXCEPT !.pc = "dispatch"] ELSE HandedBack
    /\ UNCHANGED <<alerts, level, process>>

(* The dispatcher stamps the row, which only the list of alerts shows, and emits the event.  *)
Emit(a) ==
    /\ loop.pc = "dispatch" /\ loop.alert = {a}
    /\ notices' = [notices EXCEPT ![a] = @ + 1]
    /\ loop' = HandedBack
    /\ UNCHANGED <<alerts, level, process, fired, outdated>>

(* Mutant: what was noted stays. *)
BugRolledBack(a) == fired

(* A dispatcher may fail, the app's never does: back to what was remembered before, which   *)
(* was "not firing". *)
RolledBack(a) == [fired EXCEPT ![a] = FALSE]

DispatchFails(a) ==
    /\ loop.pc = "dispatch" /\ loop.alert = {a}
    /\ fired' = RolledBack(a)
    /\ outdated' = outdated \ {a}
    /\ loop' = HandedBack
    /\ UNCHANGED <<alerts, level, process, notices>>

-----------------------------------------------------------------------------
User ==
    \E a \in Alerts :
        \/ \E enabled \in BOOLEAN :
              SetAlertEnabled(a, enabled) \/ \E rule \in Rules : SaveAlert(a, enabled, rule)
        \/ DeleteAlert(a)

CheckStep(a) ==
    Evaluate(a) \/ EvaluateFails(a) \/ Note(a) \/ Emit(a) \/ DispatchFails(a)

RunStep == Tick \/ TickEnds \/ RunReturns \/ \E a \in Alerts : CheckStep(a)

Next ==
    \/ User \/ Start \/ Stop \/ Exit \/ RunStep
    \/ \E a \in Alerts, n \in Levels : Measure(a, n)

(* The loop runs on while its process does, and neither the query of an alert nor its       *)
(* dispatch fails every time. *)
Fairness ==
    /\ WF_vars(RunStep)
    /\ \A a \in Alerts : SF_vars(Evaluate(a)) /\ SF_vars(Emit(a))

Spec == Init /\ [][Next]_vars /\ Fairness

-----------------------------------------------------------------------------
(* The state is of its type (AlertSpec, Monitor and the rows). *)
TypeOK ==
    /\ alerts \in [Alerts -> {NoRow} \cup Row]
    /\ level \in [Alerts -> Levels]
    /\ process \in {"off", "on", "stopping"}
    /\ loop \in Loop
    /\ fired \in [Alerts -> BOOLEAN]
    /\ notices \in [Alerts -> 0..1]
    /\ outdated \in SUBSET Alerts

Dispatching(a) == loop.pc = "dispatch" /\ loop.alert = {a}

(* An alert that the monitor remembers as fired was told exactly once since it last cleared, *)
(* or is being told; one that it does not was not: whatever failed, was edited, disabled or *)
(* deleted meanwhile (Monitor.Check).                                                       *)
NoticesAgree ==
    \A a \in Alerts : notices[a] = IF fired[a] /\ ~Dispatching(a) THEN 1 ELSE 0

(* The monitor implements its promise: one notice for each rising edge, and one for every.  *)
Edges == INSTANCE AlertEdges WITH fires <- fired
KeepsPromise == Edges!Spec

Breached(a, rule) ==
    /\ process = "on" /\ a \notin outdated
    /\ alerts[a].enabled /\ alerts[a].rule = rule /\ Fires(rule, level[a])

(* A breach that lasts, of an alert that stays enabled and as it is, is told for this alert, *)
(* unless that was done and no evaluation cleared it.  The comment of Reset (monitor.go)     *)
(* would have it so for every alert; since nobody calls Reset, an alert that is edited,      *)
(* disabled, or deleted and made anew while it is remembered as fired, or while the loop     *)
(* evaluates it, is left out until an evaluation has cleared it.                             *)
BreachIsTold ==
    \A a \in Alerts, rule \in Rules :
        Breached(a, rule) ~> ((notices[a] = 1 /\ a \notin outdated) \/ ~Breached(a, rule))
===============================================================================
