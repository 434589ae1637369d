------------------------------ MODULE AlertEdges ------------------------------
(***************************************************************************)
(* What the monitor of alerts promises (the comment of src/internal/       *)
(* alertsched/monitor.go): an alert is told once when its rule begins to   *)
(* fire, and again only after it has cleared.                              *)
(***************************************************************************)
EXTENDS Naturals

CONSTANT Alerts

VARIABLES
    fires,      \* the last evaluation of each alert, as the monitor remembers it
    notices     \* how often it was told since it last cleared

vars == <<fires, notices>>

Init ==
    /\ fires = [a \in Alerts |-> FALSE]
    /\ notices = [a \in Alerts |-> 0]

(* An evaluation; one that must be forgotten counts as clear. *)
Evaluate(a, fired) ==
    /\ fires' = [fires EXCEPT ![a] = fired]
    /\ notices' = IF fired THEN notices ELSE [notices EXCEPT ![a] = 0]

Notify(a) ==
    /\ fires[a] /\ notices[a] = 0
    /\ notices' = [notices EXCEPT ![a] = 1]
    /\ UNCHANGED fires

(* The memory is that of a process. *)
Forget ==
    /\ fires' = [a \in Alerts |-> FALSE]
    /\ notices' = [a \in Alerts |-> 0]

Next ==
    \/ \E a \in Alerts : Notify(a) \/ \E fired \in BOOLEAN : Evaluate(a, fired)
    \/ Forget

SafeSpec == Init /\ [][Next]_vars

Spec == SafeSpec /\ \A a \in Alerts : WF_vars(Notify(a))
===============================================================================
