------------------------- MODULE AlertMonitor_proofs -------------------------
(***************************************************************************)
(* For any alerts, rules and series: the monitor remembers as fired what   *)
(* it told, and every step of it is a step of AlertEdges.                  *)
(***************************************************************************)
EXTENDS AlertMonitor, TLAPS

(* What is being told is remembered as fired. *)
TellingFired == \A a \in Alerts : Dispatching(a) => fired[a]

IInv == TypeOK /\ NoticesAgree /\ TellingFired

Specifications == UNION {[A -> Rules] : A \in SUBSET Alerts}

(* A loop with other fields is a loop. *)
LEMMA LoopFields ==
    ASSUME NEW pc \in {"wait", "next", "note", "dispatch", "returned"},
           NEW specs \in Specifications, NEW alert \in SUBSET Alerts, NEW fires \in BOOLEAN
    PROVE  [pc |-> pc, specs |-> specs, alert |-> alert, fires |-> fires] \in Loop
BY DEF Loop, Specifications

LEMMA LoopParts ==
    ASSUME loop \in Loop
    PROVE  /\ loop.pc \in {"wait", "next", "note", "dispatch", "returned"}
           /\ loop.specs \in Specifications
           /\ loop.alert \in SUBSET Alerts /\ loop.fires \in BOOLEAN
           /\ loop = [pc |-> loop.pc, specs |-> loop.specs, alert |-> loop.alert,
                      fires |-> loop.fires]
BY DEF Loop, Specifications

LEMMA LoopWithPc ==
    ASSUME NEW x \in Loop, NEW pc \in {"wait", "next", "note", "dispatch", "returned"}
    PROVE  /\ [x EXCEPT !.pc = pc] \in Loop
           /\ [x EXCEPT !.pc = pc].pc = pc /\ [x EXCEPT !.pc = pc].alert = x.alert
BY DEF Loop

LEMMA LoopWithSpecs ==
    ASSUME NEW x \in Loop, NEW specs \in Specifications
    PROVE  /\ [x EXCEPT !.specs = specs] \in Loop
           /\ [x EXCEPT !.specs = specs].pc = x.pc
           /\ [x EXCEPT !.pc = "next", !.specs = specs] \in Loop
           /\ [x EXCEPT !.pc = "next", !.specs = specs].pc = "next"
BY DEF Loop, Specifications

LEMMA LoopWithNone ==
    ASSUME NEW x \in Loop
    PROVE  /\ [x EXCEPT !.pc = "next", !.alert = {}, !.fires = FALSE] \in Loop
           /\ [x EXCEPT !.pc = "next", !.alert = {}, !.fires = FALSE].pc = "next"
BY DEF Loop

(* What a tick lists, and what is left of it, are rules of some alerts. *)
LEMMA SpecsType == ASSUME TypeOK PROVE Specs \in Specifications
<1> DEFINE B == {b \in Alerts : alerts[b].enabled}
<1>1. ASSUME NEW a \in B PROVE alerts[a].rule \in Rules
  BY <1>1 DEF TypeOK, NoRow, Row
<1>2. Specs \in [B -> Rules]
  BY <1>1 DEF Specs
<1> QED
  BY <1>2, B \in SUBSET Alerts DEF Specifications

LEMMA OthersType ==
    ASSUME loop \in Loop, NEW a PROVE Others(a) \in Specifications
<1>1. PICK A \in SUBSET Alerts : loop.specs \in [A -> Rules]
  BY LoopParts DEF Specifications
<1>2. Others(a) \in [A \ {a} -> Rules]
  BY <1>1 DEF Others, Restrict
<1> QED
  BY <1>2, A \ {a} \in SUBSET Alerts DEF Specifications

LEMMA IdleType == Idle \in Loop
<1>1. <<>> \in [{} -> Rules]
  OBVIOUS
<1> QED
  BY <1>1, {} \in SUBSET Alerts, LoopFields DEF Idle, Specifications

LEMMA HandedBackType ==
    ASSUME loop \in Loop
    PROVE  HandedBack \in Loop /\ HandedBack.pc = "next"
BY LoopWithNone DEF HandedBack

-----------------------------------------------------------------------------
LEMMA InitInv == Init => IInv
<1> SUFFICES ASSUME Init PROVE IInv
  OBVIOUS
<1>1. loop \in Loop /\ loop.pc = "wait"
  BY IdleType DEF Init, Idle
<1>2. TypeOK
  BY <1>1 DEF Init, TypeOK
<1> QED
  BY <1>1, <1>2 DEF Init, IInv, NoticesAgree, TellingFired, Dispatching

(* Steps that leave the memory, the notices and what is being told alone. *)
LEMMA QuietStep ==
    ASSUME IInv, TypeOK', UNCHANGED <<fired, notices>>,
           loop.pc # "dispatch" \/ UNCHANGED loop, loop'.pc # "dispatch" \/ UNCHANGED loop
    PROVE  IInv'
BY DEF IInv, NoticesAgree, TellingFired, Dispatching

LEMMA StepInv == IInv /\ [Next]_vars => IInv'
<1> SUFFICES ASSUME IInv, [Next]_vars PROVE IInv'
  OBVIOUS
<1> USE DEF IInv
<1>1. CASE User
  <2>1. TypeOK'
    BY <1>1 DEF TypeOK, User, SaveAlert, DeleteAlert, SetAlertEnabled, Changed, Row, NoRow
  <2> QED
    BY <1>1, <2>1, QuietStep DEF User, SaveAlert, DeleteAlert, SetAlertEnabled
<1>2. CASE Start \/ Stop
  BY <1>2, QuietStep DEF Start, Stop, TypeOK
<1>3. CASE Exit
  <2>1. loop' \in Loop /\ loop'.pc = "wait"
    BY <1>3, IdleType DEF Exit, Idle
  <2>2. TypeOK'
    BY <1>3, <2>1 DEF Exit, TypeOK
  <2> QED
    BY <1>3, <2>1, <2>2 DEF Exit, NoticesAgree, TellingFired, Dispatching
<1>4. CASE Tick
  <2>1. loop' \in Loop /\ loop'.pc = "next"
    BY <1>4, SpecsType, LoopWithSpecs DEF Tick, TypeOK
  <2> QED
    BY <1>4, <2>1, QuietStep DEF Tick, TypeOK
<1>5. CASE TickEnds
  <2>1. loop' \in Loop /\ loop'.pc = "wait"
    BY <1>5, IdleType DEF TickEnds, Idle
  <2> QED
    BY <1>5, <2>1, QuietStep DEF TickEnds, TypeOK
<1>6. CASE RunReturns
  <2>1. loop' \in Loop /\ loop'.pc = "returned"
    BY <1>6, LoopWithPc DEF RunReturns, TypeOK
  <2> QED
    BY <1>6, <2>1, QuietStep DEF RunReturns, TypeOK
<1>7. ASSUME NEW a \in Alerts, Evaluate(a) PROVE IInv'
  <2>1. loop.specs[a] \in Rules /\ level[a] \in Levels
    BY <1>7, LoopParts DEF Evaluate, TypeOK, Specifications
  <2>2. Fires(loop.specs[a], level[a]) \in BOOLEAN
    BY <2>1 DEF Fires
  <2>3. loop' \in Loop /\ loop'.pc = "note"
    BY <1>7, <2>2, OthersType, LoopFields, {a} \in SUBSET Alerts DEF Evaluate, TypeOK
  <2> QED
    BY <1>7, <2>3, QuietStep DEF Evaluate, TypeOK
<1>8. ASSUME NEW a \in Alerts, EvaluateFails(a) PROVE IInv'
  <2>1. loop' \in Loop /\ loop'.pc = "next"
    BY <1>8, OthersType, LoopWithSpecs DEF EvaluateFails, AfterError, TypeOK
  <2> QED
    BY <1>8, <2>1, QuietStep DEF EvaluateFails, TypeOK
<1>9. ASSUME NEW a \in Alerts, Note(a) PROVE IInv'
  <2>1. /\ loop' \in Loop /\ (loop'.pc = "dispatch" <=> RisingEdge(fired[a], loop.fires))
        /\ loop'.pc = "dispatch" => loop'.alert = {a}
    BY <1>9, HandedBackType, LoopWithPc DEF Note, TypeOK
  <2>2. TypeOK'
    BY <1>9, <2>1, LoopParts DEF Note, TypeOK
  <2>3. /\ fired'[a] = loop.fires
        /\ \A b \in Alerts \ {a} : fired'[b] = fired[b] /\ notices'[b] = notices[b]
    BY <1>9 DEF Note, TypeOK
  <2>4. notices'[a] = IF loop.fires /\ fired[a] THEN 1 ELSE 0
    BY <1>9 DEF Note, TypeOK, NoticesAgree, Dispatching
  <2>5. TellingFired'
    BY <2>1, <2>3 DEF TellingFired, Dispatching, RisingEdge
  <2>6. NoticesAgree'
    BY <1>9, <2>1, <2>3, <2>4 DEF NoticesAgree, Dispatching, RisingEdge, Note
  <2> QED
    BY <2>2, <2>5, <2>6
<1>10. ASSUME NEW a \in Alerts, Emit(a) PROVE IInv'
  <2>1. loop' \in Loop /\ loop'.pc = "next"
    BY <1>10, HandedBackType DEF Emit, TypeOK
  <2>2. notices[a] = 0 /\ fired[a]
    BY <1>10 DEF Emit, NoticesAgree, TellingFired, Dispatching
  <2>3. notices'[a] = 1 /\ \A b \in Alerts \ {a} : notices'[b] = notices[b]
    BY <1>10, <2>2 DEF Emit, TypeOK
  <2>4. TypeOK'
    BY <1>10, <2>1, <2>2 DEF Emit, TypeOK
  <2> QED
    BY <1>10, <2>1, <2>2, <2>3, <2>4 DEF Emit, NoticesAgree, TellingFired, Dispatching
<1>11. ASSUME NEW a \in Alerts, DispatchFails(a) PROVE IInv'
  <2>1. loop' \in Loop /\ loop'.pc = "next"
    BY <1>11, HandedBackType DEF DispatchFails, TypeOK
  <2>2. TypeOK'
    BY <1>11, <2>1 DEF DispatchFails, RolledBack, TypeOK
  <2>3. notices[a] = 0 /\ ~fired'[a] /\ \A b \in Alerts \ {a} : fired'[b] = fired[b]
    BY <1>11 DEF DispatchFails, RolledBack, NoticesAgree, Dispatching, TypeOK
  <2> QED
    BY <1>11, <2>1, <2>2, <2>3 DEF DispatchFails, NoticesAgree, TellingFired, Dispatching
<1>12. ASSUME NEW a \in Alerts, NEW n \in Levels, Measure(a, n) PROVE IInv'
  BY <1>12, QuietStep DEF Measure, TypeOK
<1>13. CASE UNCHANGED vars
  BY <1>13, QuietStep DEF vars, TypeOK
<1> QED
  BY <1>1, <1>2, <1>3, <1>4, <1>5, <1>6, <1>7, <1>8, <1>9, <1>10, <1>11, <1>12, <1>13
     DEF Next, RunStep, CheckStep

LEMMA Invariant == Spec => []IInv
BY InitInv, StepInv, PTL DEF Spec

(* The rows, the loop and the memory of the monitor keep their types. *)
THEOREM TypeCorrect == Spec => []TypeOK
<1>1. IInv => TypeOK
  BY DEF IInv
<1> QED
  BY <1>1, Invariant, PTL

(* What the monitor remembers as fired was told exactly once since it cleared, or is being  *)
(* told: failed queries and dispatches, edits and restarts in any order change nothing.     *)
THEOREM NoticesAgreeHolds == Spec => []NoticesAgree
<1>1. IInv => NoticesAgree
  BY DEF IInv
<1> QED
  BY <1>1, Invariant, PTL

-----------------------------------------------------------------------------
LEMMA InitRefines == Init => Edges!Init
BY DEF Init, Edges!Init

LEMMA StepRefines == IInv /\ [Next]_vars => [Edges!Next]_Edges!vars
<1> SUFFICES ASSUME IInv, [Next]_vars PROVE [Edges!Next]_Edges!vars
  OBVIOUS
<1> USE DEF IInv
<1>1. CASE UNCHANGED <<fired, notices>>
  BY <1>1 DEF Edges!vars
<1>2. CASE Exit
  BY <1>2 DEF Exit, Edges!Next, Edges!Forget
<1>3. ASSUME NEW a \in Alerts, Note(a) PROVE Edges!Next
  <2>1. loop.fires \in BOOLEAN
    BY LoopParts DEF TypeOK
  <2>2. Edges!Evaluate(a, loop.fires)
    BY <1>3 DEF Note, Edges!Evaluate
  <2> QED
    BY <2>1, <2>2 DEF Edges!Next
<1>4. ASSUME NEW a \in Alerts, Emit(a) PROVE Edges!Next
  <2>1. fired[a] /\ notices[a] = 0
    BY <1>4 DEF Emit, NoticesAgree, TellingFired, Dispatching
  <2>2. notices' = [notices EXCEPT ![a] = 1]
    BY <1>4, <2>1 DEF Emit, TypeOK
  <2> QED
    BY <1>4, <2>1, <2>2 DEF Emit, Edges!Notify, Edges!Next
<1>5. ASSUME NEW a \in Alerts, DispatchFails(a) PROVE Edges!Next
  <2>1. notices' = [notices EXCEPT ![a] = 0]
    BY <1>5 DEF DispatchFails, NoticesAgree, Dispatching, TypeOK
  <2>2. Edges!Evaluate(a, FALSE)
    BY <1>5, <2>1 DEF DispatchFails, RolledBack, Edges!Evaluate
  <2> QED
    BY <2>2 DEF Edges!Next
<1> QED
  BY <1>1, <1>2, <1>3, <1>4, <1>5
     DEF Next, User, RunStep, CheckStep, SaveAlert, DeleteAlert, SetAlertEnabled, Start, Stop,
         Tick, TickEnds, RunReturns, Evaluate, EvaluateFails, Measure, vars

(* The monitor implements the safety of AlertEdges: an alert is told once for each rising   *)
(* edge that it evaluates, whatever fails (the comment of the package, monitor.go).         *)
THEOREM RefinesEdges == Spec => Edges!SafeSpec
BY InitRefines, StepRefines, Invariant, PTL DEF Spec, Edges!SafeSpec
===============================================================================
