-------------------------- MODULE Scheduler_proofs --------------------------
(***************************************************************************)
(* Proofs about Scheduler, for any schedules, cron expressions, number of  *)
(* executions at a time, number of loops and of calls of Stop, and length  *)
(* of the run.                                                             *)
(***************************************************************************)
EXTENDS Scheduler, FiniteSetTheorems, TLAPS

LEMMA CronNextIsNext ==
    ASSUME NEW x \in Expressions \cup {{}}, x # {}, NEW t \in 0..MaxTime
    PROVE  CronNext(x, t) \in x /\ CronNext(x, t) \in Nat /\ IsNext(x, t, CronNext(x, t))
<1>1. x \in Expressions /\ x \in SUBSET Nat
  BY SchedulerAssumption
<1>2. \E n \in x : IsNext(x, t, n)
  BY <1>1, SchedulerAssumption
<1>3. CronNext(x, t) \in x /\ IsNext(x, t, CronNext(x, t))
  BY <1>2 DEF CronNext
<1>4. QED
  BY <1>1, <1>3

LEMMA CronNextTyped ==
    ASSUME NEW x \in Expressions \cup {{}}, NEW t \in 0..MaxTime
    PROVE  CronNext(x, t) \in Nat
<1>1. CASE x = {}
  BY <1>1 DEF CronNext, Never
<1>2. CASE x # {}
  BY <1>2, CronNextIsNext
<1>3. QED
  BY <1>1, <1>2

LEMMA CronNextMonotone ==
    ASSUME NEW x \in Expressions \cup {{}}, x # {},
           NEW t \in 0..MaxTime, NEW u \in 0..MaxTime, t <= u
    PROVE  CronNext(x, t) <= CronNext(x, u)
<1>1. /\ CronNext(x, t) \in Nat /\ IsNext(x, t, CronNext(x, t))
      /\ CronNext(x, u) \in x /\ CronNext(x, u) \in Nat /\ IsNext(x, u, CronNext(x, u))
  BY CronNextIsNext
<1>2. QED
  BY <1>1 DEF IsNext

-----------------------------------------------------------------------------
(* Types. *)

\* A loop that hands out nothing holds nothing.
LoopShape == \A l \in Loops : loop[l].pc # "hand" => loop[l].due = {}

Typed == TypeOK /\ LoopShape

LEMMA NextRunTyped ==
    ASSUME Typed, NEW s \in Schedules
    PROVE  NextRun(s) \in Nat
BY CronNextTyped DEF NextRun, Typed, TypeOK, Row

LEMMA InitTyped == Init => Typed
<1> SUFFICES ASSUME Init PROVE Typed
  OBVIOUS
<1>1. row \in [Schedules -> Row] /\ now \in 0..MaxTime
  BY SchedulerAssumption DEF Init, Row, Never
<1>2. loop \in [Loops -> Loop] /\ LoopShape
  BY DEF Init, Loop, NoLoop, LoopShape
<1>3. slot \in [Slots -> {Free} \cup Execution] /\ resume \in [Schedules -> Resume]
  BY DEF Init, NoResume, Resume
<1>4. Stops \in 0..MaxStops
  BY SchedulerAssumption DEF Init, Stops
<1>5. QED
  BY <1>1, <1>2, <1>3, <1>4 DEF Init, Typed, TypeOK

LEMMA HandingTyped ==
    ASSUME NEW d, d \subseteq Due
    PROVE  Handing(d) \in Loop /\ (Handing(d).pc # "hand" => Handing(d).due = {})
BY DEF Handing, Loop

\* A loop that has just started.
Waiting == [pc |-> "wait", due |-> {}]

LEMMA Starts ==
    ASSUME Typed, Start
    PROVE  \E l \in Loops : /\ loop[l] = NoLoop /\ \A k \in 1..(l - 1) : loop[k] # NoLoop
                            /\ loop' = [loop EXCEPT ![l] = Waiting]
<1>1. PICK l \in Loops : /\ loop[l] = NoLoop /\ \A k \in 1..(l - 1) : loop[k] # NoLoop
                         /\ loop' = [loop EXCEPT ![l].pc = "wait"]
  BY DEF Start
<1>2. [loop[l] EXCEPT !.pc = "wait"] = Waiting
  BY <1>1 DEF NoLoop, Waiting
<1>3. loop' = [loop EXCEPT ![l] = Waiting]
  BY <1>1, <1>2
<1>4. QED
  BY <1>1, <1>3

LEMMA ProcessTyped ==
    ASSUME Typed, Start \/ StopCalled \/ StopCloses \/ StopReturns \/ Crash \/ Tick
    PROVE  Typed'
<1>1. CASE Start
  <2>1. PICK l \in Loops : loop' = [loop EXCEPT ![l] = Waiting]
    BY <1>1, Starts
  <2>2. Waiting \in Loop
    BY DEF Loop, Waiting
  <2>3. QED
    BY <1>1, <2>1, <2>2 DEF Start, Typed, TypeOK, LoopShape, Stops, Waiting, history
<1>2. CASE StopCalled
  <2>1. Stops' = Stops + 1 /\ Stops' \in 0..MaxStops /\ closing' \in Nat
    BY <1>2, SchedulerAssumption DEF StopCalled, Stops, Typed, TypeOK
  <2>2. QED
    BY <1>2, <2>1 DEF StopCalled, Typed, TypeOK, LoopShape, history
<1>3. ASSUME ProcessEnds, UNCHANGED <<row, now, history>> PROVE Typed'
  <2>1. NoLoop \in Loop /\ NoLoop.due = {} /\ NoResume \in Resume
    BY DEF NoLoop, Loop, NoResume, Resume
  <2>2. Stops' \in 0..MaxStops /\ closing' \in Nat
    BY <1>3, SchedulerAssumption DEF ProcessEnds, Stops
  <2>3. QED
    BY <1>3, <2>1, <2>2 DEF ProcessEnds, Typed, TypeOK, LoopShape, history
<1>4. CASE StopCloses
  <2>1. CASE closed
    BY <1>3, <1>4, <2>1 DEF StopCloses
  <2>2. CASE ~closed
    <3>1. closing' \in Nat /\ Stops' <= Stops /\ Stops' \in Nat
      BY <1>4, <2>2 DEF StopCloses, Stops, Typed, TypeOK
    <3>2. Stops' \in 0..MaxStops
      BY <3>1, SchedulerAssumption DEF Typed, TypeOK
    <3>3. QED
      BY <1>4, <2>2, <3>1, <3>2 DEF StopCloses, Typed, TypeOK, LoopShape, history
  <2>3. QED
    BY <2>1, <2>2
<1>5. CASE StopReturns
  <2>1. Stops' <= Stops /\ Stops' \in Nat
    BY <1>5 DEF StopReturns, Stops, Typed, TypeOK
  <2>2. Stops' \in 0..MaxStops
    BY <2>1, SchedulerAssumption DEF Typed, TypeOK
  <2>3. QED
    BY <1>5, <2>2 DEF StopReturns, Typed, TypeOK, LoopShape, history
<1>6. CASE Crash
  BY <1>3, <1>6 DEF Crash
<1>7. CASE Tick
  BY <1>7, SchedulerAssumption DEF Tick, Typed, TypeOK, LoopShape, Stops, control, history
<1>8. QED
  BY <1>1, <1>2, <1>4, <1>5, <1>6, <1>7

LEMMA RowWith ==
    ASSUME NEW r \in Row, NEW n \in Nat
    PROVE  /\ [r EXCEPT !.nextRun = n] \in Row
           /\ [r EXCEPT !.status = "off"] \in Row
           /\ [r EXCEPT !.status = "active"] \in Row
           /\ [r EXCEPT !.deleted = TRUE] \in Row
BY DEF Row

\* What a loop reads when it asks for what is due.
ReadNow == {[id |-> s, at |-> row[s].nextRun] : s \in {x \in Schedules : IsDue(x)}}

LEMMA LoopTyped ==
    ASSUME Typed, NEW l \in Loops, LoopStep(l)
    PROVE  Typed'
<1> USE DEF Typed, TypeOK, LoopShape
<1>1. ASSUME NEW d, d \subseteq Due, loop' = [loop EXCEPT ![l] = Handing(d)]
      PROVE  loop' \in [Loops -> Loop] /\ LoopShape'
  BY <1>1, HandingTyped
<1>2. CASE Check(l)
  <2>1. ReadNow \subseteq Due
    BY DEF Due, Row, ReadNow
  <2>2. QED
    BY <1>1, <1>2, <2>1 DEF Check, ReadNow, Stops, control, history
<1>3. CASE HandStopped(l)
  BY <1>1, <1>3 DEF HandStopped, Stops, control, history
<1>4. CASE Hand(l)
  <2>1. PICK d \in loop[l].due, e \in Slots :
              /\ slot' = [slot EXCEPT ![e] = [pc |-> "query", id |-> d.id, at |-> d.at, to |-> 0,
                                              by |-> "loop"]]
              /\ loop' = [loop EXCEPT ![l] = Handing(loop[l].due \ {d})]
              /\ afterOff' = IF Live(d.id) THEN afterOff ELSE [afterOff EXCEPT ![d.id] = @ + 1]
    BY <1>4 DEF Hand
  <2>2. loop[l].due \subseteq Due
    BY DEF Loop
  <2>3. loop[l].due \ {d} \subseteq Due
    BY <2>2
  <2>4. d.id \in Schedules /\ d.at \in Nat
    BY <2>2 DEF Due
  <2>5. [pc |-> "query", id |-> d.id, at |-> d.at, to |-> 0, by |-> "loop"] \in Execution
    BY <2>4 DEF Execution
  <2>6. slot' \in [Slots -> {Free} \cup Execution]
    BY <2>1, <2>5
  <2>7. afterOff' \in [Schedules -> Nat]
    BY <2>1, <2>4
  <2>8. QED
    BY <1>1, <1>4, <2>1, <2>3, <2>6, <2>7 DEF Hand, Stops, control
<1>5. CASE WaitStopped(l)
  <2>1. NoLoop \in Loop /\ NoLoop.due = {}
    BY DEF NoLoop, Loop
  <2>2. ASSUME NEW k \in Loops, k < MaxLoops PROVE k + 1 \in Loops
    BY <2>2, SchedulerAssumption DEF Loops
  <2>3. loop' \in [Loops -> Loop] /\ LoopShape'
    BY <1>5, <2>1, <2>2 DEF WaitStopped, After
  <2>4. QED
    BY <1>5, <2>3 DEF WaitStopped, Stops, control, history
<1>6. CASE CheckFails(l)
  BY <1>6 DEF CheckFails, vars, volatile, control, Stops, history
<1>7. QED
  BY <1>2, <1>3, <1>4, <1>5, <1>6 DEF LoopStep

LEMMA ExecutionTyped ==
    ASSUME Typed, NEW e \in Slots, ExecutionStep(e)
    PROVE  Typed'
<1> USE DEF Typed, TypeOK, LoopShape
<1>1. slot[e] \in Execution
  BY DEF ExecutionStep, QuerySucceeds, QueryFails, Advance, MarkFailed, WriteFails, Free
<1>2. slot[e].id \in Schedules /\ slot[e].at \in Nat /\ slot[e].to \in Nat
  BY <1>1 DEF Execution
<1>3. CASE QuerySucceeds(e)
  <2>1. NextRun(slot[e].id) \in Nat
    BY <1>2, NextRunTyped
  <2>2. [slot[e] EXCEPT !.pc = "advance", !.to = NextRun(slot[e].id)] \in Execution
    BY <1>1, <2>1 DEF Execution
  <2>3. slot' = [slot EXCEPT ![e] = [slot[e] EXCEPT !.pc = "advance",
                                                    !.to = NextRun(slot[e].id)]]
    BY <1>3 DEF QuerySucceeds
  <2>4. slot' \in [Slots -> {Free} \cup Execution]
    BY <2>2, <2>3
  <2>5. QED
    BY <1>3, <2>4 DEF QuerySucceeds, Stops, control, history
<1>4. CASE QueryFails(e)
  <2>1. [slot[e] EXCEPT !.pc = "fail", !.at = 0] \in Execution
    BY <1>1 DEF Execution
  <2>2. slot' = [slot EXCEPT ![e] = [slot[e] EXCEPT !.pc = "fail", !.at = 0]]
    BY <1>4 DEF QueryFails
  <2>3. slot' \in [Slots -> {Free} \cup Execution]
    BY <2>1, <2>2
  <2>4. QED
    BY <1>4, <2>3 DEF QueryFails, Stops, control, history
<1>5. CASE Advance(e)
  <2>1. row' \in [Schedules -> Row]
    <3>1. [row[slot[e].id] EXCEPT !.nextRun = slot[e].to] \in Row
      BY <1>2, RowWith
    <3>2. QED
      BY <1>2, <1>5, <3>1 DEF Advance
  <2>2. settled' \in [Schedules -> Nat]
    BY <1>2, <1>5 DEF Advance, Settle, Unsettle
  <2>3. slot' \in [Slots -> {Free} \cup Execution]
    BY <1>5 DEF Advance
  <2>4. QED
    BY <1>5, <2>1, <2>2, <2>3 DEF Advance, Stops, control
<1>6. CASE MarkFailed(e)
  <2>1. [row[slot[e].id] EXCEPT !.status = "off"] \in Row
    BY <1>2, RowWith
  <2>2. row' \in [Schedules -> Row]
    BY <1>2, <1>6, <2>1 DEF MarkFailed
  <2>3. QED
    BY <1>6, <2>2 DEF MarkFailed, Stops, control, history
<1>7. CASE WriteFails(e)
  BY <1>7 DEF WriteFails, Stops, control, history
<1>8. QED
  BY <1>3, <1>4, <1>5, <1>6, <1>7 DEF ExecutionStep

LEMMA UserTyped ==
    ASSUME Typed, NEW s \in Schedules, UserStep(s)
    PROVE  Typed'
<1> USE DEF Typed, TypeOK, LoopShape
<1>1. NextRun(s) \in Nat
  BY NextRunTyped
<1>2. CASE CreateSchedule(s) \/ PauseSchedule(s) \/ DeleteSchedule(s)
  <2>1. [row[s] EXCEPT !.status = "off"] \in Row /\ [row[s] EXCEPT !.deleted = TRUE] \in Row
    BY RowWith
  <2>2. ASSUME NEW x \in Expressions
        PROVE  [status |-> "active", deleted |-> FALSE, cron |-> x, nextRun |-> CronNext(x, now)]
                  \in Row
    BY CronNextTyped DEF Row
  <2>3. row' \in [Schedules -> Row]
    BY <1>2, <2>1, <2>2 DEF CreateSchedule, PauseSchedule, DeleteSchedule
  <2>4. QED
    BY <1>2, <2>3
    DEF CreateSchedule, PauseSchedule, DeleteSchedule, Stops, control, history, volatile
<1>3. CASE ExecuteNow(s)
  <2>1. [pc |-> "query", id |-> s, at |-> 0, to |-> 0, by |-> "user"] \in Execution
    BY DEF Execution
  <2>2. slot' \in [Slots -> {Free} \cup Execution]
    BY <1>3, <2>1 DEF ExecuteNow
  <2>3. QED
    BY <1>3, <2>2 DEF ExecuteNow, Stops, control, history
<1>4. CASE ResumeSchedule(s)
  <2>1. [pc |-> "nextRun", to |-> NextRun(s)] \in Resume
    BY <1>1 DEF Resume
  <2>2. QED
    BY <1>4, <2>1 DEF ResumeSchedule, Stops, control, history
<1>5. CASE ResumeNextRun(s)
  <2>1. resume[s].to \in Nat /\ [pc |-> "status", to |-> 0] \in Resume
    BY DEF Resume
  <2>2. [row[s] EXCEPT !.nextRun = resume[s].to] \in Row
    BY <2>1, RowWith
  <2>3. row' \in [Schedules -> Row] /\ settled' \in [Schedules -> Nat]
    BY <1>5, <2>1, <2>2 DEF ResumeNextRun, Settle, Unsettle
  <2>4. QED
    BY <1>5, <2>1, <2>3 DEF ResumeNextRun, Stops, control
<1>6. CASE ResumeStatus(s)
  <2>1. [row[s] EXCEPT !.status = "active"] \in Row /\ NoResume \in Resume
    BY RowWith DEF NoResume, Resume
  <2>2. QED
    BY <1>6, <2>1 DEF ResumeStatus, Stops, control
<1>7. CASE ResumeFails(s)
  BY <1>7 DEF ResumeFails, NoResume, Resume, Stops, control, history
<1>8. QED
  BY <1>2, <1>3, <1>4, <1>5, <1>6, <1>7 DEF UserStep

LEMMA NextTyped == Typed /\ [Next]_vars => Typed'
<1>1. Typed /\ UNCHANGED vars => Typed'
  BY DEF vars, control, volatile, history, Typed, TypeOK, LoopShape, Stops
<1>2. QED
  BY <1>1, ProcessTyped, LoopTyped, ExecutionTyped, UserTyped DEF Next

\* Every variable keeps its type.
THEOREM TypeCorrect == Spec => []TypeOK
<1>1. Spec => []Typed
  BY InitTyped, NextTyped, PTL DEF Spec
<1>2. QED
  BY <1>1, PTL DEF Typed
-----------------------------------------------------------------------------
(* Where the lists of the loops and the executions come from. *)

\* A list is what a loop reads, or what some loop had read before.
ListFrom(k) ==
    \/ loop'[k].due = {}
    \/ \E j \in Loops : loop'[k].due \subseteq loop[j].due
    \/ loop'[k].due = ReadNow /\ UNCHANGED row

LEMMA ListsComeFrom ==
    ASSUME Typed, [Next]_vars, NEW k \in Loops
    PROVE  ListFrom(k)
<1> USE DEF Typed, TypeOK
<1>1. CASE UNCHANGED loop
  BY <1>1 DEF ListFrom
<1>2. ASSUME ProcessEnds PROVE ListFrom(k)
  BY <1>2 DEF ProcessEnds, ListFrom, NoLoop
<1>3. CASE Start
  BY <1>3, Starts DEF ListFrom, Waiting
<1>4. CASE StopCalled \/ StopCloses \/ StopReturns \/ Crash \/ Tick
  BY <1>1, <1>2, <1>4 DEF StopCalled, StopCloses, StopReturns, Crash, Tick
<1>5. ASSUME NEW l \in Loops, LoopStep(l) PROVE ListFrom(k)
  <2>1. CASE Check(l)
    <3>1. loop' = [loop EXCEPT ![l] = Handing(ReadNow)] /\ UNCHANGED row
      BY <2>1 DEF Check, ReadNow
    <3>2. QED
      BY <3>1 DEF ListFrom, Handing
  <2>2. CASE CheckFails(l)
    BY <1>1, <2>2 DEF CheckFails, vars, volatile
  <2>3. CASE Hand(l)
    <3>1. PICK d \in loop[l].due : loop' = [loop EXCEPT ![l] = Handing(loop[l].due \ {d})]
      BY <2>3 DEF Hand
    <3>2. loop'[k].due \subseteq loop[k].due
      BY <3>1 DEF Handing
    <3>3. QED
      BY <3>2 DEF ListFrom
  <2>4. CASE HandStopped(l)
    BY <2>4 DEF HandStopped, Handing, ListFrom
  <2>5. CASE WaitStopped(l)
    <3>1. k < MaxLoops => k + 1 \in Loops
      BY SchedulerAssumption DEF Loops
    <3>2. loop'[k] = IF k < l THEN loop[k] ELSE IF k < MaxLoops THEN loop[k + 1] ELSE NoLoop
      BY <2>5 DEF WaitStopped, After
    <3>3. QED
      BY <3>1, <3>2 DEF ListFrom, NoLoop
  <2>6. QED
    BY <1>5, <2>1, <2>2, <2>3, <2>4, <2>5 DEF LoopStep
<1>6. ASSUME NEW e \in Slots, ExecutionStep(e) PROVE ListFrom(k)
  BY <1>1, <1>6 DEF ExecutionStep, QuerySucceeds, QueryFails, Advance, MarkFailed, WriteFails
<1>7. ASSUME NEW s \in Schedules, UserStep(s) PROVE ListFrom(k)
  BY <1>1, <1>7 DEF UserStep, CreateSchedule, PauseSchedule, DeleteSchedule, ExecuteNow,
                    ResumeSchedule, ResumeNextRun, ResumeStatus, ResumeFails, volatile
<1>8. QED
  BY <1>1, <1>3, <1>4, <1>5, <1>6, <1>7 DEF Next, vars, volatile

\* An execution goes on, is handed over by a loop or is started by a user.
GoesOn(f) ==
    /\ slot[f] \in Execution /\ slot'[f].id = slot[f].id /\ slot'[f].by = slot[f].by
    /\ slot'[f].at \in {slot[f].at, 0}
    /\ slot'[f].to \in {slot[f].to, NextRun(slot[f].id)}

HandedOver(f) ==
    \E l \in Loops : \E d \in loop[l].due :
        /\ loop[l].pc = "hand" /\ UNCHANGED <<row, running, closing, waiting>>
        /\ slot'[f] = [pc |-> "query", id |-> d.id, at |-> d.at, to |-> 0, by |-> "loop"]

ByUser(f) ==
    \E s \in Schedules :
        /\ Exists(s)
        /\ slot'[f] = [pc |-> "query", id |-> s, at |-> 0, to |-> 0, by |-> "user"]

LEMMA SlotsComeFrom ==
    ASSUME Typed, [Next]_vars, NEW f \in Slots, slot'[f] # Free
    PROVE  GoesOn(f) \/ HandedOver(f) \/ ByUser(f)
<1> USE DEF Typed, TypeOK
<1>1. CASE slot'[f] = slot[f]
  BY <1>1 DEF GoesOn
<1>2. ASSUME NEW l \in Loops, LoopStep(l) PROVE slot'[f] = slot[f] \/ HandedOver(f)
  <2>1. CASE Hand(l)
    <3>1. PICK d \in loop[l].due, e \in Slots :
                slot' = [slot EXCEPT ![e] = [pc |-> "query", id |-> d.id, at |-> d.at, to |-> 0,
                                             by |-> "loop"]]
      BY <2>1 DEF Hand
    <3>2. slot'[f] = slot[f]
          \/ slot'[f] = [pc |-> "query", id |-> d.id, at |-> d.at, to |-> 0, by |-> "loop"]
      BY <3>1
    <3>3. QED
      BY <2>1, <3>2 DEF Hand, HandedOver, control
  <2>2. ~Hand(l) => UNCHANGED slot
    BY <1>2 DEF LoopStep, Check, CheckFails, HandStopped, WaitStopped, vars, volatile
  <2>3. QED
    BY <2>1, <2>2
<1>3. ASSUME NEW e \in Slots, ExecutionStep(e) PROVE slot'[f] = slot[f] \/ GoesOn(f)
  <2>1. slot[e] \in Execution
    BY <1>3 DEF ExecutionStep, QuerySucceeds, QueryFails, Advance, MarkFailed, WriteFails, Free
  <2>2. CASE QuerySucceeds(e)
    <3>1. slot'[f] = slot[f]
          \/ (f = e /\ slot'[f] = [slot[f] EXCEPT !.pc = "advance", !.to = NextRun(slot[f].id)])
      BY <2>2 DEF QuerySucceeds
    <3>2. QED
      BY <2>1, <3>1 DEF GoesOn, Execution
  <2>3. CASE QueryFails(e)
    <3>1. slot'[f] = slot[f] \/ (f = e /\ slot'[f] = [slot[f] EXCEPT !.pc = "fail", !.at = 0])
      BY <2>3 DEF QueryFails
    <3>2. QED
      BY <2>1, <3>1 DEF GoesOn, Execution
  <2>4. CASE Advance(e) \/ MarkFailed(e) \/ WriteFails(e)
    BY <2>4 DEF Advance, MarkFailed, WriteFails
  <2>5. QED
    BY <1>3, <2>2, <2>3, <2>4 DEF ExecutionStep
<1>4. ASSUME NEW s \in Schedules, UserStep(s) PROVE slot'[f] = slot[f] \/ ByUser(f)
  <2>1. CASE ExecuteNow(s)
    <3>1. PICK e \in Slots : slot' = [slot EXCEPT ![e] = [pc |-> "query", id |-> s, at |-> 0,
                                                           to |-> 0, by |-> "user"]]
      BY <2>1 DEF ExecuteNow
    <3>2. Exists(s)
      BY <2>1 DEF ExecuteNow, Exists
    <3>3. QED
      BY <3>1, <3>2 DEF ByUser
  <2>2. ~ExecuteNow(s) => UNCHANGED slot
    BY <1>4 DEF UserStep, CreateSchedule, PauseSchedule, DeleteSchedule, ResumeSchedule,
                ResumeNextRun, ResumeStatus, ResumeFails, volatile
  <2>3. QED
    BY <2>1, <2>2
<1>5. CASE (Start \/ StopCalled \/ StopCloses \/ StopReturns \/ Crash \/ Tick) \/ UNCHANGED vars
  <2>1. ASSUME ProcessEnds PROVE slot'[f] = Free
    BY <2>1 DEF ProcessEnds
  <2>2. QED
    BY <1>1, <1>5, <2>1
    DEF Start, StopCalled, StopCloses, StopReturns, Crash, Tick, vars, volatile
<1>6. QED
  BY <1>1, <1>2, <1>3, <1>4, <1>5 DEF Next

-----------------------------------------------------------------------------
(* Stop. *)

\* The loops are no more than the scheduler that runs and the calls of Stop that wait or are
\* about to close the channel.
LoopsCounted ==
    \A l \in Loops : loop[l] # NoLoop => l <= Stops + (IF running THEN 1 ELSE 0)

LoopRunsCounted ==
    \A e \in Slots : slot[e] # Free /\ slot[e].by = "loop" => running \/ Stops > 0

\* One call of Stop waits, since the channel is closed once.
WaitsForClosed == waiting => closed

Stopped == Typed /\ WaitsForClosed /\ LoopsCounted /\ LoopRunsCounted

LEMMA InitStopped == Init => Stopped
BY InitTyped DEF Init, Stopped, WaitsForClosed, LoopsCounted, LoopRunsCounted

LEMMA NextWaitsForClosed == Typed /\ WaitsForClosed /\ [Next]_vars => WaitsForClosed'
<1> SUFFICES ASSUME Typed, WaitsForClosed, [Next]_vars PROVE WaitsForClosed'
  OBVIOUS
<1>1. CASE UNCHANGED <<closed, waiting>>
  BY <1>1 DEF WaitsForClosed
<1>2. CASE Start \/ StopCalled \/ StopCloses \/ StopReturns \/ Crash \/ Tick
  BY <1>2 DEF Start, StopCalled, StopCloses, StopReturns, Crash, Tick, ProcessEnds, control,
     WaitsForClosed
<1>3. ASSUME NEW l \in Loops, LoopStep(l) PROVE UNCHANGED <<closed, waiting>>
  BY <1>3 DEF LoopStep, Check, CheckFails, Hand, HandStopped, WaitStopped, vars, volatile, control
<1>4. ASSUME NEW e \in Slots, ExecutionStep(e) PROVE UNCHANGED <<closed, waiting>>
  BY <1>4 DEF ExecutionStep, QuerySucceeds, QueryFails, Advance, MarkFailed, WriteFails, control
<1>5. ASSUME NEW s \in Schedules, UserStep(s) PROVE UNCHANGED <<closed, waiting>>
  BY <1>5 DEF UserStep, CreateSchedule, PauseSchedule, DeleteSchedule, ExecuteNow,
     ResumeSchedule, ResumeNextRun, ResumeStatus, ResumeFails, volatile, control
<1>6. QED
  BY <1>1, <1>2, <1>3, <1>4, <1>5 DEF Next, vars, volatile, control

LEMMA NextStopped == Stopped /\ [Next]_vars => Stopped'
<1> SUFFICES ASSUME Stopped, [Next]_vars PROVE Stopped'
  OBVIOUS
<1> USE DEF Stopped
<1>1. Typed' /\ WaitsForClosed'
  BY NextTyped, NextWaitsForClosed
<1>2. Stops \in Nat /\ running \in BOOLEAN
  BY SchedulerAssumption DEF Typed, TypeOK
<1>3. ASSUME UNCHANGED <<loop, slot, running, closing, waiting>> PROVE Stopped'
  BY <1>1, <1>3 DEF LoopsCounted, LoopRunsCounted, Stops
<1>4. CASE Start
  <2>1. PICK l \in Loops : /\ loop[l] = NoLoop /\ \A k \in 1..(l - 1) : loop[k] # NoLoop
                           /\ loop' = [loop EXCEPT ![l] = Waiting]
    BY <1>4, Starts
  <2>2. running' /\ ~running /\ Stops' = Stops /\ UNCHANGED slot
    BY <1>4 DEF Start, Stops
  <2>3. l <= Stops + 1
    <3>1. CASE l = 1
      BY <1>2, <3>1
    <3>2. CASE l # 1
      <4>1. l - 1 \in Loops /\ l - 1 \in 1..(l - 1) /\ l \in Nat
        BY <3>2, SchedulerAssumption DEF Loops
      <4>2. l - 1 <= Stops
        BY <1>2, <2>1, <2>2, <4>1 DEF LoopsCounted
      <4>3. QED
        BY <1>2, <4>1, <4>2
    <3>3. QED
      BY <3>1, <3>2
  <2>4. LoopsCounted'
    <3>1. ASSUME NEW k \in Loops, loop'[k] # NoLoop PROVE k <= Stops + 1
      <4>1. CASE k = l
        BY <2>3, <4>1
      <4>2. CASE k # l
        <5>1. loop[k] # NoLoop /\ k \in Nat
          BY <2>1, <3>1, <4>2 DEF Loops, Typed, TypeOK
        <5>2. QED
          BY <1>2, <2>2, <5>1 DEF LoopsCounted
      <4>3. QED
        BY <4>1, <4>2
    <3>2. QED
      BY <2>2, <3>1 DEF LoopsCounted
  <2>5. QED
    BY <1>1, <2>2, <2>4 DEF LoopRunsCounted
<1>5. CASE StopCalled
  <2>1. running /\ ~running' /\ Stops' = Stops + 1 /\ UNCHANGED <<loop, slot>>
    BY <1>5 DEF StopCalled, Stops, Typed, TypeOK
  <2>2. QED
    BY <1>1, <1>2, <2>1 DEF LoopsCounted, LoopRunsCounted
<1>6. ASSUME ProcessEnds PROVE Stopped'
  BY <1>1, <1>6 DEF ProcessEnds, LoopsCounted, LoopRunsCounted
<1>7. CASE StopCloses
  <2>1. CASE ~closed
    <3>1. Stops' >= Stops /\ Stops' \in Nat /\ UNCHANGED <<running, loop, slot>>
      BY <1>2, <1>7, <2>1 DEF StopCloses, Stops, WaitsForClosed, Typed, TypeOK
    <3>2. QED
      BY <1>1, <1>2, <3>1 DEF LoopsCounted, LoopRunsCounted, Loops
  <2>2. QED
    BY <1>6, <1>7, <2>1 DEF StopCloses
<1>8. CASE StopReturns
  BY <1>1, <1>8 DEF StopReturns, AllDone, LoopsCounted, LoopRunsCounted
<1>9. CASE Crash
  BY <1>6, <1>9 DEF Crash
<1>10. CASE Tick \/ UNCHANGED vars
  BY <1>3, <1>10 DEF Tick, vars, volatile, control
<1>11. ASSUME NEW l \in Loops, LoopStep(l) PROVE Stopped'
  <2>1. loop[l] # NoLoop
    BY <1>11 DEF LoopStep, Check, CheckFails, Hand, HandStopped, WaitStopped, NoLoop
  <2>2. UNCHANGED <<running, closing, waiting>>
    BY <1>11
    DEF LoopStep, Check, CheckFails, Hand, HandStopped, WaitStopped, vars, volatile, control
  <2>3. Stops' = Stops
    BY <2>2 DEF Stops
  <2>4. running \/ Stops > 0
    <3>1. l <= Stops + (IF running THEN 1 ELSE 0) /\ l \in Nat /\ l >= 1
      BY <2>1 DEF LoopsCounted, Loops
    <3>2. QED
      BY <1>2, <3>1
  <2>5. LoopsCounted'
    <3>1. CASE WaitStopped(l)
      <4>1. ASSUME NEW k \in Loops, loop'[k] # NoLoop
            PROVE  k <= Stops + (IF running THEN 1 ELSE 0)
        <5>1. loop'[k] = IF k < l THEN loop[k] ELSE IF k < MaxLoops THEN loop[k + 1] ELSE NoLoop
          BY <3>1 DEF WaitStopped, After
        <5>2. k < MaxLoops => k + 1 \in Loops
          BY SchedulerAssumption DEF Loops
        <5>3. k \in Nat
          BY DEF Loops
        <5>4. CASE loop[k] # NoLoop
          BY <5>4 DEF LoopsCounted
        <5>5. CASE k < MaxLoops /\ loop[k + 1] # NoLoop
          <6>1. k + 1 <= Stops + (IF running THEN 1 ELSE 0)
            BY <5>2, <5>5 DEF LoopsCounted
          <6>2. QED
            BY <1>2, <5>3, <6>1
        <5>6. QED
          BY <4>1, <5>1, <5>4, <5>5
      <4>2. QED
        BY <2>2, <2>3, <4>1 DEF LoopsCounted
    <3>2. CASE ~WaitStopped(l)
      <4>1. \A k \in Loops : k # l => loop'[k] = loop[k]
        BY <1>11, <3>2
        DEF LoopStep, Check, CheckFails, Hand, HandStopped, vars, volatile, Typed, TypeOK
      <4>2. QED
        BY <2>1, <2>2, <2>3, <4>1 DEF LoopsCounted
    <3>3. QED
      BY <3>1, <3>2
  <2>6. LoopRunsCounted'
    BY <2>2, <2>3, <2>4 DEF LoopRunsCounted
  <2>7. QED
    BY <1>1, <2>5, <2>6
<1>12. ASSUME \/ \E e \in Slots : ExecutionStep(e)
              \/ \E s \in Schedules : UserStep(s)
       PROVE  Stopped'
  <2>1. UNCHANGED <<loop, running, closing, waiting>>
    BY <1>12 DEF ExecutionStep, QuerySucceeds, QueryFails, Advance, MarkFailed, WriteFails,
       UserStep, CreateSchedule, PauseSchedule, DeleteSchedule, ExecuteNow,
       ResumeSchedule, ResumeNextRun, ResumeStatus, ResumeFails, volatile, control
  <2>2. LoopsCounted' /\ Stops' = Stops
    BY <2>1 DEF LoopsCounted, Stops
  <2>3. ASSUME NEW f \in Slots, slot'[f] # Free, slot'[f].by = "loop" PROVE running \/ Stops > 0
    <3>1. CASE GoesOn(f)
      BY <2>3, <3>1 DEF GoesOn, LoopRunsCounted, Execution, Free
    <3>2. CASE ByUser(f)
      BY <2>3, <3>2 DEF ByUser
    <3>3. CASE HandedOver(f)
      <4>1. PICK l \in Loops : loop[l].pc = "hand"
        BY <3>3 DEF HandedOver
      <4>2. l <= Stops + (IF running THEN 1 ELSE 0) /\ l \in Nat /\ l >= 1
        BY <4>1 DEF LoopsCounted, Loops, NoLoop
      <4>3. QED
        BY <1>2, <4>2
    <3>4. QED
      BY <2>3, <3>1, <3>2, <3>3, SlotsComeFrom
  <2>4. QED
    BY <1>1, <2>1, <2>2, <2>3 DEF LoopRunsCounted
<1>13. QED
  BY <1>4, <1>5, <1>7, <1>8, <1>9, <1>10, <1>11, <1>12 DEF Next

\* When Stop has returned, no loop is left and no execution that a loop started.
THEOREM QuietAfterStopHolds == Spec => []QuietAfterStop
<1>1. ASSUME Stopped, ~running, Stops = 0
      PROVE  /\ \A l \in Loops : loop[l] = NoLoop
             /\ \A e \in Slots : slot[e] # Free => slot[e].by = "user"
  <2>1. ASSUME NEW l \in Loops PROVE loop[l] = NoLoop
    BY <1>1 DEF Stopped, LoopsCounted, Loops
  <2>2. ASSUME NEW e \in Slots, slot[e] # Free PROVE slot[e].by = "user"
    BY <1>1, <2>2 DEF Stopped, LoopRunsCounted, Typed, TypeOK, Execution
  <2>3. QED
    BY <2>1, <2>2
<1>2. Stopped => QuietAfterStop
  BY <1>1 DEF QuietAfterStop
<1>3. Spec => []Stopped
  BY InitStopped, NextStopped, PTL DEF Spec
<1>4. QED
  BY <1>2, <1>3, PTL

\* However Start and Stop are called, no more loops run than the one of a scheduler that
\* runs and one for each call of Stop that has not returned.
THEOREM LoopsAreCounted == Spec => []LoopsCounted
<1>1. Stopped => LoopsCounted
  BY DEF Stopped
<1>2. Spec => []Stopped
  BY InitStopped, NextStopped, PTL DEF Spec
<1>3. QED
  BY <1>1, <1>2, PTL
-----------------------------------------------------------------------------
(* Only schedules that exist are read, run and resumed. *)

Blank(s) ==
    /\ row[s].cron = {} /\ row[s].nextRun = Never /\ settled[s] = 0 /\ afterOff[s] = 0
    /\ resume[s] = NoResume

Existing ==
    /\ \A s \in Schedules : ~Exists(s) => Blank(s)
    /\ \A l \in Loops : \A d \in loop[l].due : Exists(d.id)
    /\ \A e \in Slots : slot[e] # Free => Exists(slot[e].id)

ExistingInv == Typed /\ Existing

LEMMA InitExisting == Init => ExistingInv
BY InitTyped DEF Init, ExistingInv, Existing, Blank, Exists, NoLoop

\* A schedule that exists stays, and one that does not is only created.
LEMMA ExistsStays ==
    ASSUME ExistingInv, [Next]_vars, NEW s \in Schedules
    PROVE  /\ Exists(s) => Exists(s)' /\ row'[s].cron = row[s].cron
           /\ ~Exists(s) => \/ Exists(s)'
                                 \/ UNCHANGED <<row[s], settled[s], afterOff[s], resume[s]>>
<1> DEFINE Goal == /\ Exists(s) => Exists(s)' /\ row'[s].cron = row[s].cron
                   /\ ~Exists(s) => \/ Exists(s)'
                                 \/ UNCHANGED <<row[s], settled[s], afterOff[s], resume[s]>>
<1> USE DEF ExistingInv, Typed, TypeOK
<1>1. CASE UNCHANGED vars
  BY <1>1 DEF vars, volatile, history, Exists
<1>2. CASE Start \/ StopCalled \/ StopCloses \/ StopReturns \/ Crash \/ Tick
  <2>1. UNCHANGED <<row, settled, afterOff>>
    BY <1>2 DEF Start, StopCalled, StopCloses, StopReturns, Crash, Tick, history
  <2>2. UNCHANGED resume \/ resume'[s] = NoResume
    BY <1>2 DEF Start, StopCalled, StopCloses, StopReturns, Crash, Tick, ProcessEnds
  <2>3. QED
    BY <2>1, <2>2 DEF Exists, Existing, Blank
<1>3. ASSUME NEW l \in Loops, LoopStep(l) PROVE Goal
  <2>1. UNCHANGED <<row, settled, resume>>
    BY <1>3 DEF LoopStep, Check, CheckFails, Hand, HandStopped, WaitStopped, vars, volatile, history
  <2>2. ASSUME ~Exists(s) PROVE afterOff'[s] = afterOff[s]
    <3>1. CASE Hand(l)
      <4>1. PICK d \in loop[l].due :
                  afterOff' = IF Live(d.id) THEN afterOff ELSE [afterOff EXCEPT ![d.id] = @ + 1]
        BY <3>1 DEF Hand
      <4>2. Exists(d.id) /\ d.id \in Schedules
        BY <4>1 DEF Existing, Loop, Due
      <4>3. QED
        BY <2>2, <4>1, <4>2
    <3>2. CASE ~Hand(l)
      BY <1>3, <3>2 DEF LoopStep, Check, CheckFails, HandStopped, WaitStopped, vars, history
    <3>3. QED
      BY <3>1, <3>2
  <2>3. QED
    BY <2>1, <2>2 DEF Exists
<1>4. ASSUME NEW e \in Slots, ExecutionStep(e) PROVE Goal
  <2>1. slot[e] \in Execution /\ slot[e] # Free
    BY <1>4 DEF ExecutionStep, QuerySucceeds, QueryFails, Advance, MarkFailed, WriteFails, Free,
       Execution
  <2>2. slot[e].id \in Schedules /\ Exists(slot[e].id)
    BY <2>1 DEF Existing, Execution
  <2>3. UNCHANGED <<afterOff, resume>>
    BY <1>4 DEF ExecutionStep, QuerySucceeds, QueryFails, Advance, MarkFailed, WriteFails, history
  <2>4. CASE slot[e].id # s
    <3>1. row'[s] = row[s] /\ settled'[s] = settled[s]
      BY <1>4, <2>2, <2>4
      DEF ExecutionStep, QuerySucceeds, QueryFails, Advance, MarkFailed, WriteFails, history,
          Settle, Unsettle
    <3>2. QED
      BY <2>3, <3>1 DEF Exists
  <2>5. CASE slot[e].id = s
    <3>1. row'[s].cron = row[s].cron /\ row'[s].status \in {row[s].status, "off"}
      BY <1>4, <2>2, <2>5
      DEF ExecutionStep, QuerySucceeds, QueryFails, Advance, MarkFailed, WriteFails, Row
    <3>2. QED
      BY <2>2, <2>5, <3>1 DEF Exists
  <2>6. QED
    BY <2>4, <2>5
<1>5. ASSUME NEW r \in Schedules, UserStep(r) PROVE Goal
  <2>1. CASE r # s
    <3>1. UNCHANGED <<row[s], settled[s], afterOff[s], resume[s]>>
      BY <1>5, <2>1 DEF UserStep, CreateSchedule, PauseSchedule, DeleteSchedule, ExecuteNow,
         ResumeSchedule, ResumeNextRun, ResumeStatus, ResumeFails, volatile, history, Settle,
         Unsettle
    <3>2. QED
      BY <3>1 DEF Exists
  <2>2. CASE r = s /\ Exists(s)
    <3>1. row'[s].cron = row[s].cron /\ row'[s].status \in {row[s].status, "off", "active"}
      BY <1>5, <2>2 DEF UserStep, CreateSchedule, PauseSchedule, DeleteSchedule, ExecuteNow,
         ResumeSchedule, ResumeNextRun, ResumeStatus, ResumeFails, volatile, Row
    <3>2. QED
      BY <2>2, <3>1 DEF Exists
  <2>3. CASE r = s /\ ~Exists(s)
    <3>1. resume[s] = NoResume
      BY <2>3 DEF Existing, Blank
    <3>2. CreateSchedule(s)
      BY <1>5, <2>3, <3>1 DEF UserStep, PauseSchedule, DeleteSchedule, ExecuteNow, NoResume,
         ResumeSchedule, ResumeNextRun, ResumeStatus, ResumeFails, Exists
    <3>3. row'[s].status = "active"
      BY <3>2 DEF CreateSchedule
    <3>4. QED
      BY <2>3, <3>3 DEF Exists
  <2>4. QED
    BY <2>1, <2>2, <2>3
<1>6. QED
  BY <1>1, <1>2, <1>3, <1>4, <1>5 DEF Next

LEMMA NextExisting == ExistingInv /\ [Next]_vars => ExistingInv'
<1> SUFFICES ASSUME ExistingInv, [Next]_vars PROVE ExistingInv'
  OBVIOUS
<1> USE DEF ExistingInv
<1>1. Typed'
  BY NextTyped
<1>2. \A s \in Schedules : ~Exists(s)' => Blank(s)'
  BY ExistsStays DEF Existing, Blank, Exists
<1>3. ASSUME NEW k \in Loops, NEW d \in loop'[k].due PROVE Exists(d.id)'
  <2>1. ListFrom(k)
    BY ListsComeFrom
  <2>2. CASE \E j \in Loops : loop'[k].due \subseteq loop[j].due
    <3>1. PICK j \in Loops : d \in loop[j].due
      BY <1>3, <2>2
    <3>2. d.id \in Schedules /\ Exists(d.id)
      BY <3>1 DEF Existing, Typed, TypeOK, Loop, Due
    <3>3. QED
      BY <3>2, ExistsStays
  <2>3. CASE loop'[k].due = ReadNow /\ UNCHANGED row
    <3>1. PICK s \in Schedules : IsDue(s) /\ d.id = s
      BY <1>3, <2>3 DEF ReadNow
    <3>2. Exists(s)
      BY <3>1 DEF IsDue, Live, Exists
    <3>3. QED
      BY <3>1, <3>2, ExistsStays
  <2>4. QED
    BY <1>3, <2>1, <2>2, <2>3 DEF ListFrom
<1>4. ASSUME NEW f \in Slots, slot'[f] # Free PROVE row'[slot'[f].id].status # "absent"
  <2>1. CASE GoesOn(f)
    <3>1. slot[f].id \in Schedules /\ Exists(slot[f].id) /\ slot'[f].id = slot[f].id
      BY <2>1 DEF GoesOn, Existing, Execution, Free
    <3>2. QED
      BY <3>1, ExistsStays DEF Exists
  <2>2. CASE HandedOver(f)
    <3>0. PICK l \in Loops : \E d \in loop[l].due : slot'[f].id = d.id
      BY <2>2 DEF HandedOver
    <3>1. PICK d \in loop[l].due : slot'[f].id = d.id
      BY <3>0
    <3>2. d.id \in Schedules /\ Exists(d.id)
      BY <3>1 DEF Existing, Typed, TypeOK, Loop, Due
    <3>3. QED
      BY <3>1, <3>2, ExistsStays DEF Exists
  <2>3. CASE ByUser(f)
    BY <2>3, ExistsStays DEF ByUser, Exists
  <2>4. QED
    BY <1>4, <2>1, <2>2, <2>3, SlotsComeFrom
<1>5. QED
  BY <1>1, <1>2, <1>3, <1>4 DEF Existing, Exists

-----------------------------------------------------------------------------
(* What is settled stays settled. *)

\* No schedule is settled beyond the next cron time, if it has one.
SettledUpToNow(s) ==
    row[s].cron # {} => settled[s] <= row[s].nextRun /\ settled[s] <= NextRun(s)

\* Nothing but Never is computed for a schedule that has none.
NeverRuns(s) ==
    row[s].cron = {} =>
        /\ row[s].nextRun = Never /\ resume[s].to = Never
        /\ \A e \in Slots : slot[e] # Free /\ slot[e].id = s => slot[e].to = Never

\* Nothing is read or run before it is due.
ReadWhenDue ==
    /\ \A l \in Loops : \A d \in loop[l].due : d.at <= now
    /\ \A e \in Slots : slot[e] # Free /\ slot[e].by = "loop" => slot[e].at <= now

SettledInv ==
    ExistingInv /\ ReadWhenDue /\ \A s \in Schedules : SettledUpToNow(s) /\ NeverRuns(s)

LEMMA InitSettled == Init => SettledInv
<1> SUFFICES ASSUME Init PROVE SettledInv
  OBVIOUS
<1>1. ReadWhenDue
  BY DEF Init, ReadWhenDue, NoLoop
<1>2. ASSUME NEW s \in Schedules PROVE SettledUpToNow(s) /\ NeverRuns(s)
  BY DEF Init, SettledUpToNow, NeverRuns, NoResume, Never
<1>3. QED
  BY <1>1, <1>2, InitExisting DEF SettledInv

LEMMA NextReadWhenDue ==
    ASSUME SettledInv, [Next]_vars
    PROVE  ReadWhenDue'
<1> USE DEF SettledInv, ExistingInv
<1>1. Typed'
  BY NextTyped
<1>2. now \in Nat /\ now' \in Nat /\ now <= now'
  <2>1. now' = now \/ now' = now + 1
    BY DEF Next, Start, StopCalled, StopCloses, StopReturns, Crash, Tick,
       LoopStep, Check, CheckFails, Hand, HandStopped, WaitStopped, vars,
       ExecutionStep, QuerySucceeds, QueryFails, Advance, MarkFailed, WriteFails,
       UserStep, CreateSchedule, PauseSchedule, DeleteSchedule, ExecuteNow,
       ResumeSchedule, ResumeNextRun, ResumeStatus, ResumeFails
  <2>2. QED
    BY <2>1, SchedulerAssumption DEF Typed, TypeOK
<1>3. \A l \in Loops : \A d \in loop[l].due : d.at \in Nat /\ d.at <= now
  BY DEF ReadWhenDue, Typed, TypeOK, Loop, Due
<1>4. ASSUME NEW k \in Loops, NEW d \in loop'[k].due PROVE d.at <= now'
  <2>1. CASE \E j \in Loops : loop'[k].due \subseteq loop[j].due
    <3>1. PICK j \in Loops : d \in loop[j].due
      BY <1>4, <2>1
    <3>2. QED
      BY <1>2, <1>3, <3>1
  <2>2. CASE loop'[k].due = ReadNow
    <3>1. PICK s \in Schedules : IsDue(s) /\ d.at = row[s].nextRun
      BY <1>4, <2>2 DEF ReadNow
    <3>2. row[s].nextRun \in Nat /\ row[s].nextRun <= now
      BY <3>1 DEF IsDue, Typed, TypeOK, Row
    <3>3. QED
      BY <1>2, <3>1, <3>2
  <2>3. QED
    BY <1>4, <2>1, <2>2, ListsComeFrom DEF ListFrom
<1>5. ASSUME NEW f \in Slots, slot'[f] # Free, slot'[f].by = "loop" PROVE slot'[f].at <= now'
  <2>1. CASE GoesOn(f)
    <3>1. slot[f].at \in Nat /\ slot[f].at <= now /\ slot'[f].at \in {slot[f].at, 0}
      BY <1>5, <2>1 DEF GoesOn, ReadWhenDue, Execution, Free
    <3>2. QED
      BY <1>2, <3>1
  <2>2. CASE HandedOver(f)
    <3>0. PICK l \in Loops : \E d \in loop[l].due : slot'[f].at = d.at
      BY <2>2 DEF HandedOver
    <3>1. PICK d \in loop[l].due : slot'[f].at = d.at
      BY <3>0
    <3>2. QED
      BY <1>2, <1>3, <3>1
  <2>3. CASE ByUser(f)
    BY <1>5, <2>3 DEF ByUser
  <2>4. QED
    BY <1>5, <2>1, <2>2, <2>3, SlotsComeFrom
<1>6. QED
  BY <1>4, <1>5 DEF ReadWhenDue

\* What a step does to the next run of a schedule and to what is settled.
Keeps(s) ==
    /\ now <= now' /\ row'[s].cron = row[s].cron
    /\ row'[s].nextRun = row[s].nextRun /\ settled'[s] = settled[s]

Creates(s) ==
    /\ ~Exists(s)
    /\ now' = now /\ settled'[s] = settled[s] /\ row'[s].cron \in Expressions
    /\ row'[s].nextRun = CronNext(row'[s].cron, now)

Writes(s) ==
    /\ now' = now /\ row'[s].cron = row[s].cron
    /\ row[s].cron = {} => row'[s].nextRun = Never
    /\ row[s].cron # {} => settled'[s] <= row'[s].nextRun /\ settled'[s] <= NextRun(s)

Deletes(s) ==
    /\ now' = now /\ row'[s].cron = row[s].cron
    /\ row'[s].nextRun = row[s].nextRun /\ settled'[s] = 0

LEMMA AdvanceWrites ==
    ASSUME SettledInv, NEW e \in Slots, Advance(e), NEW s \in Schedules
    PROVE  IF s = slot[e].id THEN Writes(s) ELSE Keeps(s)
<1> USE DEF SettledInv, ExistingInv, Typed, TypeOK
<1>1. slot[e] \in Execution /\ slot[e] # Free /\ now \in Nat
  BY SchedulerAssumption DEF Advance, Free, Execution
<1>2. slot[e].id \in Schedules /\ slot[e].at \in Nat /\ slot[e].to \in Nat
  BY <1>1 DEF Execution
<1>3. CASE s # slot[e].id
  BY <1>1, <1>2, <1>3 DEF Advance, Keeps, Settle, Unsettle
<1>4. CASE s = slot[e].id
  <2>1. row'[s].nextRun = slot[e].to /\ row'[s].cron = row[s].cron /\ now' = now
    BY <1>4 DEF Advance, Row
  <2>2. row[s].cron = {} => slot[e].to = Never
    BY <1>1, <1>4 DEF NeverRuns
  <2>3. ASSUME row[s].cron # {}
        PROVE  settled'[s] <= slot[e].to /\ settled'[s] <= NextRun(s)
    <3>1. row[s] \in Row /\ settled[s] \in Nat /\ settled[s] <= NextRun(s)
      BY <2>3 DEF SettledUpToNow
    <3>2. NextRun(s) \in Nat /\ now < NextRun(s)
      BY <2>3, <3>1, CronNextIsNext DEF NextRun, Row, IsNext
    <3>3. slot[e].by = "loop" => slot[e].at + 1 <= NextRun(s)
      BY <1>1, <1>2, <3>2 DEF ReadWhenDue
    <3>4. CASE slot[e].to # NextRun(s)
      <4>1. settled'[s] = IF slot[e].to < settled[s] THEN slot[e].to ELSE settled[s]
        BY <1>4, <3>4 DEF Advance, Unsettle
      <4>2. QED
        BY <1>2, <3>1, <3>2, <4>1
    <3>5. CASE slot[e].to = NextRun(s)
      <4>1. settled'[s] = settled[s] \/ (slot[e].by = "loop" /\ settled'[s] = slot[e].at + 1)
        BY <1>4, <3>5 DEF Advance, Settle
      <4>2. QED
        BY <1>2, <3>1, <3>2, <3>3, <3>5, <4>1
    <3>6. QED
      BY <3>4, <3>5
  <2>4. QED
    BY <1>4, <2>1, <2>2, <2>3 DEF Writes
<1>5. QED
  BY <1>3, <1>4

LEMMA ResumeWrites ==
    ASSUME SettledInv, NEW r \in Schedules, ResumeNextRun(r), NEW s \in Schedules
    PROVE  IF s = r THEN Writes(s) ELSE Keeps(s)
<1> USE DEF SettledInv, ExistingInv, Typed, TypeOK
<1>1. resume[s].to \in Nat /\ now \in Nat
  BY SchedulerAssumption DEF Resume
<1>2. CASE s # r
  BY <1>1, <1>2 DEF ResumeNextRun, Keeps, Settle, Unsettle
<1>3. CASE s = r
  <2>1. row'[s].nextRun = resume[s].to /\ row'[s].cron = row[s].cron /\ now' = now
    BY <1>3 DEF ResumeNextRun, Row
  <2>2. row[s].cron = {} => resume[s].to = Never
    BY DEF NeverRuns
  <2>3. ASSUME row[s].cron # {}
        PROVE  settled'[s] <= resume[s].to /\ settled'[s] <= NextRun(s)
    <3>1. settled[s] \in Nat /\ settled[s] <= NextRun(s) /\ NextRun(s) \in Nat
      BY <2>3, NextRunTyped DEF SettledUpToNow
    <3>2. settled'[s] = IF resume[s].to # NextRun(s)
                        THEN IF resume[s].to < settled[s] THEN resume[s].to ELSE settled[s]
                        ELSE IF settled[s] < resume[s].to THEN resume[s].to ELSE settled[s]
      BY <1>3 DEF ResumeNextRun, Settle, Unsettle
    <3>3. QED
      BY <1>1, <3>1, <3>2
  <2>4. QED
    BY <1>3, <2>1, <2>2, <2>3 DEF Writes
<1>4. QED
  BY <1>2, <1>3

LEMMA RowsComeFrom ==
    ASSUME SettledInv, [Next]_vars, NEW s \in Schedules
    PROVE  Keeps(s) \/ Creates(s) \/ Writes(s) \/ Deletes(s)
<1> USE DEF SettledInv, ExistingInv, Typed, TypeOK
<1>1. now \in Nat /\ row[s] \in Row
  BY SchedulerAssumption
<1>2. ASSUME UNCHANGED <<row, settled, now>> PROVE Keeps(s)
  BY <1>1, <1>2 DEF Keeps
<1>3. CASE Start \/ StopCalled \/ StopCloses \/ StopReturns \/ Crash
  BY <1>2, <1>3 DEF Start, StopCalled, StopCloses, StopReturns, Crash, history
<1>4. CASE Tick
  BY <1>1, <1>4 DEF Tick, Keeps, history
<1>5. ASSUME NEW l \in Loops, LoopStep(l) PROVE Keeps(s)
  BY <1>2, <1>5 DEF LoopStep, Check, CheckFails, Hand, HandStopped, WaitStopped, vars, history
<1>6. ASSUME NEW e \in Slots, ExecutionStep(e) PROVE Keeps(s) \/ Writes(s)
  <2>1. CASE Advance(e)
    BY <2>1, AdvanceWrites
  <2>2. CASE MarkFailed(e)
    <3>1. slot[e].id \in Schedules
      BY <2>2 DEF MarkFailed, Free, Execution
    <3>2. row'[s].cron = row[s].cron /\ row'[s].nextRun = row[s].nextRun
      BY <1>1, <2>2, <3>1 DEF MarkFailed, Row
    <3>3. QED
      BY <1>1, <2>2, <3>2 DEF MarkFailed, Keeps, history
  <2>3. CASE QuerySucceeds(e) \/ QueryFails(e) \/ WriteFails(e)
    BY <1>2, <2>3 DEF QuerySucceeds, QueryFails, WriteFails, history
  <2>4. QED
    BY <1>6, <2>1, <2>2, <2>3 DEF ExecutionStep
<1>7. ASSUME NEW r \in Schedules, UserStep(r)
      PROVE  Keeps(s) \/ Creates(s) \/ Writes(s) \/ Deletes(s)
  <2>1. CASE ResumeNextRun(r)
    BY <2>1, ResumeWrites
  <2>2. CASE CreateSchedule(r)
    <3>1. CASE r = s
      BY <2>2, <3>1 DEF CreateSchedule, Creates, volatile, history
    <3>2. CASE r # s
      BY <1>1, <2>2, <3>2 DEF CreateSchedule, Keeps, volatile, history
    <3>3. QED
      BY <3>1, <3>2
  <2>3. CASE PauseSchedule(r) \/ DeleteSchedule(r) \/ ResumeStatus(r)
    <3>1. row'[s].cron = row[s].cron /\ row'[s].nextRun = row[s].nextRun
      BY <1>1, <2>3 DEF PauseSchedule, DeleteSchedule, ResumeStatus, Row
    <3>2. now' = now /\ settled'[s] \in {settled[s], 0}
      BY <1>1, <2>3 DEF PauseSchedule, DeleteSchedule, ResumeStatus, history
    <3>3. QED
      BY <1>1, <3>1, <3>2 DEF Keeps, Deletes
  <2>4. CASE ExecuteNow(r) \/ ResumeSchedule(r) \/ ResumeFails(r)
    BY <1>2, <2>4 DEF ExecuteNow, ResumeSchedule, ResumeFails, history
  <2>5. QED
    BY <1>7, <2>1, <2>2, <2>3, <2>4 DEF UserStep
<1>8. QED
  BY <1>2, <1>3, <1>4, <1>5, <1>6, <1>7 DEF Next, vars, history

LEMMA NextSettledUpToNow ==
    ASSUME SettledInv, [Next]_vars, NEW s \in Schedules
    PROVE  SettledUpToNow(s)'
<1> USE DEF SettledInv, ExistingInv
<1>1. Typed' /\ now \in 0..MaxTime /\ now' \in 0..MaxTime /\ row[s].cron \in Expressions \cup {{}}
  BY NextTyped DEF Typed, TypeOK, Row
<1>2. settled[s] \in Nat
  BY DEF Typed, TypeOK
<1>3. ASSUME Keeps(s), row[s].cron # {}
      PROVE  settled[s] <= row[s].nextRun /\ settled[s] <= CronNext(row[s].cron, now')
  <2>1. settled[s] <= row[s].nextRun /\ settled[s] <= CronNext(row[s].cron, now)
    BY <1>3 DEF SettledUpToNow, NextRun
  <2>2. /\ CronNext(row[s].cron, now) <= CronNext(row[s].cron, now')
        /\ CronNext(row[s].cron, now) \in Nat /\ CronNext(row[s].cron, now') \in Nat
    BY <1>1, <1>3, CronNextMonotone, CronNextIsNext DEF Keeps
  <2>3. QED
    BY <1>2, <2>1, <2>2
<1>4. CASE Keeps(s)
  BY <1>3, <1>4 DEF Keeps, SettledUpToNow, NextRun
<1>5. CASE Creates(s)
  <2>1. settled'[s] = 0 /\ row'[s].cron \in Expressions \cup {{}}
    BY <1>5 DEF Creates, Existing, Blank
  <2>2. CronNext(row'[s].cron, now) \in Nat
    BY <1>1, <2>1, CronNextTyped
  <2>3. QED
    BY <1>5, <2>1, <2>2 DEF Creates, SettledUpToNow, NextRun
<1>6. CASE Writes(s)
  BY <1>6 DEF Writes, SettledUpToNow, NextRun
<1>7. CASE Deletes(s)
  <2>1. row[s] \in Row /\ row'[s].cron \in Expressions \cup {{}}
    BY <1>1, <1>7 DEF Typed, TypeOK, Deletes
  <2>2. row'[s].nextRun \in Nat /\ CronNext(row'[s].cron, now') \in Nat
    BY <1>1, <1>7, <2>1, CronNextTyped DEF Deletes, Row
  <2>3. QED
    BY <1>7, <2>2 DEF Deletes, SettledUpToNow, NextRun
<1>8. QED
  BY <1>4, <1>5, <1>6, <1>7, RowsComeFrom

LEMMA NextNeverRuns ==
    ASSUME SettledInv, [Next]_vars, NEW s \in Schedules
    PROVE  NeverRuns(s)'
<1> USE DEF SettledInv, ExistingInv
<1>1. SUFFICES ASSUME row'[s].cron = {}
               PROVE  /\ row'[s].nextRun = Never /\ resume'[s].to = Never
                      /\ \A e \in Slots : slot'[e] # Free /\ slot'[e].id = s => slot'[e].to = Never
  BY DEF NeverRuns
<1>2. row[s].cron = {}
  <2>1. CASE Exists(s)
    BY <1>1, <2>1, ExistsStays
  <2>2. CASE ~Exists(s)
    BY <2>2 DEF Existing, Blank
  <2>3. QED
    BY <2>1, <2>2
<1>3. NextRun(s) = Never /\ row[s].nextRun = Never /\ resume[s].to = Never
  BY <1>2 DEF NextRun, CronNext, NeverRuns
<1>4. row'[s].nextRun = Never
  BY <1>1, <1>2, <1>3, RowsComeFrom DEF Keeps, Creates, Writes, Deletes, CronNext
<1>5. resume'[s].to \in {resume[s].to, 0, NextRun(s)}
  <2> USE DEF Typed, TypeOK
  <2>1. CASE UNCHANGED resume
    BY <2>1
  <2>2. ASSUME ProcessEnds PROVE resume'[s].to = 0
    BY <2>2 DEF ProcessEnds, NoResume
  <2>3. CASE Start \/ StopCalled \/ StopCloses \/ StopReturns \/ Crash \/ Tick
    BY <2>1, <2>2, <2>3 DEF Start, StopCalled, StopCloses, StopReturns, Crash, Tick
  <2>4. ASSUME NEW l \in Loops, LoopStep(l) PROVE UNCHANGED resume
    BY <2>4 DEF LoopStep, Check, CheckFails, Hand, HandStopped, WaitStopped, vars, volatile
  <2>5. ASSUME NEW e \in Slots, ExecutionStep(e) PROVE UNCHANGED resume
    BY <2>5 DEF ExecutionStep, QuerySucceeds, QueryFails, Advance, MarkFailed, WriteFails
  <2>6. ASSUME NEW r \in Schedules, UserStep(r)
        PROVE  resume'[s].to \in {resume[s].to, 0, NextRun(s)}
    BY <2>6 DEF UserStep, CreateSchedule, PauseSchedule, DeleteSchedule, ExecuteNow,
       ResumeSchedule, ResumeNextRun, ResumeStatus, ResumeFails, volatile, NoResume
  <2>7. QED
    BY <2>1, <2>3, <2>4, <2>5, <2>6 DEF Next, vars, volatile
<1>6. ASSUME NEW f \in Slots, slot'[f] # Free, slot'[f].id = s PROVE slot'[f].to = Never
  <2>1. CASE GoesOn(f)
    <3>1. slot[f] # Free /\ slot[f].id = s /\ slot'[f].to \in {slot[f].to, NextRun(s)}
      BY <1>6, <2>1 DEF GoesOn, Execution, Free
    <3>2. QED
      BY <1>2, <1>3, <3>1 DEF NeverRuns
  <2>2. CASE HandedOver(f)
    BY <2>2 DEF HandedOver, Never
  <2>3. CASE ByUser(f)
    BY <2>3 DEF ByUser, Never
  <2>4. QED
    BY <1>6, <2>1, <2>2, <2>3, SlotsComeFrom
<1>7. QED
  BY <1>3, <1>4, <1>5, <1>6 DEF Never

LEMMA NextSettled == SettledInv /\ [Next]_vars => SettledInv'
<1>1. SettledInv /\ [Next]_vars => ExistingInv'
  BY NextExisting DEF SettledInv
<1>2. QED
  BY <1>1, NextReadWhenDue, NextSettledUpToNow, NextNeverRuns DEF SettledInv

\* A schedule with a next time is not due for a time that is settled: one after which the run
\* for it, or a resume, has written the next run.
THEOREM NotDueAgainHolds == Spec => []NotDueAgain
<1>1. ASSUME SettledInv, NEW s \in Schedules
      PROVE  row[s].nextRun = Never \/ row[s].nextRun >= settled[s]
  <2>1. settled[s] \in Nat /\ row[s].nextRun \in Nat
    BY <1>1 DEF SettledInv, ExistingInv, Typed, TypeOK, Row
  <2>2. CASE row[s].cron = {}
    BY <1>1, <2>2 DEF SettledInv, NeverRuns
  <2>3. CASE row[s].cron # {}
    BY <1>1, <2>1, <2>3 DEF SettledInv, SettledUpToNow
  <2>4. QED
    BY <2>2, <2>3
<1>2. SettledInv => NotDueAgain
  BY <1>1 DEF NotDueAgain
<1>3. Spec => []SettledInv
  BY InitSettled, NextSettled, PTL DEF Spec
<1>4. QED
  BY <1>2, <1>3, PTL
-----------------------------------------------------------------------------
(* What is off starts at most once more from each loop. *)

Holds(l, s) == \E d \in loop[l].due : d.id = s

Holders(s) == {l \in Loops : Holds(l, s)}

\* A loop holds a schedule once.
HeldOnce == \A l \in Loops : \A d, x \in loop[l].due : x.id = d.id => x = d

\* The starts there have been since the schedule was last active, and those to come.
Account(s) ==
    /\ Live(s) => afterOff[s] = 0
    /\ afterOff[s] + Cardinality(Holders(s)) <= MaxLoops

AccountInv == ExistingInv /\ HeldOnce /\ \A s \in Schedules : Account(s)

LEMMA HoldersFinite ==
    ASSUME NEW S \in SUBSET Loops
    PROVE  IsFiniteSet(S) /\ Cardinality(S) \in Nat /\ Cardinality(S) <= MaxLoops
<1>1. IsFiniteSet(Loops) /\ Cardinality(Loops) = MaxLoops
  BY SchedulerAssumption, FS_Interval DEF Loops
<1>2. QED
  BY <1>1, FS_Subset, FS_CardinalityType

LEMMA NextHeldOnce ==
    ASSUME AccountInv, [Next]_vars
    PROVE  HeldOnce'
<1>1. ASSUME NEW k \in Loops, NEW d \in loop'[k].due, NEW x \in loop'[k].due, x.id = d.id
      PROVE  x = d
  <2>1. ListFrom(k)
    BY ListsComeFrom DEF AccountInv, ExistingInv
  <2>2. CASE \E j \in Loops : loop'[k].due \subseteq loop[j].due
    BY <1>1, <2>2 DEF AccountInv, HeldOnce
  <2>3. CASE loop'[k].due = ReadNow
    BY <1>1, <2>3 DEF ReadNow
  <2>4. QED
    BY <1>1, <2>1, <2>2, <2>3 DEF ListFrom
<1>2. QED
  BY <1>1 DEF HeldOnce

\* A loop that ends hands nothing on: the others move up with what they hold.
LEMMA HoldersMoveUp ==
    ASSUME Typed, NEW l \in Loops, WaitStopped(l), NEW s \in Schedules
    PROVE  Cardinality(Holders(s)') <= Cardinality(Holders(s))
<1> DEFINE H == Holders(s)'
           up == [k \in H |-> IF k < l THEN k ELSE k + 1]
<1>1. H \in SUBSET Loops /\ Holders(s) \in SUBSET Loops
  BY DEF Holders
<1>2. ASSUME NEW k \in H PROVE up[k] \in Holders(s)
  <2>1. k \in Loops /\ \E d \in loop'[k].due : d.id = s
    BY <1>2 DEF Holders, Holds
  <2>2. loop'[k] = IF k < l THEN loop[k] ELSE IF k < MaxLoops THEN loop[k + 1] ELSE NoLoop
    BY <2>1 DEF WaitStopped, After
  <2>3. CASE k < l
    BY <2>1, <2>2, <2>3 DEF Holders, Holds
  <2>4. CASE ~(k < l)
    <3>1. k < MaxLoops /\ loop'[k] = loop[k + 1]
      BY <2>1, <2>2, <2>4 DEF NoLoop
    <3>2. k + 1 \in Loops
      BY <2>1, <3>1, SchedulerAssumption DEF Loops
    <3>3. QED
      BY <2>1, <2>4, <3>1, <3>2 DEF Holders, Holds
  <2>5. QED
    BY <2>3, <2>4
<1>3. ASSUME NEW j \in H, NEW k \in H, up[j] = up[k] PROVE j = k
  <2>1. j \in Nat /\ k \in Nat /\ l \in Nat
    BY <1>1 DEF Loops
  <2>2. QED
    BY <1>3, <2>1
<1>4. up \in Injection(H, Holders(s))
  BY <1>2, <1>3 DEF Injection, IsInjective
<1>5. IsFiniteSet(Holders(s))
  BY <1>1, HoldersFinite
<1> HIDE DEF H, up
<1>6. Cardinality(H) <= Cardinality(Holders(s))
  BY <1>4, <1>5, FS_Injection
<1>7. QED
  BY <1>6 DEF H

\* No loop comes to hold a schedule that is not active.
LEMMA HoldersOfOff ==
    ASSUME AccountInv, [Next]_vars, NEW s \in Schedules, ~Live(s)
    PROVE  Cardinality(Holders(s)') <= Cardinality(Holders(s))
<1> USE DEF AccountInv, ExistingInv, Typed, TypeOK
<1>1. ASSUME \A k \in Loops : loop'[k].due \subseteq loop[k].due \/ loop'[k].due = ReadNow
      PROVE  Cardinality(Holders(s)') <= Cardinality(Holders(s))
  <2>1. ASSUME NEW k \in Loops, \E d \in loop'[k].due : d.id = s
        PROVE  \E d \in loop[k].due : d.id = s
    BY <1>1, <2>1 DEF ReadNow, IsDue
  <2>2. Holders(s)' \subseteq Holders(s)
    BY <2>1 DEF Holders, Holds
  <2>3. IsFiniteSet(Holders(s))
    BY HoldersFinite DEF Holders
  <2>4. QED
    BY <2>2, <2>3, FS_Subset
<1>2. CASE UNCHANGED loop
  BY <1>1, <1>2
<1>3. ASSUME ProcessEnds PROVE \A k \in Loops : loop'[k].due \subseteq loop[k].due
  BY <1>3 DEF ProcessEnds, NoLoop
<1>4. CASE Start
  <2>1. \A k \in Loops : loop'[k].due \subseteq loop[k].due
    BY <1>4, Starts DEF Waiting
  <2>2. QED
    BY <1>1, <2>1
<1>5. CASE StopCalled \/ StopCloses \/ StopReturns \/ Crash \/ Tick
  BY <1>1, <1>2, <1>3, <1>5 DEF StopCalled, StopCloses, StopReturns, Crash, Tick
<1>6. ASSUME NEW l \in Loops, LoopStep(l) PROVE Cardinality(Holders(s)') <= Cardinality(Holders(s))
  <2>1. CASE Check(l)
    <3>1. loop' = [loop EXCEPT ![l] = Handing(ReadNow)]
      BY <2>1 DEF Check, ReadNow
    <3>2. QED
      BY <1>1, <3>1 DEF Handing
  <2>2. CASE Hand(l)
    <3>1. PICK d \in loop[l].due : loop' = [loop EXCEPT ![l] = Handing(loop[l].due \ {d})]
      BY <2>2 DEF Hand
    <3>2. \A k \in Loops : loop'[k].due \subseteq loop[k].due
      BY <3>1 DEF Handing
    <3>3. QED
      BY <1>1, <3>2
  <2>3. CASE HandStopped(l)
    <3>1. \A k \in Loops : loop'[k].due \subseteq loop[k].due
      BY <2>3 DEF HandStopped, Handing
    <3>2. QED
      BY <1>1, <3>1
  <2>4. CASE CheckFails(l)
    BY <1>2, <2>4 DEF CheckFails, vars, volatile
  <2>5. CASE WaitStopped(l)
    BY <2>5, HoldersMoveUp
  <2>6. QED
    BY <1>6, <2>1, <2>2, <2>3, <2>4, <2>5 DEF LoopStep
<1>7. ASSUME NEW e \in Slots, ExecutionStep(e) PROVE UNCHANGED loop
  BY <1>7 DEF ExecutionStep, QuerySucceeds, QueryFails, Advance, MarkFailed, WriteFails
<1>8. ASSUME NEW r \in Schedules, UserStep(r) PROVE UNCHANGED loop
  BY <1>8 DEF UserStep, CreateSchedule, PauseSchedule, DeleteSchedule, ExecuteNow,
     ResumeSchedule, ResumeNextRun, ResumeStatus, ResumeFails, volatile
<1>9. QED
  BY <1>2, <1>4, <1>5, <1>6, <1>7, <1>8 DEF Next, vars, volatile

\* Handing out a schedule that is off: one start more, one holder less.
LEMMA HandAccount ==
    ASSUME AccountInv, NEW l \in Loops, Hand(l), NEW s \in Schedules, ~Live(s)
    PROVE  afterOff'[s] + Cardinality(Holders(s)') <= MaxLoops
<1> USE DEF AccountInv, ExistingInv, Typed, TypeOK
<1>1. PICK d \in loop[l].due :
            /\ loop' = [loop EXCEPT ![l] = Handing(loop[l].due \ {d})]
            /\ afterOff' = IF Live(d.id) THEN afterOff ELSE [afterOff EXCEPT ![d.id] = @ + 1]
  BY DEF Hand
<1>2. d.id \in Schedules
  BY <1>1 DEF Loop, Due
<1>3. loop'[l].due = loop[l].due \ {d} /\ \A k \in Loops : k # l => loop'[k] = loop[k]
  BY <1>1 DEF Handing
<1>4. IsFiniteSet(Holders(s)) /\ Cardinality(Holders(s)) \in Nat
  BY HoldersFinite DEF Holders
<1>5. afterOff[s] + Cardinality(Holders(s)) <= MaxLoops /\ afterOff[s] \in Nat
  BY DEF Account
<1>6. CASE d.id = s
  <2>1. l \in Holders(s)
    BY <1>1, <1>6 DEF Holders, Holds
  <2>2. ~\E x \in loop'[l].due : x.id = s
    BY <1>1, <1>3, <1>6 DEF HeldOnce
  <2>3. Holders(s)' = Holders(s) \ {l}
    BY <1>3, <2>1, <2>2 DEF Holders, Holds
  <2>4. Cardinality(Holders(s)') = Cardinality(Holders(s)) - 1
    BY <1>4, <2>1, <2>3, FS_RemoveElement
  <2>5. afterOff'[s] = afterOff[s] + 1
    BY <1>1, <1>6
  <2>6. QED
    BY <1>4, <1>5, <2>4, <2>5
<1>7. CASE d.id # s
  <2>1. Holders(s)' = Holders(s)
    BY <1>1, <1>3, <1>7 DEF Holders, Holds
  <2>2. afterOff'[s] = afterOff[s]
    BY <1>1, <1>2, <1>7
  <2>3. QED
    BY <1>5, <2>1, <2>2
<1>8. QED
  BY <1>6, <1>7

\* A schedule is turned on by its creation and by ResumeStatus alone.
LEMMA TurnedOn ==
    ASSUME AccountInv, [Next]_vars, NEW s \in Schedules
    PROVE  /\ ResumeStatus(s) => afterOff'[s] = 0
           /\ Live(s)' => Live(s) \/ ~Exists(s) \/ ResumeStatus(s)
           /\ afterOff'[s] # afterOff[s] =>
                 afterOff'[s] = 0 \/ (~Live(s) /\ ~Live(s)' /\ \E l \in Loops : Hand(l))
<1> DEFINE Goal == /\ ResumeStatus(s) => afterOff'[s] = 0
                   /\ Live(s)' => Live(s) \/ ~Exists(s) \/ ResumeStatus(s)
                   /\ afterOff'[s] # afterOff[s] =>
                         afterOff'[s] = 0 \/ (~Live(s) /\ ~Live(s)' /\ \E l \in Loops : Hand(l))
<1> USE DEF AccountInv, ExistingInv, Typed, TypeOK
<1>1. ResumeStatus(s) => afterOff'[s] = 0
  BY DEF ResumeStatus
<1>2. ASSUME UNCHANGED <<row, afterOff>> PROVE Goal
  BY <1>1, <1>2 DEF Live
<1>3. CASE (Start \/ StopCalled \/ StopCloses \/ StopReturns \/ Crash \/ Tick) \/ UNCHANGED vars
  BY <1>2, <1>3 DEF Start, StopCalled, StopCloses, StopReturns, Crash, Tick, vars, history
<1>4. ASSUME NEW l \in Loops, LoopStep(l) PROVE Goal
  <2>1. CASE Hand(l)
    <3>1. PICK d \in loop[l].due :
                afterOff' = IF Live(d.id) THEN afterOff ELSE [afterOff EXCEPT ![d.id] = @ + 1]
      BY <2>1 DEF Hand
    <3>2. d.id \in Schedules /\ UNCHANGED row
      BY <2>1, <3>1 DEF Hand, Loop, Due
    <3>3. (Live(s)' <=> Live(s)) /\ (afterOff'[s] # afterOff[s] => ~Live(s))
      BY <3>1, <3>2 DEF Live
    <3>4. QED
      BY <1>1, <2>1, <3>3
  <2>2. CASE ~Hand(l)
    BY <1>2, <1>4, <2>2 DEF LoopStep, Check, CheckFails, HandStopped, WaitStopped, vars, history
  <2>3. QED
    BY <2>1, <2>2
<1>5. ASSUME NEW e \in Slots, ExecutionStep(e) PROVE Goal
  <2>1. row'[s].status \in {row[s].status, "off"} /\ row'[s].deleted = row[s].deleted
    BY <1>5 DEF ExecutionStep, QuerySucceeds, QueryFails, Advance, MarkFailed, WriteFails, Row
  <2>2. UNCHANGED afterOff
    BY <1>5 DEF ExecutionStep, QuerySucceeds, QueryFails, Advance, MarkFailed, WriteFails, history
  <2>3. QED
    BY <1>1, <2>1, <2>2 DEF Live
<1>6. ASSUME NEW r \in Schedules, UserStep(r) PROVE Goal
  <2>1. CASE ResumeStatus(r)
    <3>1. r # s => row'[s] = row[s] /\ afterOff'[s] = afterOff[s]
      BY <2>1 DEF ResumeStatus
    <3>2. QED
      BY <1>1, <2>1, <3>1 DEF Live
  <2>2. CASE ~ResumeStatus(r)
    <3>1. UNCHANGED afterOff
      BY <1>6, <2>2 DEF UserStep, CreateSchedule, PauseSchedule, DeleteSchedule, ExecuteNow,
         ResumeSchedule, ResumeNextRun, ResumeFails, volatile, history
    <3>2. CASE ExecuteNow(r) \/ ResumeSchedule(r) \/ ResumeFails(r)
      BY <1>2, <3>1, <3>2 DEF ExecuteNow, ResumeSchedule, ResumeFails
    <3>3. CASE PauseSchedule(r) \/ DeleteSchedule(r) \/ ResumeNextRun(r)
      <4>1. /\ row'[s].status \in {row[s].status, "off"}
            /\ row'[s].deleted \in {row[s].deleted, TRUE}
        <5>1. CASE r = s
          <6>1. row[s] \in Row
            OBVIOUS
          <6>2. CASE PauseSchedule(r)
            BY <5>1, <6>1, <6>2 DEF PauseSchedule, Row
          <6>3. CASE DeleteSchedule(r)
            BY <5>1, <6>1, <6>3 DEF DeleteSchedule, Row
          <6>4. CASE ResumeNextRun(r)
            BY <5>1, <6>1, <6>4 DEF ResumeNextRun, Row
          <6>5. QED
            BY <3>3, <6>2, <6>3, <6>4
        <5>2. CASE r # s
          BY <3>3, <5>2 DEF PauseSchedule, DeleteSchedule, ResumeNextRun
        <5>3. QED
          BY <5>1, <5>2
      <4>2. QED
        BY <1>1, <3>1, <4>1 DEF Live
    <3>4. CASE CreateSchedule(r)
      <4>1. ~Exists(r) /\ (r # s => row'[s] = row[s])
        BY <3>4 DEF CreateSchedule
      <4>2. QED
        BY <1>1, <3>1, <4>1 DEF Live
    <3>5. QED
      BY <1>6, <2>2, <3>2, <3>3, <3>4 DEF UserStep
  <2>3. QED
    BY <2>1, <2>2
<1>7. QED
  BY <1>3, <1>4, <1>5, <1>6 DEF Next

LEMMA InitAccount == Init => AccountInv
<1> SUFFICES ASSUME Init PROVE AccountInv
  OBVIOUS
<1>1. ExistingInv /\ HeldOnce
  BY InitExisting DEF Init, HeldOnce, NoLoop
<1>2. ASSUME NEW s \in Schedules PROVE Account(s)
  <2>1. afterOff[s] = 0 /\ ~Live(s)
    BY DEF Init, Live
  <2>2. Cardinality(Holders(s)) \in Nat /\ Cardinality(Holders(s)) <= MaxLoops
    BY HoldersFinite DEF Holders
  <2>3. QED
    BY <2>1, <2>2 DEF Account
<1>3. QED
  BY <1>1, <1>2 DEF AccountInv

LEMMA NextAccount == AccountInv /\ [Next]_vars => AccountInv'
<1> SUFFICES ASSUME AccountInv, [Next]_vars PROVE AccountInv'
  OBVIOUS
<1>1. ExistingInv' /\ HeldOnce'
  BY NextExisting, NextHeldOnce DEF AccountInv
<1>2. ASSUME NEW s \in Schedules PROVE Account(s)'
  <2>1. Account(s) /\ afterOff[s] \in Nat /\ (~Exists(s) => afterOff[s] = 0)
    BY DEF AccountInv, ExistingInv, Existing, Blank, Typed, TypeOK
  <2>2. /\ Cardinality(Holders(s)) \in Nat
        /\ Cardinality(Holders(s)') \in Nat /\ Cardinality(Holders(s)') <= MaxLoops
    BY HoldersFinite DEF Holders
  <2>3. Live(s)' => afterOff'[s] = 0
    BY <2>1, TurnedOn DEF Account
  <2>4. afterOff'[s] + Cardinality(Holders(s)') <= MaxLoops
    <3>1. CASE afterOff'[s] = 0
      BY <2>2, <3>1
    <3>2. CASE afterOff'[s] = afterOff[s] /\ afterOff[s] # 0
      <4>1. ~Live(s)
        BY <2>1, <3>2 DEF Account
      <4>2. Cardinality(Holders(s)') <= Cardinality(Holders(s))
        BY <4>1, HoldersOfOff
      <4>3. QED
        BY <2>1, <2>2, <3>2, <4>2, SchedulerAssumption DEF Account
    <3>3. CASE ~Live(s) /\ \E l \in Loops : Hand(l)
      BY <3>3, HandAccount
    <3>4. QED
      BY <3>1, <3>2, <3>3, TurnedOn
  <2>5. QED
    BY <2>3, <2>4 DEF Account
<1>3. QED
  BY <1>1, <1>2 DEF AccountInv

\* A schedule that has been paused, deleted or marked failed starts at most once more from
\* each loop.
THEOREM OffStartsOnceMoreHolds == Spec => []OffStartsOnceMore
<1>1. ASSUME AccountInv, NEW s \in Schedules PROVE afterOff[s] <= MaxLoops
  <2>1. afterOff[s] + Cardinality(Holders(s)) <= MaxLoops /\ afterOff[s] \in Nat
    BY <1>1 DEF AccountInv, Account, ExistingInv, Typed, TypeOK
  <2>2. Cardinality(Holders(s)) \in Nat
    BY HoldersFinite DEF Holders
  <2>3. QED
    BY <2>1, <2>2, SchedulerAssumption
<1>2. AccountInv => OffStartsOnceMore
  BY <1>1 DEF OffStartsOnceMore
<1>3. Spec => []AccountInv
  BY InitAccount, NextAccount, PTL DEF Spec
<1>4. QED
  BY <1>2, <1>3, PTL
=============================================================================
