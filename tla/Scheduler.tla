------------------------------ MODULE Scheduler ------------------------------
(***************************************************************************)
(* The scheduler of saved queries (src/internal/scheduler/scheduler.go),   *)
(* the table of schedules it reads (src/pkg/storage/turso/                 *)
(* schedule_store.go) and the requests of users that change that table     *)
(* (src/internal/templates/service.go).                                    *)
(*                                                                         *)
(* One loop reads the schedules that are due and hands each to a goroutine *)
(* of its own, at most Slots at once; a goroutine runs the query and then  *)
(* writes the next run, or the failure.  Nothing claims a schedule between *)
(* the read and that write.  Every statement on the database is a step, so *)
(* pauses, deletions, restarts and the clock fall between any two of them. *)
(*                                                                         *)
(* Times are minutes: cron knows nothing finer.  The ticker is left out: a *)
(* loop that waits may read the table at any time.  Execution rows and     *)
(* notifications are left out too: nothing reads them back.                *)
(***************************************************************************)
EXTENDS Integers

CONSTANTS
    Schedules,
    MaxConcurrent,  \* executions at a time
    Expressions,    \* cron expressions, each as the set of the minutes that match it
    MaxTime,        \* bound: the clock stops here
    MaxStops,       \* bound on the calls of Stop under way at a time
    MaxLoops        \* bound on the loops running at a time

(* The time itself counts as the next. *)
BugIsNext(x, t, n) == n >= t /\ \A m \in x : m >= t => n <= m

(* n is the first minute that is later than t and matches the expression x. *)
IsNext(x, t, n) == n > t /\ \A m \in x : m > t => n <= m

(* An expression matches again and again, or never, like that of the 30th of February. *)
ASSUME SchedulerAssumption ==
    /\ MaxConcurrent \in Nat \ {0}
    /\ MaxTime \in Nat /\ MaxStops \in Nat /\ MaxLoops \in Nat
    /\ Expressions \subseteq SUBSET Nat
    /\ \A x \in Expressions, t \in 0..MaxTime : x # {} => \E n \in x : IsNext(x, t, n)

VARIABLES
    row,        \* the table query_schedules
    now,
    running,    \* Scheduler.running
    closed,     \* stopChan is closed; it is made once, in NewScheduler
    closing,    \* calls of Stop that have let go of the lock and not closed the channel yet
    waiting,    \* a call of Stop waits for the wait group
    loop,       \* the run loops: several when Start comes between the steps of a Stop
    slot,       \* the executions
    resume,     \* the call of ResumeSchedule for each schedule
    \* History:
    settled,    \* for every time before this, a run or a resume wrote the next one
    afterOff    \* executions that loops started since the schedule was last active

control == <<running, closed, closing, waiting>>
volatile == <<control, loop, slot, resume>>
history == <<settled, afterOff>>
vars == <<row, now, volatile, history>>

Stops == closing + (IF waiting THEN 1 ELSE 0)

Loops == 1..MaxLoops
Slots == 1..MaxConcurrent     \* what the semaphore counts
NoLoop == [pc |-> "none", due |-> {}]
Free == [pc |-> "free"]

(* "off" is paused or failed: nothing that reads the status tells them apart. *)
Row == [status: {"absent", "active", "off"}, deleted: BOOLEAN, cron: Expressions \cup {{}},
        nextRun: Nat]
Due == [id: Schedules, at: Nat]
Loop == [pc: {"none", "hand", "wait"}, due: SUBSET Due]
Execution == [pc: {"query", "advance", "fail"}, id: Schedules, at: Nat, to: Nat,
              by: {"loop", "user"}]
NoResume == [pc |-> "none", to |-> 0]
Resume == [pc: {"none", "nextRun", "status"}, to: Nat]

(* cron's Next: without a match it is the zero time, which is before every other and which  *)
(* the table keeps like any other. *)
Never == 0
CronNext(x, t) == IF x = {} THEN Never ELSE CHOOSE n \in x : IsNext(x, t, n)

(* The next run of a schedule; it keeps its expression here. *)
NextRun(s) == CronNext(row[s].cron, now)

Exists(s) == row[s].status # "absent"
Live(s) == row[s].status = "active" /\ ~row[s].deleted
(* The status and the deletion are not asked. *)
BugIsDue(s) == Exists(s) /\ row[s].nextRun <= now

IsDue(s) == Live(s) /\ row[s].nextRun <= now

Init ==
    /\ row = [s \in Schedules |-> [status |-> "absent", deleted |-> FALSE, cron |-> {},
                                 nextRun |-> Never]]
    /\ now = 0
    /\ running = FALSE /\ closed = FALSE
    /\ closing = 0 /\ waiting = FALSE
    /\ loop = [l \in Loops |-> NoLoop]
    /\ slot = [e \in Slots |-> Free]
    /\ resume = [s \in Schedules |-> NoResume]
    /\ settled = [s \in Schedules |-> 0]
    /\ afterOff = [s \in Schedules |-> 0]

-----------------------------------------------------------------------------
(* The process. *)

Start ==
    /\ ~running
    /\ running' = TRUE
    /\ \E l \in Loops :
          /\ loop[l] = NoLoop /\ \A k \in 1..(l - 1) : loop[k] # NoLoop    \* loops are alike
          /\ loop' = [loop EXCEPT ![l].pc = "wait"]
    /\ UNCHANGED <<row, now, closed, closing, waiting, slot, resume, history>>

(* Stop lets go of the lock before it closes the channel: Start, and then another Stop, may *)
(* run in between. *)
StopCalled ==
    /\ running /\ Stops < MaxStops
    /\ running' = FALSE
    /\ closing' = closing + 1
    /\ UNCHANGED <<row, now, closed, waiting, loop, slot, resume, history>>

(* The process ends: a crash, or the panic of close on a closed channel.  The next one has *)
(* a new Scheduler. *)
ProcessEnds ==
    /\ running' = FALSE /\ closed' = FALSE
    /\ closing' = 0 /\ waiting' = FALSE
    /\ loop' = [l \in Loops |-> NoLoop]
    /\ slot' = [e \in Slots |-> Free]
    /\ resume' = [s \in Schedules |-> NoResume]

StopCloses ==
    /\ closing > 0
    /\ IF closed
       THEN ProcessEnds
       ELSE /\ closed' = TRUE
            /\ closing' = closing - 1 /\ waiting' = TRUE
            /\ UNCHANGED <<running, loop, slot, resume>>
    /\ UNCHANGED <<row, now, history>>

(* The executions are missing from the wait group. *)
BugAllDone == \A l \in Loops : loop[l] = NoLoop

(* The wait group counts the loops and every execution. *)
AllDone ==
    /\ \A l \in Loops : loop[l] = NoLoop
    /\ \A e \in Slots : slot[e] = Free

StopReturns ==
    /\ waiting /\ AllDone
    /\ waiting' = FALSE
    /\ UNCHANGED <<row, now, running, closed, closing, loop, slot, resume, history>>

Crash ==
    /\ ProcessEnds
    /\ UNCHANGED <<row, now, history>>

Tick ==
    /\ now < MaxTime
    /\ now' = now + 1
    /\ UNCHANGED <<row, control, loop, slot, resume, history>>

-----------------------------------------------------------------------------
(* The loop: checkAndExecuteSchedules, again and again. *)

(* An early return that ends the loop. *)
BugHanding(d) == [pc |-> IF d = {} THEN "returned" ELSE "hand", due |-> d]

(* What stays with a loop that still has d to hand out. *)
Handing(d) == [pc |-> IF d = {} THEN "wait" ELSE "hand", due |-> d]

Check(l) ==
    /\ loop[l].pc = "wait"
    /\ loop' = [loop EXCEPT ![l] =
                  Handing({[id |-> s, at |-> row[s].nextRun] : s \in {x \in Schedules : IsDue(x)}})]
    /\ UNCHANGED <<row, now, control, slot, resume, history>>

(* A failed read ends the loop. *)
BugCheckFails(l) ==
    /\ loop[l].pc = "wait"
    /\ loop' = [loop EXCEPT ![l] = NoLoop]
    /\ UNCHANGED <<row, now, control, slot, resume, history>>

CheckFails(l) ==
    /\ loop[l].pc = "wait"
    /\ UNCHANGED vars

(* Slots are alike: the first free one is taken. *)
Takes(e) == slot[e] = Free /\ \A f \in 1..(e - 1) : slot[f] # Free

(* Earliest first; the row is not looked at again. *)
Hand(l) ==
    /\ loop[l].pc = "hand"
    /\ \E d \in loop[l].due, e \in Slots :
          /\ \A x \in loop[l].due : d.at <= x.at
          /\ Takes(e)
          /\ slot' = [slot EXCEPT ![e] =
                        [pc |-> "query", id |-> d.id, at |-> d.at, to |-> 0, by |-> "loop"]]
          /\ loop' = [loop EXCEPT ![l] = Handing(loop[l].due \ {d})]
          /\ afterOff' = IF Live(d.id) THEN afterOff ELSE [afterOff EXCEPT ![d.id] = @ + 1]
    /\ UNCHANGED <<row, now, control, resume, settled>>

(* With a slot free and the channel closed, select takes either. *)
HandStopped(l) ==
    /\ loop[l].pc = "hand" /\ closed
    /\ loop' = [loop EXCEPT ![l] = Handing({})]
    /\ UNCHANGED <<row, now, control, slot, resume, history>>

(* The loops after it move up. *)
After(k) == IF k < MaxLoops THEN loop[k + 1] ELSE NoLoop

WaitStopped(l) ==
    /\ loop[l].pc = "wait" /\ closed
    /\ loop' = [k \in Loops |-> IF k < l THEN loop[k] ELSE After(k)]
    /\ UNCHANGED <<row, now, control, slot, resume, history>>

-----------------------------------------------------------------------------
(* An execution.  Any statement may fail; the code logs it and goes on. *)

(* ExecuteNow looks at the status alone: GetByID returns deleted schedules too. *)
ExecuteNow(s) ==
    /\ row[s].status = "active"
    /\ \E e \in Slots :
          /\ Takes(e)
          /\ slot' = [slot EXCEPT ![e] = [pc |-> "query", id |-> s, at |-> 0, to |-> 0,
                                          by |-> "user"]]
    /\ UNCHANGED <<row, now, control, loop, resume, history>>

(* updateNextRun reads the clock, then writes. *)
QuerySucceeds(e) ==
    /\ slot[e].pc = "query"
    /\ slot' = [slot EXCEPT ![e].pc = "advance", ![e].to = NextRun(slot[e].id)]
    /\ UNCHANGED <<row, now, control, loop, resume, history>>

(* The template, the parameters, the query or its timeout. *)
QueryFails(e) ==
    /\ slot[e].pc = "query"
    /\ slot' = [slot EXCEPT ![e].pc = "fail", ![e].at = 0]
    /\ UNCHANGED <<row, now, control, loop, resume, history>>

(* History: the schedule need not run for a time before t any more; it has to for t again. *)
Settle(s, t) == [settled EXCEPT ![s] = IF @ < t THEN t ELSE @]
Unsettle(s, t) == [settled EXCEPT ![s] = IF t < @ THEN t ELSE @]

Advance(e) ==
    LET x == slot[e] IN
    /\ x.pc = "advance"
    /\ ~row[x.id].deleted
    /\ row' = [row EXCEPT ![x.id].nextRun = x.to]
    /\ slot' = [slot EXCEPT ![e] = Free]
    /\ settled' = IF x.to # NextRun(x.id) THEN Unsettle(x.id, x.to)
                  ELSE IF x.by = "loop" THEN Settle(x.id, x.at + 1) ELSE settled
    /\ UNCHANGED <<now, control, loop, resume, afterOff>>

MarkFailed(e) ==
    LET x == slot[e] IN
    /\ x.pc = "fail"
    /\ ~row[x.id].deleted
    /\ row' = [row EXCEPT ![x.id].status = "off"]
    /\ slot' = [slot EXCEPT ![e] = Free]
    /\ UNCHANGED <<now, control, loop, resume, history>>

(* The statement fails, its context is done, or the schedule is deleted. *)
WriteFails(e) ==
    /\ slot[e].pc \in {"advance", "fail"}
    /\ slot' = [slot EXCEPT ![e] = Free]
    /\ UNCHANGED <<row, now, control, loop, resume, history>>

-----------------------------------------------------------------------------
(* The users. *)

CreateSchedule(s) ==
    /\ ~Exists(s)
    /\ \E x \in Expressions :
          row' = [row EXCEPT ![s] = [status |-> "active", deleted |-> FALSE, cron |-> x,
                                     nextRun |-> CronNext(x, now)]]
    /\ UNCHANGED <<now, volatile, history>>

PauseSchedule(s) ==
    /\ Exists(s) /\ ~row[s].deleted
    /\ row' = [row EXCEPT ![s].status = "off"]
    /\ UNCHANGED <<now, volatile, history>>

DeleteSchedule(s) ==
    /\ Exists(s) /\ ~row[s].deleted
    /\ row' = [row EXCEPT ![s].deleted = TRUE]
    /\ settled' = [settled EXCEPT ![s] = 0]       \* it is never due, and nothing writes it, again
    /\ UNCHANGED <<now, volatile, afterOff>>

(* ResumeSchedule reads the clock, writes the next run and then the status.  Resuming an     *)
(* active schedule is allowed; of a deleted one nothing can be written. *)
ResumeSchedule(s) ==
    /\ Exists(s) /\ ~row[s].deleted
    /\ resume[s] = NoResume
    /\ resume' = [resume EXCEPT ![s] = [pc |-> "nextRun", to |-> NextRun(s)]]
    /\ UNCHANGED <<row, now, control, loop, slot, history>>

ResumeNextRun(s) ==
    /\ resume[s].pc = "nextRun"
    /\ ~row[s].deleted
    /\ row' = [row EXCEPT ![s].nextRun = resume[s].to]
    /\ settled' = IF resume[s].to # NextRun(s) THEN Unsettle(s, resume[s].to)
                                               ELSE Settle(s, resume[s].to)
    /\ resume' = [resume EXCEPT ![s] = [pc |-> "status", to |-> 0]]
    /\ UNCHANGED <<now, control, loop, slot, afterOff>>

ResumeStatus(s) ==
    /\ resume[s].pc = "status"
    /\ ~row[s].deleted
    /\ row' = [row EXCEPT ![s].status = "active"]
    /\ resume' = [resume EXCEPT ![s] = NoResume]
    /\ afterOff' = [afterOff EXCEPT ![s] = 0]
    /\ UNCHANGED <<now, control, loop, slot, settled>>

ResumeFails(s) ==
    /\ resume[s] # NoResume
    /\ resume' = [resume EXCEPT ![s] = NoResume]
    /\ UNCHANGED <<row, now, control, loop, slot, history>>

-----------------------------------------------------------------------------
LoopStep(l) ==
    Check(l) \/ CheckFails(l) \/ Hand(l) \/ HandStopped(l) \/ WaitStopped(l)

ExecutionStep(e) ==
    QuerySucceeds(e) \/ QueryFails(e) \/ Advance(e) \/ MarkFailed(e) \/ WriteFails(e)

UserStep(s) ==
    \/ CreateSchedule(s) \/ PauseSchedule(s) \/ DeleteSchedule(s) \/ ExecuteNow(s)
    \/ ResumeSchedule(s) \/ ResumeNextRun(s) \/ ResumeStatus(s) \/ ResumeFails(s)

Next ==
    \/ Start \/ StopCalled \/ StopCloses \/ StopReturns \/ Crash \/ Tick
    \/ \E l \in Loops : LoopStep(l)
    \/ \E e \in Slots : ExecutionStep(e)
    \/ \E s \in Schedules : UserStep(s)

(* Ticks come and the database answers now and then; a goroutine blocked on the semaphore   *)
(* is served before a later one, hence the strong fairness; a query ends (it has a timeout). *)
Fairness ==
    /\ WF_vars(\E l \in Loops : Check(l))
    /\ SF_vars(\E l \in Loops : Hand(l))
    /\ WF_vars(\E e \in Slots : ExecutionStep(e))

Spec == Init /\ [][Next]_vars /\ Fairness

-----------------------------------------------------------------------------
(* Every variable keeps its type. *)
TypeOK ==
    /\ row \in [Schedules -> Row]
    /\ now \in 0..MaxTime
    /\ running \in BOOLEAN /\ closed \in BOOLEAN
    /\ closing \in Nat /\ waiting \in BOOLEAN /\ Stops \in 0..MaxStops
    /\ loop \in [Loops -> Loop]
    /\ slot \in [Slots -> {Free} \cup Execution]
    /\ resume \in [Schedules -> Resume]
    /\ settled \in [Schedules -> Nat]
    /\ afterOff \in [Schedules -> Nat]

(* Stop "stops the scheduler gracefully": once it has returned, no loop is left and nothing *)
(* that a loop started is still executing, however Start and other calls of Stop come       *)
(* between its steps.  (What a user starts with ExecuteNow may be.)  A Stop that ends in the *)
(* panic of close leaves nothing either, nor anything else of the process. *)
QuietAfterStop ==
    ~running /\ Stops = 0 =>
        /\ \A l \in Loops : loop[l] = NoLoop
        /\ \A e \in Slots : slot[e] # Free => slot[e].by = "user"

(* A schedule is never due again for a time that is settled: one after which the run for it *)
(* wrote the next run, or one before the time that ResumeSchedule wrote, however long the   *)
(* pause and however many stale executions and lists of other loops are still to come.  A   *)
(* run whose write failed or was cut off settles nothing: its time runs again.  The one way *)
(* back is a cron time that passes between computing the next run and writing it.  A        *)
(* schedule without a next time is due at every tick. *)
NotDueAgain ==
    \A s \in Schedules : Live(s) => row[s].nextRun = Never \/ row[s].nextRun >= settled[s]

(* A pause, a deletion or a failure takes hold: each loop, of which a Start between the     *)
(* steps of Stop leaves more than one, starts the schedule at most once more, if it had     *)
(* read it before. *)
OffStartsOnceMore ==
    \A s \in Schedules : afterOff[s] <= MaxLoops

(* While the scheduler serves, a schedule that stays due is executed: again and again it is *)
(* under way, or not due, or nobody serves. *)
Serving == running /\ ~closed /\ Stops = 0
Executing(s) == \E e \in Slots : slot[e] # Free /\ slot[e].id = s

DueRuns ==
    \A s \in Schedules : []<>(IsDue(s) /\ Serving => Executing(s))

=============================================================================
