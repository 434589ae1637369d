------------------------------ MODULE SyncClient ------------------------------
(***************************************************************************)
(* The requests of the one SyncClient of a tab: request() and cancel() of  *)
(* frontend/src/lib/api/sync-client.ts.                                    *)
(*                                                                         *)
(* Every request makes an AbortController, keeps it in the client's one    *)
(* field, and arms a timer that aborts whatever controller is in the       *)
(* field when it fires.  The cycle's requests follow one another, but the  *)
(* resolution of a conflict may be sent while a cycle's request waits.     *)
(* The server may answer or not.                                           *)
(***************************************************************************)
EXTENDS Naturals, Sequences, SequencesExt

CONSTANT Requests

VARIABLES
    phase,       \* of each request: idle, waiting for headers, reading the body
    controller,  \* this.abortController: the request it belongs to, or none
    timers,      \* the requests whose timer is armed, in the order in which they fire
    overtaken    \* history: requests that were waiting when another was sent, until sent anew

vars == <<phase, controller, timers, overtaken>>

Init ==
    /\ phase = [r \in Requests |-> "idle"]
    /\ controller = {}
    /\ timers = <<>>
    /\ overtaken = {}

-----------------------------------------------------------------------------
\* Mutated forms of definitions, named BugX for X, are what the runs must catch.

Waiting == {r \in Requests : phase[r] = "waiting"}

\* The timers of q without the one, if there is one, of the requests in done.
Cleared(q, done) ==
    IF ToSet(q) \cap done = {} THEN q
    ELSE RemoveAt(q, CHOOSE n \in DOMAIN q : q[n] \in done)

\* The timers after clearTimeout(timeoutId) of r, or of the last timer armed.
BugWithout(r) == IF timers = <<>> THEN timers ELSE Front(timers)
Without(r) == Cleared(timers, {r})

Send(r) ==
    /\ phase[r] = "idle"
    /\ overtaken' = (overtaken \ {r}) \cup Waiting
    /\ phase' = [phase EXCEPT ![r] = "waiting"]
    /\ controller' = {r}
    /\ timers' = Append(timers, r)

\* fetch() resolves: the timer is cleared and the body, of an answer or of an error, read.
Headers(r) ==
    /\ phase[r] = "waiting"
    /\ phase' = [phase EXCEPT ![r] = "body"]
    /\ timers' = Without(r)
    /\ UNCHANGED <<controller, overtaken>>

\* fetch() fails.
NetworkError(r) ==
    /\ phase[r] = "waiting"
    /\ phase' = [phase EXCEPT ![r] = "idle"]
    /\ timers' = Without(r)
    /\ UNCHANGED <<controller, overtaken>>

\* The body is read, or reading it fails.
Body(r) ==
    /\ phase[r] = "body"
    /\ phase' = [phase EXCEPT ![r] = "idle"]
    /\ timers' = Without(r)
    /\ UNCHANGED <<controller, overtaken>>

\* abort(): the request of the controller, if it is in flight, throws and clears its timer.
Abort(armed) ==
    /\ phase' = [r \in Requests |->
                   IF r \in controller /\ phase[r] \in {"waiting", "body"} THEN "idle"
                   ELSE phase[r]]
    /\ timers' = Cleared(armed, controller)

TimerFires ==
    /\ timers # <<>>
    /\ Abort(Tail(timers))
    /\ UNCHANGED <<controller, overtaken>>

Cancel ==
    /\ controller # {}
    /\ Abort(timers)
    /\ controller' = {}
    /\ UNCHANGED overtaken

Next ==
    \/ \E r \in Requests : Send(r) \/ Headers(r) \/ NetworkError(r) \/ Body(r)
    \/ TimerFires
    \/ Cancel

\* Timers fire; nothing is assumed of the server.
Spec == Init /\ [][Next]_vars /\ WF_vars(TimerFires)

-----------------------------------------------------------------------------

\* The types of all variables.
TypeOK ==
    /\ phase \in [Requests -> {"idle", "waiting", "body"}]
    /\ controller \subseteq Requests
    /\ IsInjective(timers) /\ ToSet(timers) \subseteq Waiting
    /\ overtaken \subseteq Requests

\* A request waits without a limit only if another one was sent while it waited.
HangsOnlyWhenOvertaken == Waiting \subseteq ToSet(timers) \cup overtaken

\* frontend/src/lib/api/sync-client.ts:121: "Execute HTTP request with timeout and error
\* handling".
TimesOut == \A r \in Requests : phase[r] = "waiting" ~> phase[r] # "waiting"

=============================================================================
