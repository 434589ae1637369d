----------------------------- MODULE MCScheduler -----------------------------
(* A schedule that runs every minute or never, two executions at a time. *)
EXTENDS Scheduler, TLC

CONSTANTS s1

MCExpressions == {1..(MaxTime + 1), {}}
=============================================================================
