--------------------------- MODULE MCTabLifecycle ---------------------------
(* Two tabs, with timers and messages as late as the stale timeout allows. *)
EXTENDS TabLifecycle

CONSTANTS a, b
=============================================================================
