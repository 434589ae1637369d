---------------------------- MODULE MCSyncClient ----------------------------
(* Requests of a cycle and of the user, up to four of them. *)
EXTENDS SyncClient

CONSTANTS r1, r2, r3, r4
=============================================================================
