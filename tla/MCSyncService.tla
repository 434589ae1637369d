---------------------------- MODULE MCSyncService ----------------------------
(* A connection, a saved query, or one of each. *)
EXTENDS SyncService

CONSTANTS conn, query
=============================================================================
