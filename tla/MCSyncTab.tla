------------------------------ MODULE MCSyncTab ------------------------------
(* Two conflicts that up to two cycles report and the user resolves beside them. *)
EXTENDS SyncTab, TLC

CONSTANTS x, y, own
=============================================================================
