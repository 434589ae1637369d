----------------------------- MODULE MCSyncStore -----------------------------
(* Three conflicts that one cycle, or up to three cycles, report. *)
EXTENDS SyncStore, TLC

CONSTANTS x, y, z
=============================================================================
