---------------------------- MODULE MCSyncServer ----------------------------
(* Two devices, one saved query and one history entry (or connection template). *)
EXTENDS SyncServer, TLC

CONSTANTS d1, d2, conn, query, entry

MCDevices == {d1, d2}
Symmetry == Permutations(MCDevices)
=============================================================================
