------------------------- MODULE MCSnapshotCleanup -------------------------
(***************************************************************************)
(* SnapshotCleanup for TLC.                                                *)
(***************************************************************************)
EXTENDS SnapshotCleanup
=============================================================================
