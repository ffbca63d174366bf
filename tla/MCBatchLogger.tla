--------------------------- MODULE MCBatchLogger ---------------------------
(***************************************************************************)
(* Small instances of BatchLogger for TLC.                                 *)
(***************************************************************************)
EXTENDS BatchLogger

AnyOutcome == {"stored", "failed", "unacknowledged"}

BothSignals == {"SIGTERM", "SIGINT"}

=============================================================================
