---------------------------- MODULE MCSyncFuzzers --------------------------
(* The instance TLC checks: two processes on one output directory, and a   *)
(* fuzzer that imports from it.                                            *)
EXTENDS SyncFuzzers
=============================================================================
