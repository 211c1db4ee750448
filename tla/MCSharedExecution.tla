------------------------- MODULE MCSharedExecution -------------------------
(* Two callers share one slot of any kind.                                 *)
EXTENDS SharedExecution
=============================================================================
