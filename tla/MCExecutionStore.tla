-------------------------- MODULE MCExecutionStore --------------------------
(***************************************************************************)
(* Instance of ExecutionStore for TLC: every manual run is of the one      *)
(* detail that a schedule also runs.                                       *)
(***************************************************************************)
EXTENDS ExecutionStore

CONSTANTS d1

MCManualDetail == [m \in Manuals |-> d1]
=============================================================================
