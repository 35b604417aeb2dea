-------------------------- MODULE MCGroupExecution --------------------------
(***************************************************************************)
(* Instance of GroupExecution for TLC: two details in the first sequence,  *)
(* one in the second.                                                      *)
(***************************************************************************)
EXTENDS GroupExecution, TLC

CONSTANTS d1, d2, d3

TwoSequences == [d \in Details |-> IF d = d3 THEN 2 ELSE 1]
Symmetry == Permutations({d1, d2})
=============================================================================
