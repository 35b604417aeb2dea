--------------------------- MODULE MCResultOutbox ---------------------------
(***************************************************************************)
(* Instance of ResultOutbox for TLC: every job is of the one group.        *)
(***************************************************************************)
EXTENDS ResultOutbox

CONSTANTS gA

OneGroup == [j \in Jobs |-> gA]
=============================================================================
