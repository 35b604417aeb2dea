----------------------------- MODULE MCAgentSync -----------------------------
(***************************************************************************)
(* Instance of AgentSync for TLC.  Going from one listing to the other     *)
(* leaves a job as it is, updates one, and adds or removes one.            *)
(***************************************************************************)
EXTENDS AgentSync, TLC

CONSTANTS k1, k2, k3, v1, v2

MCKeys == {k1, k2, k3}
MCVersions == {v1, v2}

Listing(a, b, c) == (k1 :> a) @@ (k2 :> b) @@ (k3 :> c)

MCListings == {Listing(v1, v1, Absent), Listing(v1, v2, v1)}
=============================================================================
