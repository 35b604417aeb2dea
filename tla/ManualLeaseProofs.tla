-------------------------- MODULE ManualLeaseProofs --------------------------
(***************************************************************************)
(* The lease protocol alone, whatever implements it.                       *)
(***************************************************************************)
EXTENDS ManualLease, TLAPS

LeaseType ==
  /\ state \in [Manuals -> {"open", "held", "closed"}]
  /\ holder \in [Manuals -> Claims \cup {NoClaim}]
  /\ lapsed \in [Manuals -> BOOLEAN]
  /\ completed \in [Manuals -> SUBSET (Claims \cup {NoClaim})]

\* Only a claim that is held can lapse; so a closed run is never reclaimed.
LeaseInv ==
  /\ LeaseType
  /\ \A m \in Manuals : lapsed[m] => state[m] = "held"
  /\ CompletedOnce

(***************************************************************************)
(* A run nobody overrode is completed by at most one claim and then closed *)
(* for good: what the store promises because it implements the leases.     *)
(***************************************************************************)
THEOREM LeaseCompletedOnce == Spec => []CompletedOnce
<1>1. Init => LeaseInv
  BY DEF Init, LeaseInv, LeaseType, CompletedOnce
<1>2. LeaseInv /\ [Next]_leaseVars => LeaseInv'
  <2>. SUFFICES ASSUME LeaseInv, [Next]_leaseVars PROVE LeaseInv'
    OBVIOUS
  <2>. USE DEF LeaseInv, LeaseType, CompletedOnce
  <2>1. ASSUME NEW m \in Manuals, NEW c \in Claims, Acquire(m, c) PROVE LeaseInv'
    BY <2>1 DEF Acquire
  <2>2. ASSUME NEW m \in Manuals, Lapse(m) PROVE LeaseInv'
    BY <2>2 DEF Lapse
  <2>3. ASSUME NEW m \in Manuals, Complete(m) PROVE LeaseInv'
    BY <2>3 DEF Complete
  <2>4. ASSUME NEW m \in Manuals, Abandon(m) \/ Override(m) PROVE LeaseInv'
    <3>1. CASE Abandon(m)
      BY <3>1 DEF Abandon
    <3>2. CASE Override(m)
      <4>1. PICK s \in {"open", "closed"} : state' = [state EXCEPT ![m] = s]
        BY <3>2 DEF Override
      <4>. QED
        BY <3>2, <4>1 DEF Override
    <3>. QED
      BY <2>4, <3>1, <3>2
  <2>5. ASSUME NEW S \in SUBSET Manuals, Reclaim(S) PROVE LeaseInv'
    <3>1. LeaseType'
      BY <2>5 DEF Reclaim
    <3>2. \A m \in S : state[m] = "held"
      BY <2>5 DEF Reclaim
    <3>. QED
      BY <2>5, <3>1, <3>2 DEF Reclaim
  <2>6. CASE UNCHANGED leaseVars
    BY <2>6 DEF leaseVars
  <2>. QED
    BY <2>1, <2>2, <2>3, <2>4, <2>5, <2>6 DEF Next
<1>. QED
  BY <1>1, <1>2, PTL DEF Spec, LeaseInv
=============================================================================
