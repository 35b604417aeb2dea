---------------------------- MODULE ManualLease ----------------------------
(***************************************************************************)
(* What the server promises about manual runs, without its tables: a       *)
(* manual run is open, held by exactly one claim, or closed.  A claim is   *)
(* granted only on an open run or on one whose previous claim has lapsed,  *)
(* and only the holder of an unlapsed claim can complete the run.          *)
(*                                                                         *)
(* The dashboard's edits are not part of that protocol.  An edit made from *)
(* a list that no longer shows the row's status is an override, and every  *)
(* promise about a run is made only while it is not overridden.            *)
(***************************************************************************)

CONSTANTS
  Manuals,     \* manual runs
  Claims,      \* identities of claims, each granted at most once
  NoClaim      \* the holder of a run nobody holds

VARIABLES
  state,       \* "open", "held" or "closed"
  holder,      \* the claim that holds the run
  lapsed,      \* has the holder's claim outlived its time to live?
  granted,     \* every claim granted so far
  completed,   \* the claims that completed the run
  overridden   \* runs an out-of-date dashboard edit has overwritten

leaseVars == <<state, holder, lapsed, granted, completed, overridden>>

Init ==
  /\ state = [m \in Manuals |-> "open"]
  /\ holder = [m \in Manuals |-> NoClaim]
  /\ lapsed = [m \in Manuals |-> FALSE]
  /\ granted = {}
  /\ completed = [m \in Manuals |-> {}]
  /\ overridden = {}

\* An open run, or one whose claim has lapsed, is given to a fresh claim.
Acquire(m, c) ==
  /\ state[m] = "open" \/ lapsed[m]
  /\ c \notin granted
  /\ state' = [state EXCEPT ![m] = "held"]
  /\ holder' = [holder EXCEPT ![m] = c]
  /\ lapsed' = [lapsed EXCEPT ![m] = FALSE]
  /\ granted' = granted \cup {c}
  /\ UNCHANGED <<completed, overridden>>

\* The claim's time to live ends.
Lapse(m) ==
  /\ state[m] = "held"
  /\ lapsed' = [lapsed EXCEPT ![m] = TRUE]
  /\ UNCHANGED <<state, holder, granted, completed, overridden>>

\* Runs whose claims lapsed become open again.
Reclaim(S) ==
  /\ \A m \in S : lapsed[m]
  /\ state' = [m \in Manuals |-> IF m \in S THEN "open" ELSE state[m]]
  /\ holder' = [m \in Manuals |-> IF m \in S THEN NoClaim ELSE holder[m]]
  /\ lapsed' = [m \in Manuals |-> IF m \in S THEN FALSE ELSE lapsed[m]]
  /\ UNCHANGED <<granted, completed, overridden>>

\* The holder of an unlapsed claim reports its result.
Complete(m) ==
  /\ state[m] = "held"
  /\ ~lapsed[m]
  /\ state' = [state EXCEPT ![m] = "closed"]
  /\ holder' = [holder EXCEPT ![m] = NoClaim]
  /\ completed' = [completed EXCEPT ![m] = @ \cup {holder[m]}]
  /\ UNCHANGED <<lapsed, granted, overridden>>

\* An operator gives up on a run that is held.
Abandon(m) ==
  /\ state[m] = "held"
  /\ state' = [state EXCEPT ![m] = "closed"]
  /\ holder' = [holder EXCEPT ![m] = NoClaim]
  /\ lapsed' = [lapsed EXCEPT ![m] = FALSE]
  /\ UNCHANGED <<granted, completed, overridden>>

\* An operator overwrites a run without having seen its present state.
Override(m) ==
  /\ overridden' = overridden \cup {m}
  /\ \E s \in {"open", "closed"} : state' = [state EXCEPT ![m] = s]
  /\ holder' = [holder EXCEPT ![m] = NoClaim]
  /\ lapsed' = [lapsed EXCEPT ![m] = FALSE]
  /\ UNCHANGED <<granted, completed>>

Next ==
  \/ \E m \in Manuals :
       \/ \E c \in Claims : Acquire(m, c)
       \/ Lapse(m)
       \/ Complete(m)
       \/ Abandon(m)
       \/ Override(m)
  \/ \E S \in SUBSET Manuals : Reclaim(S)

Spec == Init /\ [][Next]_leaseVars

(***************************************************************************)
(* A run nobody overrode is completed by at most one claim, and once it    *)
(* has been completed it is closed for good.                               *)
(***************************************************************************)
CompletedOnce ==
  \A m \in Manuals \ overridden :
    /\ \A c, d \in completed[m] : c = d
    /\ completed[m] # {} => state[m] = "closed"
=============================================================================
