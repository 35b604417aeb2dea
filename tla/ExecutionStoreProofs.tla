------------------------ MODULE ExecutionStoreProofs ------------------------
(***************************************************************************)
(* What holds of the execution store for any number of manual runs,        *)
(* details, devices and executions.                                        *)
(***************************************************************************)
EXTENDS ExecutionStore, TLAPS

(***************************************************************************)
(* Every transaction, dashboard statement and agent step keeps the types   *)
(* of the tables: in particular manual_execution.status stays within the   *)
(* column's enumeration.                                                   *)
(***************************************************************************)
THEOREM StoreTypeCorrect == Spec => []TypeOK
<1>. USE StoreAssumption DEF TypeOK, Statuses, Finished, Phases, Runs, NoRun
<1>1. Init => TypeOK
  <2>1. (CHOOSE dev \in Devices : TRUE) \in Devices
    OBVIOUS
  <2>2. ASSUME Init PROVE groupStatus \in ScheduleStatuses
                          /\ detailStatus \in [Details -> ScheduleStatuses]
    BY <2>2 DEF Init, ScheduleStatuses
  <2>3. ASSUME Init PROVE TypeOK
    <3>1. /\ status \in [Manuals -> Statuses]
          /\ claimToken \in [Manuals -> Executions \cup {None}]
          /\ expiry \in [Manuals -> {"null", "future", "past"}]
          /\ running \in [Details -> Executions \cup {None}]
      BY <2>3 DEF Init
    <3>2. /\ log \in [Executions -> Finished \cup {"none"}] /\ target \in Devices
          /\ phase \in [Executions -> Phases] /\ run \in [Executions -> Runs]
      BY <2>1, <2>3 DEF Init
    <3>3. /\ offered \in [Manuals -> {"edit", "abandon", "nothing"}]
          /\ groupErred \in BOOLEAN /\ detailErred \in [Details -> BOOLEAN]
      BY <2>3 DEF Init
    <3>. QED
      BY <2>2, <2>3, <3>1, <3>2, <3>3 DEF Init
  <2>. QED
    BY <2>3
<1>2. TypeOK /\ [Next]_vars => TypeOK'
  <2>. SUFFICES ASSUME TypeOK, [Next]_vars PROVE TypeOK'
    OBVIOUS
  <2>. USE DEF dbVars, agentVars, errVars
  <2>1. ASSUME NEW dev \in Devices, NEW m \in Manuals, NEW e \in Executions,
               ClaimManualRun(dev, m, e)
        PROVE  TypeOK'
    BY <2>1 DEF ClaimManualRun
  <2>2. ASSUME NEW m \in Manuals, LeaseExpires(m) PROVE TypeOK'
    BY <2>2 DEF LeaseExpires
  <2>3. ASSUME NEW S \in SUBSET Manuals, SweepExpiredClaims(S) PROVE TypeOK'
    BY <2>3 DEF SweepExpiredClaims, ReleaseExpired
  <2>4. ASSUME NEW e \in Executions, BeginManual(e) PROVE TypeOK'
    BY <2>4 DEF BeginManual, SendStart
  <2>5. ASSUME NEW dev \in Devices, NEW d \in Details, NEW e \in Executions,
               BeginScheduled(dev, d, e)
        PROVE  TypeOK'
    BY <2>5 DEF BeginScheduled, SendStart
  <2>6. ASSUME NEW e \in Executions, FinishTask(e) PROVE TypeOK'
    BY <2>6 DEF FinishTask
  <2>7. ASSUME NEW e \in Executions, StartExecution(e) PROVE TypeOK'
    BY <2>7 DEF StartExecution
  <2>8. ASSUME NEW e \in Executions, AcceptDuplicate(e) PROVE TypeOK'
    BY <2>8 DEF AcceptDuplicate, ClearRunning
  <2>9. ASSUME NEW e \in Executions, AcceptFirst(e) PROVE TypeOK'
    <3>1. CASE run[e].manual # None /\ ClaimValid(e) /\ CompleteManual(e)
      BY <2>9, <3>1 DEF AcceptFirst, ClearRunning, CompleteManual
    <3>2. CASE run[e].manual = None /\ ApplyErrorStop(e)
      <4>1. /\ groupStatus' \in ScheduleStatuses
            /\ detailStatus' \in [Details -> ScheduleStatuses]
            /\ groupErred' \in BOOLEAN /\ detailErred' \in [Details -> BOOLEAN]
        BY <3>2 DEF ApplyErrorStop, ScheduleStatuses
      <4>. QED
        BY <2>9, <3>2, <4>1 DEF AcceptFirst, ClearRunning, ApplyErrorStop
    <3>. QED
      BY <2>9, <3>1, <3>2 DEF AcceptFirst
  <2>10. ASSUME NEW e \in Executions, RefuseExpired(e) PROVE TypeOK'
    BY <2>10 DEF RefuseExpired
  <2>11. CASE RefreshList
    BY <2>11 DEF RefreshList, Button
  <2>12. ASSUME NEW m \in Manuals, NEW s \in {"active", "wait", "inactive"},
                UpdateManualExecution(m, s)
         PROVE  TypeOK'
    BY <2>12 DEF UpdateManualExecution
  <2>13. ASSUME NEW m \in Manuals, AbandonManualExecution(m) PROVE TypeOK'
    BY <2>13 DEF AbandonManualExecution
  <2>14. ASSUME NEW dev \in Devices, NEW s \in ScheduleStatuses, UpdateSchedule(dev, s)
         PROVE  TypeOK'
    BY <2>14 DEF UpdateSchedule
  <2>15. ASSUME NEW d \in Details,
                (\E s \in ScheduleStatuses : UpdateTask(d, s)) \/ RemoveTask(d)
         PROVE  TypeOK'
    BY <2>15 DEF UpdateTask, RemoveTask
  <2>16. CASE UNCHANGED vars
    BY <2>16 DEF vars
  <2>. QED
    BY <2>1, <2>2, <2>3, <2>4, <2>5, <2>6, <2>7, <2>8, <2>9, <2>10, <2>11, <2>12,
       <2>13, <2>14, <2>15, <2>16
       DEF Next, ClaimAction, SweepAction, AgentAction, DashboardAction
<1>. QED
  BY <1>1, <1>2, PTL DEF Spec

-----------------------------------------------------------------------------
(***************************************************************************)
(* StoreInv is inductive relative to TypeOK.  Only four kinds of step can  *)
(* disturb it: a claim, a sweep, the first storage of a result and a       *)
(* dashboard edit; each has a lemma.                                       *)
(***************************************************************************)
LEMMA ClaimKeepsInv ==
  ASSUME TypeOK, StoreInv, NEW dev \in Devices, NEW m \in Manuals, NEW e \in Executions,
         ClaimManualRun(dev, m, e)
  PROVE  StoreInv'
<1>. USE StoreAssumption DEF TypeOK, Statuses, Finished, Phases, Runs, NoRun
<1>. USE DEF StoreInv, ClaimManualRun, Fresh
<1>1. UnusedIsBlank'
  BY DEF UnusedIsBlank
<1>2. LogIsOutcome'
  BY DEF LogIsOutcome, UnusedIsBlank
<1>3. TokenIsPending'
  BY DEF TokenIsPending, UnusedIsBlank
<1>4. ProcessingIsClaimed'
  BY DEF ProcessingIsClaimed
<1>5. RefusedForGood'
  BY DEF RefusedForGood, ClaimValid, UnusedIsBlank
<1>6. CompletionMatchesLog'
  BY DEF CompletionMatchesLog, LoggedFor, UnusedIsBlank, Expired
<1>. QED
  BY <1>1, <1>2, <1>3, <1>4, <1>5, <1>6

LEMMA SweepKeepsInv ==
  ASSUME TypeOK, StoreInv, NEW S \in SUBSET Manuals, SweepExpiredClaims(S)
  PROVE  StoreInv'
<1>. USE StoreAssumption DEF TypeOK, Statuses, Finished, Phases, Runs, NoRun
<1>. USE DEF StoreInv, SweepExpiredClaims, ReleaseExpired, agentVars
<1>1. UnusedIsBlank' /\ LogIsOutcome'
  BY DEF UnusedIsBlank, LogIsOutcome
<1>2. TokenIsPending' /\ ProcessingIsClaimed'
  BY DEF TokenIsPending, ProcessingIsClaimed
<1>3. RefusedForGood'
  BY DEF RefusedForGood, ClaimValid
<1>4. CompletionMatchesLog'
  BY DEF CompletionMatchesLog, LoggedFor, Expired
<1>. QED
  BY <1>1, <1>2, <1>3, <1>4

LEMMA FirstResultKeepsInv ==
  ASSUME TypeOK, StoreInv, NEW e \in Executions, AcceptFirst(e)
  PROVE  StoreInv'
<1>. USE StoreAssumption DEF TypeOK, Statuses, Finished, Phases, Runs, NoRun
<1>. USE DEF StoreInv, AcceptFirst, agentVars
<1>1. CASE run[e].manual # None /\ ClaimValid(e) /\ CompleteManual(e)
  <2>. USE <1>1 DEF CompleteManual, ClaimValid
  <2>. DEFINE m == run[e].manual
  <2>1. m \in Manuals
    OBVIOUS
  <2>2. UnusedIsBlank' /\ LogIsOutcome'
    BY DEF UnusedIsBlank, LogIsOutcome
  <2>3. TokenIsPending' /\ ProcessingIsClaimed'
    BY DEF TokenIsPending, ProcessingIsClaimed
  <2>4. RefusedForGood'
    BY DEF RefusedForGood
  <2>5. m \notin staleEdits => LoggedFor(m) = {}
    BY <2>1 DEF CompletionMatchesLog, LoggedFor
  <2>6. /\ LoggedFor(m)' = LoggedFor(m) \cup {e}
        /\ \A n \in Manuals \ {m} : LoggedFor(n)' = LoggedFor(n) /\ status'[n] = status[n]
    BY <2>1 DEF LoggedFor
  <2>7. /\ \A f \in Executions \ {e} : log'[f] = log[f]
        /\ log'[e] = phase[e] /\ phase[e] \in Finished
        /\ status'[m] = IF phase[e] = "ok" THEN "done" ELSE "failed"
    BY <2>1
  <2>8. CompletionMatchesLog'
    <3>. SUFFICES ASSUME NEW n \in Manuals, n \notin staleEdits
                  PROVE  /\ \A c, f \in LoggedFor(n)' : c = f
                         /\ status'[n] = "done" <=> \E c \in LoggedFor(n)' : log'[c] = "ok"
                         /\ (\E c \in LoggedFor(n)' : log'[c] = "error") => status'[n] = "failed"
      BY DEF CompletionMatchesLog
    <3>1. CASE n = m
      BY <2>5, <2>6, <2>7, <3>1
    <3>2. CASE n # m
      <4>1. e \notin LoggedFor(n)
        BY <3>2 DEF LoggedFor
      <4>. QED
        BY <2>6, <2>7, <3>2, <4>1 DEF CompletionMatchesLog, LoggedFor
    <3>. QED
      BY <3>1, <3>2
  <2>. QED
    BY <2>2, <2>3, <2>4, <2>8
<1>2. CASE run[e].manual = None /\ ApplyErrorStop(e)
  <2>. USE <1>2 DEF ApplyErrorStop
  <2>1. UnusedIsBlank' /\ LogIsOutcome'
    BY DEF UnusedIsBlank, LogIsOutcome
  <2>2. TokenIsPending' /\ ProcessingIsClaimed'
    BY DEF TokenIsPending, ProcessingIsClaimed
  <2>3. RefusedForGood'
    BY DEF RefusedForGood, ClaimValid
  <2>4. CompletionMatchesLog'
    BY DEF CompletionMatchesLog, LoggedFor
  <2>. QED
    BY <2>1, <2>2, <2>3, <2>4
<1>. QED
  BY <1>1, <1>2

LEMMA RefusalKeepsInv ==
  ASSUME TypeOK, StoreInv, NEW e \in Executions, RefuseExpired(e)
  PROVE  StoreInv'
<1>. USE StoreAssumption DEF TypeOK, Statuses, Finished, Phases, Runs, NoRun
<1>. USE DEF StoreInv, RefuseExpired, dbVars, agentVars
<1>1. UnusedIsBlank' /\ LogIsOutcome' /\ TokenIsPending' /\ ProcessingIsClaimed'
  BY DEF UnusedIsBlank, LogIsOutcome, TokenIsPending, ProcessingIsClaimed
<1>2. RefusedForGood'
  BY DEF RefusedForGood, ClaimValid
<1>3. CompletionMatchesLog'
  BY DEF CompletionMatchesLog, LoggedFor
<1>. QED
  BY <1>1, <1>2, <1>3

LEMMA EditKeepsInv ==
  ASSUME TypeOK, StoreInv, NEW m \in Manuals,
         \/ \E s \in {"active", "wait", "inactive"} : UpdateManualExecution(m, s)
         \/ AbandonManualExecution(m)
  PROVE  StoreInv'
<1>. USE StoreAssumption DEF TypeOK, Statuses, Finished, Phases, Runs, NoRun
<1>. USE DEF StoreInv, UpdateManualExecution, AbandonManualExecution, agentVars
<1>1. UnusedIsBlank' /\ LogIsOutcome'
  BY DEF UnusedIsBlank, LogIsOutcome
<1>2. TokenIsPending' /\ ProcessingIsClaimed'
  BY DEF TokenIsPending, ProcessingIsClaimed
<1>3. RefusedForGood'
  BY DEF RefusedForGood, ClaimValid
<1>4. CompletionMatchesLog'
  BY DEF CompletionMatchesLog, LoggedFor
<1>. QED
  BY <1>1, <1>2, <1>3, <1>4

\* The agents' own steps touch keys and phases only.
LEMMA AgentStepKeepsInv ==
  ASSUME TypeOK, StoreInv, NEW e \in Executions,
         \/ BeginManual(e)
         \/ \E dev \in Devices, d \in Details : BeginScheduled(dev, d, e)
         \/ FinishTask(e)
  PROVE  StoreInv'
<1>. USE StoreAssumption DEF TypeOK, Statuses, Finished, Phases, Runs, NoRun
<1>. USE DEF StoreInv, dbVars, BeginManual, BeginScheduled, FinishTask, SendStart, Fresh
<1>1. log[e] = "none" /\ e \notin refused
  BY DEF UnusedIsBlank, LogIsOutcome, RefusedForGood
<1>2. UnusedIsBlank' /\ LogIsOutcome'
  BY <1>1 DEF UnusedIsBlank, LogIsOutcome
<1>3. TokenIsPending'
  BY DEF TokenIsPending
<1>4. ProcessingIsClaimed'
  BY DEF ProcessingIsClaimed
<1>5. RefusedForGood'
  BY <1>1 DEF RefusedForGood, ClaimValid
<1>6. \A m \in Manuals : LoggedFor(m)' = LoggedFor(m)
  BY <1>1 DEF LoggedFor
<1>7. CompletionMatchesLog'
  BY <1>6 DEF CompletionMatchesLog
<1>. QED
  BY <1>2, <1>3, <1>4, <1>5, <1>7

\* Steps that leave everything the invariant reads alone, or only age a claim.
LEMMA OtherStepKeepsInv ==
  ASSUME TypeOK, StoreInv,
         UNCHANGED <<status, claimToken, log, phase, run, staleEdits, refused>>,
         \/ UNCHANGED expiry
         \/ \E m \in Manuals : expiry' = [expiry EXCEPT ![m] = "past"]
  PROVE  StoreInv'
<1>. USE DEF TypeOK, StoreInv
<1>1. UnusedIsBlank' /\ LogIsOutcome'
  BY DEF UnusedIsBlank, LogIsOutcome
<1>2. TokenIsPending' /\ ProcessingIsClaimed'
  BY DEF TokenIsPending, ProcessingIsClaimed
<1>3. RefusedForGood'
  BY DEF RefusedForGood, ClaimValid, Runs, NoRun
<1>4. CompletionMatchesLog'
  BY DEF CompletionMatchesLog, LoggedFor
<1>. QED
  BY <1>1, <1>2, <1>3, <1>4

THEOREM StoreInvariant == Spec => []StoreInv
<1>1. Init => StoreInv
  BY StoreAssumption DEF Init, StoreInv, UnusedIsBlank, LogIsOutcome, TokenIsPending,
     ProcessingIsClaimed, RefusedForGood, CompletionMatchesLog, LoggedFor, NoRun
<1>2. TypeOK /\ StoreInv /\ [Next]_vars => StoreInv'
  <2>. SUFFICES ASSUME TypeOK, StoreInv, [Next]_vars PROVE StoreInv'
    OBVIOUS
  <2>1. CASE ClaimAction
    BY <2>1, ClaimKeepsInv DEF ClaimAction
  <2>2. ASSUME NEW m \in Manuals, LeaseExpires(m) PROVE StoreInv'
    BY <2>2, OtherStepKeepsInv DEF LeaseExpires, agentVars
  <2>3. CASE SweepAction
    BY <2>3, SweepKeepsInv DEF SweepAction
  <2>4. ASSUME NEW e \in Executions, StartExecution(e) \/ AcceptDuplicate(e) PROVE StoreInv'
    BY <2>4, OtherStepKeepsInv DEF StartExecution, AcceptDuplicate, agentVars
  <2>5. CASE AgentAction
    BY <2>4, <2>5, AgentStepKeepsInv, FirstResultKeepsInv, RefusalKeepsInv DEF AgentAction
  <2>6. CASE DashboardAction
    <3>1. CASE RefreshList
      BY <3>1, OtherStepKeepsInv DEF RefreshList, dbVars, agentVars
    <3>2. ASSUME NEW m \in Manuals,
                 \/ \E s \in {"active", "wait", "inactive"} : UpdateManualExecution(m, s)
                 \/ AbandonManualExecution(m)
          PROVE  StoreInv'
      BY <3>2, EditKeepsInv
    <3>3. ASSUME NEW dev \in Devices, NEW s \in ScheduleStatuses, UpdateSchedule(dev, s)
          PROVE  StoreInv'
      BY <3>3, OtherStepKeepsInv DEF UpdateSchedule, agentVars
    <3>4. ASSUME NEW d \in Details,
                 (\E s \in ScheduleStatuses : UpdateTask(d, s)) \/ RemoveTask(d)
          PROVE  StoreInv'
      BY <3>4, OtherStepKeepsInv DEF UpdateTask, RemoveTask, agentVars
    <3>. QED
      BY <2>6, <3>1, <3>2, <3>3, <3>4 DEF DashboardAction
  <2>7. CASE UNCHANGED vars
    BY <2>7, OtherStepKeepsInv DEF vars, dbVars, agentVars
  <2>. QED
    BY <2>1, <2>2, <2>3, <2>5, <2>6, <2>7 DEF Next
<1>. QED
  BY <1>1, <1>2, StoreTypeCorrect, PTL DEF Spec

(***************************************************************************)
(* For any number of claims, retries, expiries and sweeps, a manual run    *)
(* that no out-of-date dashboard edit overwrote has at most one result and *)
(* the status of that result.                                              *)
(***************************************************************************)
THEOREM StoreCompletionMatchesLog == Spec => []CompletionMatchesLog
BY StoreInvariant, PTL DEF StoreInv

(***************************************************************************)
(* A result is never both stored and answered claim_expired, so an agent   *)
(* that drops a result on that answer drops none the server has kept.      *)
(***************************************************************************)
THEOREM StoreRefusedIsNeverLogged == Spec => []RefusedIsNeverLogged
<1>1. StoreInv => RefusedIsNeverLogged
  BY DEF StoreInv, RefusedForGood, RefusedIsNeverLogged
<1>. QED
  BY <1>1, StoreInvariant, PTL

(***************************************************************************)
(* Whatever is retried, delayed or reactivated, the agents' requests put a *)
(* group or detail in error only by the transaction that first stores a    *)
(* failed scheduled result; otherwise an operator saved a form that was    *)
(* opened after such a transaction.                                        *)
(***************************************************************************)
THEOREM StoreErrorStopOnlyOnce == Spec => ErrorStopOnlyOnce
<1>. DEFINE OnlyOnce ==
       /\ groupStatus # "error" /\ groupStatus' = "error"
          => StoresFailure \/ SavesOldError(groupErred)
       /\ \A d \in Details :
            detailStatus[d] # "error" /\ detailStatus'[d] = "error"
            => StoresFailure \/ SavesOldError(detailErred[d])
       /\ errVars' # errVars => StoresFailure
<1>1. ASSUME TypeOK, [Next]_vars PROVE OnlyOnce
  <2>. USE <1>1 DEF TypeOK
  <2>1. CASE UNCHANGED <<groupStatus, detailStatus, errVars>>
    BY <2>1
  <2>2. ASSUME NEW e \in Executions, AcceptFirst(e) PROVE OnlyOnce
    <3>1. CASE UNCHANGED <<groupStatus, detailStatus, errVars>>
      BY <3>1
    <3>2. CASE ~UNCHANGED <<groupStatus, detailStatus, errVars>>
      <4>1. run[e].manual = None /\ phase[e] = "error"
        BY <2>2, <3>2 DEF AcceptFirst, CompleteManual, ApplyErrorStop
      <4>2. StoresFailure
        BY <2>2, <4>1 DEF AcceptFirst, StoresFailure
      <4>. QED
        BY <4>2
    <3>. QED
      BY <3>1, <3>2
  <2>3. ASSUME NEW dev \in Devices, NEW s \in ScheduleStatuses, UpdateSchedule(dev, s)
        PROVE  OnlyOnce
    <3>1. s = "error" => groupErred
      BY <2>3, StoreAssumption DEF UpdateSchedule, FormStatuses
    <3>. QED
      BY <2>3, <3>1 DEF UpdateSchedule, SavesOldError, agentVars
  <2>4. ASSUME NEW d \in Details, NEW s \in ScheduleStatuses, UpdateTask(d, s)
        PROVE  OnlyOnce
    <3>1. s = "error" => detailErred[d]
      BY <2>4, StoreAssumption DEF UpdateTask, FormStatuses
    <3>2. \A c \in Details \ {d} : detailStatus'[c] = detailStatus[c]
      BY <2>4 DEF UpdateTask
    <3>3. detailStatus'[d] = s /\ UNCHANGED <<groupStatus, errVars>>
      BY <2>4 DEF UpdateTask
    <3>4. detailErred[d] => SavesOldError(detailErred[d])
      BY <2>4 DEF UpdateTask, SavesOldError, agentVars
    <3>. QED
      BY <3>1, <3>2, <3>3, <3>4
  <2>5. CASE ClaimAction \/ SweepAction \/ UNCHANGED vars \/ \E m \in Manuals : LeaseExpires(m)
    BY <2>1, <2>5 DEF ClaimAction, ClaimManualRun, SweepAction, SweepExpiredClaims, LeaseExpires,
       vars, dbVars
  <2>6. CASE AgentAction
    BY <2>1, <2>2, <2>6 DEF AgentAction, BeginManual, BeginScheduled, FinishTask,
       StartExecution, AcceptDuplicate, RefuseExpired, dbVars
  <2>7. CASE DashboardAction
    <3>1. ASSUME RefreshList \/ (\E d \in Details : RemoveTask(d))
                 \/ \E m \in Manuals : \/ AbandonManualExecution(m)
                                        \/ \E s \in {"active", "wait", "inactive"} :
                                             UpdateManualExecution(m, s)
          PROVE  OnlyOnce
      BY <2>1, <3>1 DEF RefreshList, UpdateManualExecution, AbandonManualExecution,
         RemoveTask, dbVars
    <3>. QED
      BY <2>3, <2>4, <2>7, <3>1 DEF DashboardAction
  <2>. QED
    BY <1>1, <2>2, <2>5, <2>6, <2>7 DEF Next
<1>2. TypeOK /\ [Next]_vars => [OnlyOnce]_vars
  BY <1>1
<1>. QED
  BY <1>2, StoreTypeCorrect, PTL DEF Spec, ErrorStopOnlyOnce

-----------------------------------------------------------------------------
(***************************************************************************)
(* The refinement: a claim is an Acquire, the end of a claim's time a      *)
(* Lapse, a sweep a Reclaim, the first result of a manual run a Complete,  *)
(* a dashboard edit an Abandon, an Override or nothing, and every other    *)
(* step leaves the leases alone.                                           *)
(***************************************************************************)
Holder == [m \in Manuals |-> IF Processing(m) THEN claimToken[m] ELSE None]
Lapsed == [m \in Manuals |-> Expired(m)]
Granted == {e \in Executions : run[e].manual # None}
Completed == [m \in Manuals |-> LoggedFor(m)]

LEMMA ClaimIsAcquire ==
  ASSUME TypeOK, StoreInv, NEW dev \in Devices, NEW m \in Manuals, NEW e \in Executions,
         ClaimManualRun(dev, m, e)
  PROVE  Lease!Acquire(m, e)
<1>. USE StoreAssumption DEF TypeOK, Statuses, Finished, Phases, Runs, NoRun
<1>. USE DEF StoreInv, ClaimManualRun, Fresh, Processing, Expired
<1>1. /\ LeaseState[m] = "open" \/ Expired(m)
      /\ LeaseState' = [LeaseState EXCEPT ![m] = "held"]
  BY DEF LeaseState
<1>2. e \notin Granted /\ Granted' = Granted \cup {e}
  BY DEF UnusedIsBlank, Granted
<1>3. \A n \in Manuals : LoggedFor(n)' = LoggedFor(n)
  BY DEF LoggedFor, UnusedIsBlank
<1>4. Completed' = Completed
  BY <1>3 DEF Completed
<1>5. Holder' = [Holder EXCEPT ![m] = e] /\ Lapsed' = [Lapsed EXCEPT ![m] = FALSE]
  BY DEF Holder, Lapsed
<1>6. UNCHANGED staleEdits /\ (LeaseState[m] = "open" \/ Lapsed[m])
  BY <1>1 DEF Lapsed
<1>. QED
  BY <1>1, <1>2, <1>4, <1>5, <1>6 DEF Lease!Acquire, Holder, Lapsed, Granted, Completed

LEMMA SweepIsReclaim ==
  ASSUME TypeOK, StoreInv, NEW S \in SUBSET Manuals, SweepExpiredClaims(S)
  PROVE  Lease!Reclaim(S)
<1>. USE DEF TypeOK, Statuses, SweepExpiredClaims, ReleaseExpired, agentVars, Processing, Expired
<1>1. LeaseState' = [m \in Manuals |-> IF m \in S THEN "open" ELSE LeaseState[m]]
  BY DEF LeaseState
<1>2. \A m \in Manuals : LoggedFor(m)' = LoggedFor(m)
  BY DEF LoggedFor
<1>. QED
  BY <1>1, <1>2 DEF Lease!Reclaim

LEMMA ExpiryIsLapse ==
  ASSUME TypeOK, NEW m \in Manuals, LeaseExpires(m)
  PROVE  Lease!Lapse(m) \/ UNCHANGED Lease!leaseVars
<1>. USE DEF TypeOK, Statuses, LeaseExpires, agentVars, Processing, Expired, LeaseState
<1>1. \A n \in Manuals : LoggedFor(n)' = LoggedFor(n)
  BY DEF LoggedFor
<1>2. CASE status[m] = "processing"
  BY <1>1, <1>2 DEF Lease!Lapse
<1>3. CASE status[m] # "processing"
  BY <1>1, <1>3 DEF Lease!leaseVars
<1>. QED
  BY <1>2, <1>3

LEMMA FirstResultIsComplete ==
  ASSUME TypeOK, StoreInv, NEW e \in Executions, AcceptFirst(e)
  PROVE  (\E m \in Manuals : Lease!Complete(m)) \/ UNCHANGED Lease!leaseVars
<1>. USE StoreAssumption DEF TypeOK, Statuses, Finished, Phases, Runs, NoRun
<1>. USE DEF AcceptFirst, agentVars, Processing, Expired
<1>1. CASE run[e].manual # None /\ ClaimValid(e) /\ CompleteManual(e)
  <2>. USE <1>1 DEF CompleteManual, ClaimValid
  <2>1. PICK m \in Manuals : m = run[e].manual
    OBVIOUS
  <2>2. LeaseState[m] = "held" /\ LeaseState' = [LeaseState EXCEPT ![m] = "closed"]
    BY <2>1 DEF LeaseState
  <2>3. /\ \A n \in Manuals \ {m} : LoggedFor(n)' = LoggedFor(n)
        /\ LoggedFor(m)' = LoggedFor(m) \cup {e}
    BY <2>1 DEF LoggedFor
  <2>4. Holder[m] = e /\ ~Lapsed[m]
    BY <2>1 DEF Holder, Lapsed
  <2>5. Holder' = [Holder EXCEPT ![m] = None] /\ Lapsed' = Lapsed
    BY <2>1 DEF Holder, Lapsed
  <2>6. Completed' = [Completed EXCEPT ![m] = @ \cup {Holder[m]}]
    BY <2>1, <2>3, <2>4 DEF Completed
  <2>7. UNCHANGED <<Granted, staleEdits>>
    BY DEF Granted
  <2>8. Lease!Complete(m)
    BY <2>2, <2>4, <2>5, <2>6, <2>7 DEF Lease!Complete, Holder, Lapsed, Granted, Completed
  <2>. QED
    BY <2>1, <2>8
<1>2. CASE run[e].manual = None /\ ApplyErrorStop(e)
  <2>. USE <1>2 DEF ApplyErrorStop
  <2>1. \A n \in Manuals : LoggedFor(n)' = LoggedFor(n)
    <3>. SUFFICES ASSUME NEW n \in Manuals PROVE LoggedFor(n)' = LoggedFor(n)
      OBVIOUS
    <3>1. run[e].manual # n
      OBVIOUS
    <3>2. \A f \in Executions \ {e} : log'[f] = log[f]
      OBVIOUS
    <3>. QED
      BY <3>1, <3>2 DEF LoggedFor
  <2>. QED
    BY <2>1 DEF Lease!leaseVars, LeaseState
<1>. QED
  BY <1>1, <1>2

\* An edit from a list that still shows the row's kind of status is no override.
LEMMA EditIsAbandonOrOverride ==
  ASSUME TypeOK, StoreInv, NEW m \in Manuals,
         \/ \E s \in {"active", "wait", "inactive"} : UpdateManualExecution(m, s)
         \/ AbandonManualExecution(m)
  PROVE  Lease!Abandon(m) \/ Lease!Override(m) \/ UNCHANGED Lease!leaseVars
<1>. USE DEF TypeOK, Statuses, UpdateManualExecution, AbandonManualExecution, agentVars,
     Processing, Expired, LeaseState
<1>1. \A n \in Manuals : LoggedFor(n)' = LoggedFor(n)
  BY DEF LoggedFor
<1>2. UNCHANGED <<Granted, Completed>>
  BY <1>1 DEF Granted, Completed
<1>3. Holder' = [Holder EXCEPT ![m] = None] /\ Lapsed' = [Lapsed EXCEPT ![m] = FALSE]
  <2>1. ~Processing(m)'
    OBVIOUS
  <2>2. \A n \in Manuals \ {m} : Processing(n)' = Processing(n) /\ Expired(n)' = Expired(n)
    OBVIOUS
  <2>3. UNCHANGED <<claimToken, expiry>>
    OBVIOUS
  <2>4. Holder' = [Holder EXCEPT ![m] = None]
    BY <2>1, <2>2, <2>3 DEF Holder
  <2>5. Lapsed' = [Lapsed EXCEPT ![m] = FALSE]
    BY <2>1, <2>2 DEF Lapsed
  <2>. QED
    BY <2>4, <2>5
<1>4. CASE m \in staleEdits'
  <2>1. staleEdits' = staleEdits \cup {m}
    BY <1>4
  <2>2. \E s \in {"open", "closed"} : LeaseState' = [LeaseState EXCEPT ![m] = s]
    <3>1. CASE AbandonManualExecution(m)
      <4>1. LeaseState' = [LeaseState EXCEPT ![m] = "closed"]
        BY <3>1
      <4>. QED
        BY <4>1
    <3>2. CASE \E s \in {"active", "wait", "inactive"} : UpdateManualExecution(m, s)
      <4>1. LeaseState' = [LeaseState EXCEPT ![m] = "open"]
        BY <3>2
      <4>. QED
        BY <4>1
    <3>. QED
      BY <3>1, <3>2
  <2>. QED
    BY <1>2, <1>3, <2>1, <2>2 DEF Lease!Override, Holder, Lapsed, Granted, Completed
<1>5. CASE m \notin staleEdits' /\ AbandonManualExecution(m)
  BY <1>2, <1>3, <1>5 DEF Lease!Abandon, Holder, Lapsed, Granted, Completed
<1>6. CASE m \notin staleEdits'
           /\ \E s \in {"active", "wait", "inactive"} : UpdateManualExecution(m, s)
  BY <1>1, <1>6 DEF Lease!leaseVars
<1>. QED
  BY <1>4, <1>5, <1>6

LEMMA OtherStepIsStutter ==
  ASSUME TypeOK, StoreInv,
         UNCHANGED <<status, claimToken, expiry, log, staleEdits>>,
         \/ UNCHANGED run
         \/ \E e \in Executions, d \in Details, dev \in Devices :
              /\ phase[e] = "unused"
              /\ run' = [run EXCEPT ![e] = [manual |-> None, detail |-> d, device |-> dev]]
  PROVE  UNCHANGED Lease!leaseVars
<1>1. \A e \in Executions : (run[e].manual)' = run[e].manual
  BY DEF TypeOK, StoreInv, UnusedIsBlank, NoRun
<1>2. \A m \in Manuals : LoggedFor(m)' = LoggedFor(m)
  BY <1>1 DEF LoggedFor
<1>. QED
  BY <1>1, <1>2 DEF Lease!leaseVars, LeaseState, Processing, Expired

(***************************************************************************)
(* The execution tables implement the lease protocol: a manual run is open,*)
(* held by one claim, or closed, and only the holder of an unlapsed claim  *)
(* completes it.                                                           *)
(***************************************************************************)
THEOREM StoreImplementsLease == Spec => ImplementsLease
<1>1. Init => Lease!Init
  <2>. SUFFICES ASSUME Init PROVE Lease!Init
    OBVIOUS
  <2>1. \A e \in Executions : run[e].manual = None /\ log[e] = "none"
    BY DEF Init, NoRun
  <2>2. \A m \in Manuals : status[m] \in {"wait", "active"} /\ LoggedFor(m) = {}
    BY <2>1 DEF Init, LoggedFor
  <2>3. Completed = [m \in Manuals |-> {}] /\ Granted = {}
    BY <2>1, <2>2 DEF Completed, Granted
  <2>4. LeaseState = [m \in Manuals |-> "open"]
    BY <2>2 DEF LeaseState, Processing
  <2>5. Holder = [m \in Manuals |-> None] /\ Lapsed = [m \in Manuals |-> FALSE]
    BY <2>2 DEF Holder, Lapsed, Processing, Expired
  <2>. QED
    BY <2>3, <2>4, <2>5 DEF Init, Lease!Init, Holder, Lapsed, Granted, Completed
<1>2. TypeOK /\ StoreInv /\ [Next]_vars => [Lease!Next]_(Lease!leaseVars)
  <2>. SUFFICES ASSUME TypeOK, StoreInv, [Next]_vars
                PROVE  Lease!Next \/ UNCHANGED Lease!leaseVars
    OBVIOUS
  <2>1. CASE ClaimAction
    BY <2>1, ClaimIsAcquire DEF ClaimAction, Lease!Next
  <2>2. ASSUME NEW m \in Manuals, LeaseExpires(m)
        PROVE  Lease!Next \/ UNCHANGED Lease!leaseVars
    BY <2>2, ExpiryIsLapse DEF Lease!Next
  <2>3. CASE SweepAction
    BY <2>3, SweepIsReclaim DEF SweepAction, Lease!Next
  <2>4. CASE AgentAction
    <3>1. ASSUME NEW e \in Executions, AcceptFirst(e)
          PROVE  Lease!Next \/ UNCHANGED Lease!leaseVars
      BY <3>1, FirstResultIsComplete DEF Lease!Next
    <3>2. ASSUME NEW e \in Executions, NEW dev \in Devices, NEW d \in Details,
                 BeginScheduled(dev, d, e)
          PROVE  UNCHANGED Lease!leaseVars
      BY <3>2, OtherStepIsStutter DEF BeginScheduled, Fresh, dbVars
    <3>3. ASSUME NEW e \in Executions,
                 \/ BeginManual(e) \/ FinishTask(e) \/ StartExecution(e)
                 \/ AcceptDuplicate(e) \/ RefuseExpired(e)
          PROVE  UNCHANGED Lease!leaseVars
      BY <3>3, OtherStepIsStutter DEF BeginManual, FinishTask, StartExecution, AcceptDuplicate,
         RefuseExpired, dbVars, agentVars
    <3>. QED
      BY <2>4, <3>1, <3>2, <3>3 DEF AgentAction
  <2>5. CASE DashboardAction
    <3>1. ASSUME NEW m \in Manuals,
                 \/ \E s \in {"active", "wait", "inactive"} : UpdateManualExecution(m, s)
                 \/ AbandonManualExecution(m)
          PROVE  Lease!Next \/ UNCHANGED Lease!leaseVars
      BY <3>1, EditIsAbandonOrOverride DEF Lease!Next
    <3>2. ASSUME \/ RefreshList
                 \/ \E dev \in Devices, s \in ScheduleStatuses : UpdateSchedule(dev, s)
                 \/ \E d \in Details :
                      (\E s \in ScheduleStatuses : UpdateTask(d, s)) \/ RemoveTask(d)
          PROVE  UNCHANGED Lease!leaseVars
      BY <3>2, OtherStepIsStutter DEF RefreshList, UpdateSchedule, UpdateTask, RemoveTask,
         dbVars, agentVars
    <3>. QED
      BY <2>5, <3>1, <3>2 DEF DashboardAction
  <2>6. CASE UNCHANGED vars
    BY <2>6, OtherStepIsStutter DEF vars, dbVars, agentVars
  <2>. QED
    BY <2>1, <2>2, <2>3, <2>4, <2>5, <2>6 DEF Next
<1>. QED
  BY <1>1, <1>2, StoreTypeCorrect, StoreInvariant, PTL DEF Spec, ImplementsLease, Lease!Spec
=============================================================================
