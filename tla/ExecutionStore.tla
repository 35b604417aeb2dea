--------------------------- MODULE ExecutionStore ---------------------------
(***************************************************************************)
(* The server's execution tables for one schedule group: manual_execution, *)
(* execution_running, execution_log and the status columns of              *)
(* schedule_group and schedule_detail, with every transaction of           *)
(* server/repositories/agent_execution.py that changes them, the dashboard *)
(* statements that write the same rows, and the agents whose requests      *)
(* arrive late, twice or never.                                            *)
(*                                                                         *)
(* A transaction is one step: claims, starts and results take the group's  *)
(* row lock first, and the sweeper only touches manual rows it has locked. *)
(* An execution stands for one (execution_grp_id, detail_id, attempt) key; *)
(* a manual one also stands for its claim token, because the agent makes   *)
(* exactly one execution of each claim it is granted.                      *)
(***************************************************************************)
EXTENDS Integers, FiniteSets

CONSTANTS
  Manuals,       \* rows of manual_execution
  Details,       \* rows of schedule_detail of the group
  Devices,       \* devices that are, or have been, the group's target
  MaxExecutions, \* how many execution keys agents use; bounds the history
  StatusChoices, \* what the status select of a group's or task's form offers
  None,          \* SQL NULL
  ManualDetail   \* manual_execution.detail_id

Executions == 1 .. MaxExecutions

ASSUME StoreAssumption ==
  /\ MaxExecutions \in Nat
  /\ Devices # {}
  /\ StatusChoices # {}
  /\ "error" \notin StatusChoices
  /\ None \notin Executions
  /\ None \notin Manuals
  /\ ManualDetail \in [Manuals -> Details]

VARIABLES
  status,        \* manual_execution.status
  claimToken,    \* manual_execution.claim_token, as the execution it is for
  expiry,        \* manual_execution.claim_expires_at against UTC_TIMESTAMP()
  running,       \* execution_running: the execution in the detail's row
  log,           \* execution_log: the result stored under the key
  groupStatus,   \* schedule_group.status
  target,        \* schedule_group.target_device
  detailStatus,  \* schedule_detail.status
  deleted,       \* details whose deleted_at is set
  phase,         \* the agents: how far each execution has come
  run,           \* the agents: what each execution runs
  starts,        \* start signals sent and not yet handled
  offered,       \* what the dashboard's list offers for each manual run
  staleEdits,    \* history: runs overwritten from an out-of-date list
  refused,       \* history: results answered claim_expired
  groupErred,    \* history: the group has been in error, and a list may show it
  detailErred    \* history: the details that have been in error

dbVars == <<status, claimToken, expiry, running, log, groupStatus, target, detailStatus, deleted>>
agentVars == <<phase, run, starts>>
errVars == <<groupErred, detailErred>>
vars == <<dbVars, agentVars, offered, staleEdits, refused, errVars>>

ScheduleStatuses == StatusChoices \cup {"error"}
Statuses == {"inactive", "active", "wait", "processing", "done", "failed"}
Finished == {"ok", "error"}
Phases == {"unused", "claimed", "running"} \cup Finished
NoRun == [manual |-> None, detail |-> None, device |-> None]
Runs == [manual : Manuals \cup {None}, detail : Details, device : Devices] \cup {NoRun}

TypeOK ==
  /\ status \in [Manuals -> Statuses]
  /\ claimToken \in [Manuals -> Executions \cup {None}]
  /\ expiry \in [Manuals -> {"null", "future", "past"}]
  /\ running \in [Details -> Executions \cup {None}]
  /\ log \in [Executions -> Finished \cup {"none"}]
  /\ groupStatus \in ScheduleStatuses
  /\ target \in Devices
  /\ detailStatus \in [Details -> ScheduleStatuses]
  /\ deleted \subseteq Details
  /\ phase \in [Executions -> Phases]
  /\ run \in [Executions -> Runs]
  /\ starts \subseteq Executions
  /\ offered \in [Manuals -> {"edit", "abandon", "nothing"}]
  /\ staleEdits \subseteq Manuals
  /\ refused \subseteq Executions
  /\ groupErred \in BOOLEAN
  /\ detailErred \in [Details -> BOOLEAN]

\* Manual runs are inserted as wait or active; nothing has run yet.
Init ==
  /\ status \in [Manuals -> {"wait", "active"}]
  /\ claimToken = [m \in Manuals |-> None]
  /\ expiry = [m \in Manuals |-> "null"]
  /\ running = [d \in Details |-> None]
  /\ log = [e \in Executions |-> "none"]
  /\ groupStatus \in StatusChoices
  /\ target = CHOOSE dev \in Devices : TRUE
  /\ detailStatus \in [Details -> StatusChoices]
  /\ deleted = {}
  /\ phase = [e \in Executions |-> "unused"]
  /\ run = [e \in Executions |-> NoRun]
  /\ starts = {}
  /\ offered = [m \in Manuals |-> "edit"]
  /\ staleEdits = {}
  /\ refused = {}
  /\ groupErred = FALSE
  /\ detailErred = [d \in Details |-> FALSE]

-----------------------------------------------------------------------------
(* Claims of manual runs *)

\* Keys and tokens are random and never repeat; here they are used in order.
Fresh(e) ==
  /\ phase[e] = "unused"
  /\ \A f \in Executions : f < e => phase[f] # "unused"

\* A processing row whose claim_expires_at has passed.
Expired(m) == status[m] = "processing" /\ expiry[m] = "past"

ReleaseExpired(S) ==
  /\ status' = [m \in Manuals |-> IF m \in S THEN "wait" ELSE status[m]]
  /\ claimToken' = [m \in Manuals |-> IF m \in S THEN None ELSE claimToken[m]]
  /\ expiry' = [m \in Manuals |-> IF m \in S THEN "null" ELSE expiry[m]]

\* Mutant: a claim does not wait for the previous one to expire.
ClaimManualRun_NoExpiry(dev, m, e) ==
  /\ Fresh(e)
  /\ ManualDetail[m] \notin deleted
  /\ target = dev
  /\ status[m] \in {"wait", "processing"}
  /\ status' = [status EXCEPT ![m] = "processing"]
  /\ claimToken' = [claimToken EXCEPT ![m] = e]
  /\ expiry' = [expiry EXCEPT ![m] = "future"]
  /\ phase' = [phase EXCEPT ![e] = "claimed"]
  /\ run' = [run EXCEPT ![e] = [manual |-> m, detail |-> ManualDetail[m], device |-> dev]]
  /\ UNCHANGED <<running, log, groupStatus, target, detailStatus, deleted, starts,
                 offered, staleEdits, refused, errVars>>

\* The claim is granted to execution e; its response may never reach the agent.
ClaimManualRun(dev, m, e) ==
  /\ Fresh(e)
  /\ ManualDetail[m] \notin deleted
  /\ target = dev
  /\ status[m] = "wait" \/ Expired(m)
  /\ status' = [status EXCEPT ![m] = "processing"]
  /\ claimToken' = [claimToken EXCEPT ![m] = e]
  /\ expiry' = [expiry EXCEPT ![m] = "future"]
  /\ phase' = [phase EXCEPT ![e] = "claimed"]
  /\ run' = [run EXCEPT ![e] = [manual |-> m, detail |-> ManualDetail[m], device |-> dev]]
  /\ UNCHANGED <<running, log, groupStatus, target, detailStatus, deleted, starts,
                 offered, staleEdits, refused, errVars>>

\* Time passes MANUAL_CLAIM_TTL_MINUTES after the claim.
LeaseExpires(m) ==
  /\ expiry[m] = "future"
  /\ expiry' = [expiry EXCEPT ![m] = "past"]
  /\ UNCHANGED <<status, claimToken, running, log, groupStatus, target, detailStatus, deleted,
                 agentVars, offered, staleEdits, refused, errVars>>

\* Mutant: the sweep joins live details, as the claim does.
SweepExpiredClaims_LiveDetails(S) ==
  /\ S # {}
  /\ \A m \in S : Expired(m) /\ ManualDetail[m] \notin deleted
  /\ ReleaseExpired(S)
  /\ UNCHANGED <<running, log, groupStatus, target, detailStatus, deleted,
                 agentVars, offered, staleEdits, refused, errVars>>

\* The sweeper frees the expired rows it could lock.
SweepExpiredClaims(S) ==
  /\ S # {}
  /\ \A m \in S : Expired(m)
  /\ ReleaseExpired(S)
  /\ UNCHANGED <<running, log, groupStatus, target, detailStatus, deleted,
                 agentVars, offered, staleEdits, refused, errVars>>

-----------------------------------------------------------------------------
(* What the agents do, as far as the server can tell *)

SendStart(e) ==
  /\ phase' = [phase EXCEPT ![e] = "running"]
  /\ starts' = starts \cup {e}

\* The claim's response arrived and the agent runs the task.
BeginManual(e) ==
  /\ phase[e] = "claimed"
  /\ SendStart(e)
  /\ UNCHANGED <<dbVars, run, offered, staleEdits, refused, errVars>>

\* A schedule fires on a device that holds a snapshot of the group.
BeginScheduled(dev, d, e) ==
  /\ Fresh(e)
  /\ d \notin deleted
  /\ SendStart(e)
  /\ run' = [run EXCEPT ![e] = [manual |-> None, detail |-> d, device |-> dev]]
  /\ UNCHANGED <<dbVars, offered, staleEdits, refused, errVars>>

\* The task ended; the envelope in the outbox is immutable from here on.
FinishTask(e) ==
  /\ phase[e] = "running"
  /\ \E code \in Finished : phase' = [phase EXCEPT ![e] = code]
  /\ UNCHANGED <<dbVars, run, starts, offered, staleEdits, refused, errVars>>

\* The start signal is handled, at once or long after the result.
StartExecution(e) ==
  /\ e \in starts
  /\ starts' = starts \ {e}
  /\ running' = IF run[e].detail \notin deleted /\ target = run[e].device
                THEN [running EXCEPT ![run[e].detail] = e]
                ELSE running
  /\ UNCHANGED <<status, claimToken, expiry, log, groupStatus, target, detailStatus, deleted,
                 phase, run, offered, staleEdits, refused, errVars>>

-----------------------------------------------------------------------------
(* Results *)

ClearRunning(e) == running' = [running EXCEPT ![run[e].detail] = None]

\* Mutant: a claim is invalid only while another one holds the run.
ClaimValid_NotTaken(e) ==
  LET m == run[e].manual
  IN status[m] = "processing" => claimToken[m] = e /\ expiry[m] = "future"

ClaimValid(e) ==
  LET m == run[e].manual
  IN /\ status[m] = "processing"
     /\ claimToken[m] = e
     /\ expiry[m] = "future"

\* The first result of a manual run closes it and frees its claim columns.
CompleteManual(e) ==
  LET m == run[e].manual
  IN /\ status' = [status EXCEPT ![m] = IF phase[e] = "ok" THEN "done" ELSE "failed"]
     /\ claimToken' = [claimToken EXCEPT ![m] = None]
     /\ expiry' = [expiry EXCEPT ![m] = "null"]
     /\ UNCHANGED <<groupStatus, detailStatus, errVars>>

\* A failed result of a scheduled run stops its group if the group's
\* is_error_stop is set, or else its detail if the detail's is.  An operator may
\* save either flag at any moment, so any of the outcomes is possible.
ApplyErrorStop(e) ==
  /\ \/ UNCHANGED <<groupStatus, detailStatus, errVars>>
     \/ /\ phase[e] = "error"
        /\ groupStatus' = "error"
        /\ groupErred' = TRUE
        /\ UNCHANGED <<detailStatus, detailErred>>
     \/ /\ phase[e] = "error"
        /\ detailStatus' = [detailStatus EXCEPT ![run[e].detail] = "error"]
        /\ detailErred' = [detailErred EXCEPT ![run[e].detail] = TRUE]
        /\ UNCHANGED <<groupStatus, groupErred>>
  /\ UNCHANGED <<status, claimToken, expiry>>

\* Mutant: a duplicate is answered with the transitions applied once more.
AcceptDuplicate_Reapplies(e) ==
  /\ phase[e] \in Finished
  /\ target = run[e].device
  /\ log[e] = phase[e]
  /\ ClearRunning(e)
  /\ ApplyErrorStop(e)
  /\ UNCHANGED <<log, target, deleted, agentVars, offered, staleEdits, refused>>

\* The key is in the log with the same content: a duplicate, answered without
\* any transition, whatever has become of the claim.
AcceptDuplicate(e) ==
  /\ phase[e] \in Finished
  /\ target = run[e].device
  /\ log[e] = phase[e]
  /\ ClearRunning(e)
  /\ UNCHANGED <<status, claimToken, expiry, log, groupStatus, target, detailStatus, deleted,
                 agentVars, offered, staleEdits, refused, errVars>>

AcceptFirst(e) ==
  /\ phase[e] \in Finished
  /\ target = run[e].device
  /\ log[e] = "none"
  /\ log' = [log EXCEPT ![e] = phase[e]]
  /\ ClearRunning(e)
  /\ \/ run[e].manual # None /\ ClaimValid(e) /\ CompleteManual(e)
     \/ run[e].manual = None /\ ApplyErrorStop(e)
  /\ UNCHANGED <<target, deleted, agentVars, offered, staleEdits, refused>>

\* Mutant: the claim is checked before the log is searched.
RefuseExpired_ClaimFirst(e) ==
  /\ phase[e] \in Finished
  /\ target = run[e].device
  /\ run[e].manual # None
  /\ ~ClaimValid(e)
  /\ refused' = refused \cup {e}
  /\ UNCHANGED <<dbVars, agentVars, offered, staleEdits, errVars>>

\* The claim lapsed, was swept or belongs to someone else by now.
RefuseExpired(e) ==
  /\ phase[e] \in Finished
  /\ target = run[e].device
  /\ log[e] = "none"
  /\ run[e].manual # None
  /\ ~ClaimValid(e)
  /\ refused' = refused \cup {e}
  /\ UNCHANGED <<dbVars, agentVars, offered, staleEdits, errVars>>

-----------------------------------------------------------------------------
(* The dashboard *)

\* edit_enable is set for active and wait rows; a processing row can be abandoned.
Button(s) ==
  CASE s \in {"active", "wait"} -> "edit"
    [] s = "processing" -> "abandon"
    [] OTHER -> "nothing"

RefreshList ==
  /\ offered' = [m \in Manuals |-> Button(status[m])]
  /\ UNCHANGED <<dbVars, agentVars, staleEdits, refused, errVars>>

\* The UPDATE behind the edit form has no condition on the row's present status.
UpdateManualExecution(m, s) ==
  /\ offered[m] = "edit"
  /\ status' = [status EXCEPT ![m] = s]
  /\ staleEdits' = IF status[m] \in {"processing", "done", "failed"}
                   THEN staleEdits \cup {m} ELSE staleEdits
  /\ UNCHANGED <<claimToken, expiry, running, log, groupStatus, target, detailStatus, deleted,
                 agentVars, offered, refused, errVars>>

\* Mutant: the run is set to a status the column's enumeration does not have.
AbandonManualExecution_Cancelled(m) ==
  /\ offered[m] = "abandon"
  /\ status' = [status EXCEPT ![m] = "cancelled"]
  /\ staleEdits' = IF status[m] # "processing" THEN staleEdits \cup {m} ELSE staleEdits
  /\ UNCHANGED <<claimToken, expiry, running, log, groupStatus, target, detailStatus,
                 deleted, agentVars, offered, refused, errVars>>

\* Again without a condition on the present status.
AbandonManualExecution(m) ==
  /\ offered[m] = "abandon"
  /\ status' = [status EXCEPT ![m] = "failed"]
  /\ staleEdits' = IF status[m] # "processing" THEN staleEdits \cup {m} ELSE staleEdits
  /\ UNCHANGED <<claimToken, expiry, running, log, groupStatus, target, detailStatus, deleted,
                 agentVars, offered, refused, errVars>>

\* An edit form starts from the listed row, and a list stays open for any time:
\* its select offers StatusChoices, and keeps an error the list showed until one of
\* them is chosen.
FormStatuses(erred) == StatusChoices \cup (IF erred THEN {"error"} ELSE {})

\* The operator saves the schedule group, perhaps for another device.  Like the
\* manual form's, the UPDATE has no condition on the present status.
UpdateSchedule(dev, s) ==
  /\ s \in FormStatuses(groupErred)
  /\ groupStatus' = s
  /\ target' = dev
  /\ UNCHANGED <<status, claimToken, expiry, running, log, detailStatus, deleted,
                 agentVars, offered, staleEdits, refused, errVars>>

UpdateTask(d, s) ==
  /\ d \notin deleted
  /\ s \in FormStatuses(detailErred[d])
  /\ detailStatus' = [detailStatus EXCEPT ![d] = s]
  /\ UNCHANGED <<status, claimToken, expiry, running, log, groupStatus, target, deleted,
                 agentVars, offered, staleEdits, refused, errVars>>

\* The row is kept with deleted_at set.
RemoveTask(d) ==
  /\ d \notin deleted
  /\ deleted' = deleted \cup {d}
  /\ UNCHANGED <<status, claimToken, expiry, running, log, groupStatus, target, detailStatus,
                 agentVars, offered, staleEdits, refused, errVars>>

-----------------------------------------------------------------------------
ClaimAction == \E dev \in Devices, m \in Manuals, e \in Executions : ClaimManualRun(dev, m, e)
SweepAction == \E S \in SUBSET Manuals : SweepExpiredClaims(S)
AgentAction ==
  \E e \in Executions :
    \/ BeginManual(e)
    \/ \E dev \in Devices, d \in Details : BeginScheduled(dev, d, e)
    \/ FinishTask(e)
    \/ StartExecution(e)
    \/ AcceptDuplicate(e)
    \/ AcceptFirst(e)
    \/ RefuseExpired(e)
DashboardAction ==
  \/ RefreshList
  \/ \E m \in Manuals : \/ \E s \in {"active", "wait", "inactive"} : UpdateManualExecution(m, s)
                        \/ AbandonManualExecution(m)
  \/ \E dev \in Devices, s \in ScheduleStatuses : UpdateSchedule(dev, s)
  \/ \E d \in Details : (\E s \in ScheduleStatuses : UpdateTask(d, s)) \/ RemoveTask(d)

Next ==
  \/ ClaimAction
  \/ \E m \in Manuals : LeaseExpires(m)
  \/ SweepAction
  \/ AgentAction
  \/ DashboardAction

(***************************************************************************)
(* Time passes, and the sweeper thread runs every minute: a row that stays *)
(* expired is found unlocked by some sweep.  Agents, the network and       *)
(* operators promise nothing.                                              *)
(***************************************************************************)
Fairness ==
  \A m \in Manuals :
    /\ WF_vars(LeaseExpires(m))
    /\ WF_vars(\E S \in SUBSET Manuals : m \in S /\ SweepExpiredClaims(S))

Spec == Init /\ [][Next]_vars
FairSpec == Spec /\ Fairness

-----------------------------------------------------------------------------
LoggedFor(m) == {e \in Executions : run[e].manual = m /\ log[e] # "none"}

(***************************************************************************)
(* manual_execution and execution_log agree: unless an operator overwrote  *)
(* the row from an out-of-date list, a manual run has at most one result,  *)
(* it is done exactly when that result is a success, and failed when that  *)
(* result is a failure.  Claims, retries, expiry and sweeps race here.     *)
(***************************************************************************)
CompletionMatchesLog ==
  \A m \in Manuals \ staleEdits :
    /\ \A e, f \in LoggedFor(m) : e = f
    /\ status[m] = "done" <=> \E e \in LoggedFor(m) : log[e] = "ok"
    /\ (\E e \in LoggedFor(m) : log[e] = "error") => status[m] = "failed"

(***************************************************************************)
(* A result is never both stored and answered claim_expired, in either     *)
(* order: the retry of a stored result is a duplicate although its claim   *)
(* is gone (the agent drops a result answered claim_expired for good).     *)
(***************************************************************************)
RefusedIsNeverLogged == \A e \in refused : log[e] = "none"

\* The transaction stores a failed scheduled result under its key for the first time.
StoresFailure ==
  \E e \in Executions : run[e].manual = None /\ log[e] = "none" /\ log'[e] = "error"

\* Somebody saves a form opened while the row was in error; no request is answered.
SavesOldError(erred) ==
  /\ erred
  /\ UNCHANGED <<status, claimToken, expiry, running, log, deleted, agentVars, refused>>

(***************************************************************************)
(* The agents' requests put a group or detail in error only by storing a   *)
(* failed scheduled result for the first time: a retry that arrives after  *)
(* the operator reactivated the group does not stop it again, and a manual *)
(* run never stops the schedule.  The one other way is an operator's own:  *)
(* a form opened while the row was in error is saved after the row was     *)
(* reactivated.  Such a form exists only after a failed result was stored. *)
(***************************************************************************)
ErrorStopOnlyOnce ==
  [][/\ groupStatus # "error" /\ groupStatus' = "error"
        => StoresFailure \/ SavesOldError(groupErred)
     /\ \A d \in Details :
          detailStatus[d] # "error" /\ detailStatus'[d] = "error"
          => StoresFailure \/ SavesOldError(detailErred[d])
     /\ errVars' # errVars => StoresFailure]_vars

(***************************************************************************)
(* A claim whose response was lost, or whose agent died, does not hold its *)
(* run for ever: it completes, or the sweeper or the next claim frees it.  *)
(***************************************************************************)
NoClaimHoldsForever ==
  \A m \in Manuals, e \in Executions :
    (status[m] = "processing" /\ claimToken[m] = e)
      ~> ~(status[m] = "processing" /\ claimToken[m] = e)

-----------------------------------------------------------------------------
(* The inductive invariant behind the two safety invariants. *)

\* A key nobody used has left no trace.
UnusedIsBlank ==
  \A e \in Executions :
    phase[e] = "unused" => run[e] = NoRun /\ log[e] = "none" /\ e \notin refused

\* What is stored is what the agent reports.
LogIsOutcome == \A e \in Executions : log[e] # "none" => log[e] = phase[e]

\* A token in a manual row, whatever the row's status, is of an execution of
\* that run that has no result yet.
TokenIsPending ==
  \A m \in Manuals : \A e \in Executions :
    claimToken[m] = e => phase[e] # "unused" /\ run[e].manual = m /\ log[e] = "none"

ProcessingIsClaimed ==
  \A m \in Manuals :
    status[m] = "processing" => claimToken[m] # None /\ expiry[m] # "null"

\* A refused result cannot become acceptable again.
RefusedForGood ==
  \A e \in refused :
    /\ run[e].manual # None /\ phase[e] \in Finished /\ log[e] = "none"
    /\ ~ClaimValid(e)

StoreInv ==
  /\ UnusedIsBlank
  /\ LogIsOutcome
  /\ TokenIsPending
  /\ ProcessingIsClaimed
  /\ RefusedForGood
  /\ CompletionMatchesLog

-----------------------------------------------------------------------------
(* The manual runs of the store as leases. *)
Processing(m) == status[m] = "processing"

LeaseState ==
  [m \in Manuals |-> IF Processing(m) THEN "held"
                    ELSE IF status[m] \in {"done", "failed"} THEN "closed" ELSE "open"]

Lease == INSTANCE ManualLease WITH
  Claims <- Executions,
  NoClaim <- None,
  state <- LeaseState,
  holder <- [m \in Manuals |-> IF Processing(m) THEN claimToken[m] ELSE None],
  lapsed <- [m \in Manuals |-> Expired(m)],
  granted <- {e \in Executions : run[e].manual # None},
  completed <- [m \in Manuals |-> LoggedFor(m)],
  overridden <- staleEdits

\* The store implements the lease protocol of ManualLease.
ImplementsLease == Lease!Spec
=============================================================================
