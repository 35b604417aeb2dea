---------------------------- MODULE ManualDispatch ----------------------------
(***************************************************************************)
(* How an agent comes to run what an operator asked for: manual runs are   *)
(* listed in the snapshot, scheduled as one-shot jobs (scheduler_adapter), *)
(* claimed (app.dispatch_manual), executed, and reported through the       *)
(* outbox.  The server is ManualLease, which ExecutionStore implements;    *)
(* the poll and HALTED are as coarse here as AgentSync allows, the outbox  *)
(* is a number of slots.                                                   *)
(*                                                                         *)
(* A claim stands for its token, its execution and its result.             *)
(***************************************************************************)
EXTENDS Naturals, FiniteSets

CONSTANTS
  Manuals,     \* manual runs of the agent's device
  Claims,      \* claim tokens; bounds the history
  NoClaim,     \* None
  NoSnapshot,  \* None
  Capacity,    \* slots of the outbox
  Faults,      \* those considered: "busy" (429, 5xx), "lost" (no answer), "misfire",
               \* "halt"
  MaxFaults,   \* bound: how many happen
  MaxEdits     \* bound: how often operators touch manual runs or their schedule

ASSUME DispatchAssumption ==
  /\ NoClaim \notin Claims \cup Manuals
  /\ IsFiniteSet(Manuals) /\ IsFiniteSet(Claims)
  /\ Capacity \in Nat \ {0} /\ MaxFaults \in Nat /\ MaxEdits \in Nat

VARIABLES
  state, holder, lapsed, granted, completed, overridden, \* the leases
  listed,    \* "yes"; "shelved": the row's status is active or inactive; "hidden":
             \* its group or detail is not active
  changed,   \* the rest of the device's content is not what the last poll got
  snapshot,  \* _current_snapshot
  poll,      \* how far the snapshot channel has come
  target,    \* the snapshot it is about to apply
  halted,    \* HALTED, before and after its listener has removed the jobs
  pending,   \* runs with a job manual_dispatch:<id>
  inflight,  \* _manual_inflight
  at, hand,  \* of each run: where its dispatch_manual is, with which claim
  slots,     \* slots taken in the outbox
  context,   \* manual_execution_status
  phase,     \* of each claim: how far its execution has come
  runOf,     \* of each claim granted: the manual run
  faults, edits \* history: how many there were

leaseVars == <<state, holder, lapsed, granted, completed, overridden>>
serverVars == <<leaseVars, listed, changed>>
syncVars == <<snapshot, poll, target, halted>>
jobVars == <<pending, inflight>>
dispatchVars == <<at, hand>>
workVars == <<slots, context, phase, runOf>>
counters == <<faults, edits>>
vars == <<serverVars, syncVars, jobVars, dispatchVars, workVars, counters>>

Lease == INSTANCE ManualLease

\* What a snapshot says of a run: not listed, or its status; a processing row whose
\* claim has lapsed is claimable again.
Entries == {"none", "wait", "processing", "lapsed"}
Snapshots == [Manuals -> Entries]

TypeOK ==
  /\ state \in [Manuals -> {"open", "held", "closed"}]
  /\ holder \in [Manuals -> Claims \cup {NoClaim}] /\ lapsed \in [Manuals -> BOOLEAN]
  /\ granted \subseteq Claims /\ completed \in [Manuals -> SUBSET Claims]
  /\ overridden \subseteq Manuals
  /\ listed \in [Manuals -> {"yes", "shelved", "hidden"}] /\ changed \in BOOLEAN
  /\ snapshot \in Snapshots \cup {NoSnapshot} /\ target \in Snapshots \cup {NoSnapshot}
  /\ poll \in {"idle", "apply", "schedule"}
  /\ halted \in {"no", "halting", "halted"}
  /\ pending \subseteq Manuals /\ inflight \subseteq Manuals
  /\ at \in [Manuals -> {"idle", "marked", "asking", "granted"}]
  /\ hand \in [Manuals -> Claims \cup {NoClaim}]
  /\ slots \in 0 .. Capacity
  /\ context \in [Manuals -> Claims \cup {NoClaim}]
  /\ phase \in [Claims -> {"none", "job", "result", "answered", "over", "misfired"}]
  /\ runOf \in [Claims -> Manuals \cup {NoClaim}]
  /\ faults \in 0 .. MaxFaults /\ edits \in 0 .. MaxEdits

Init ==
  /\ Lease!Init
  /\ listed = [m \in Manuals |-> "yes"] /\ changed = FALSE
  /\ snapshot = NoSnapshot /\ poll = "idle" /\ target = NoSnapshot /\ halted = "no"
  /\ pending = {} /\ inflight = {}
  /\ at = [m \in Manuals |-> "idle"] /\ hand = [m \in Manuals |-> NoClaim]
  /\ slots = 0
  /\ context = [m \in Manuals |-> NoClaim]
  /\ phase = [c \in Claims |-> "none"] /\ runOf = [c \in Claims |-> NoClaim]
  /\ faults = 0 /\ edits = 0

Fault(kind) ==
  kind \in Faults /\ faults < MaxFaults /\ faults' = faults + 1 /\ UNCHANGED edits

-----------------------------------------------------------------------------
(* The snapshot channel *)

\* load_snapshot lists rows that wait or are processing.
Entry(m) ==
  IF listed[m] # "yes" THEN "none"
  ELSE CASE state[m] = "open" -> "wait"
         [] state[m] = "held" -> IF lapsed[m] THEN "lapsed" ELSE "processing"
         [] state[m] = "closed" -> "none"

Content == [m \in Manuals |-> Entry(m)]

\* An answer 304 ends the cycle.
Poll ==
  /\ poll = "idle"
  /\ snapshot # Content \/ changed
  /\ target' = Content /\ changed' = FALSE /\ poll' = "apply"
  /\ UNCHANGED <<leaseVars, listed, snapshot, halted, jobVars, dispatchVars, workVars, counters>>

\* claimable, and not in a status that is settled.
ManagedIn(s) == IF s = NoSnapshot THEN {}
                ELSE {m \in Manuals : s[m] \in {"wait", "lapsed"}}

Removed == ManagedIn(snapshot) \ ManagedIn(target)
Added == ManagedIn(target) \ ManagedIn(snapshot)
Updated == {m \in ManagedIn(target) \cap ManagedIn(snapshot) :
              snapshot[m] # target[m]}

\* Mutant: the one-shot job of a run that is removed stays.
RemoveDispatch_Keeps(S) == pending

RemoveDispatch(S) == pending \ S

\* remove_job clears the mark, update_job leaves it.
ClearMarks == inflight \ Removed

\* The plan's removals, updates and additions; _schedule_manual_locked passes over
\* runs that are marked or have a job.
Apply ==
  /\ poll = "apply"
  /\ snapshot' = target /\ target' = NoSnapshot /\ poll' = "schedule"
  /\ inflight' = ClearMarks
  /\ pending' = RemoveDispatch(Removed \cup Updated) \cup ((Updated \cup Added) \ inflight)
  /\ UNCHANGED <<serverVars, halted, dispatchVars, workVars, counters>>

\* Mutant: what the plan has scheduled is thought enough.
SchedulePending_Skipped ==
  /\ poll = "schedule"
  /\ poll' = "idle"
  /\ UNCHANGED <<serverVars, snapshot, target, halted, jobVars, dispatchVars, workVars,
                 counters>>

\* schedule_pending_manuals, once the locks are released.
SchedulePending ==
  /\ poll = "schedule"
  /\ poll' = "idle"
  /\ pending' = pending \cup (ManagedIn(snapshot) \ inflight)
  /\ UNCHANGED <<serverVars, snapshot, target, halted, inflight, dispatchVars, workVars,
                 counters>>

Halt ==
  /\ halted = "no" /\ Fault("halt")
  /\ halted' = "halting"
  /\ UNCHANGED <<serverVars, snapshot, poll, target, jobVars, dispatchVars, workVars>>

\* remove_all_managed; a poll that has its listing waits for the lock, or finds its
\* plan stale.
Sweep ==
  /\ halted = "halting"
  /\ halted' = "halted" /\ snapshot' = NoSnapshot
  /\ pending' = pending \ ManagedIn(snapshot) /\ inflight' = inflight \ ManagedIn(snapshot)
  /\ UNCHANGED <<serverVars, poll, target, dispatchVars, workVars, counters>>

Recover ==
  /\ halted = "halted"
  /\ halted' = "no"
  /\ UNCHANGED <<serverVars, snapshot, poll, target, jobVars, dispatchVars, workVars, counters>>

ExecutionAllowed == halted = "no" /\ snapshot # NoSnapshot

-----------------------------------------------------------------------------
(* dispatch_manual *)

Goto(m, label) == at' = [at EXCEPT ![m] = label]
ReleaseMark(m) == inflight' = inflight \ {m}

\* The job is due.  It does not run while the one before it does (max_instances), for
\* a run that is marked, or when nothing may execute; else the run is marked.
Fire(m) ==
  /\ m \in pending
  /\ pending' = pending \ {m}
  /\ IF at[m] = "idle" /\ m \notin inflight /\ ExecutionAllowed
     THEN inflight' = inflight \cup {m} /\ Goto(m, "marked")
     ELSE UNCHANGED <<inflight, at>>
  /\ UNCHANGED <<serverVars, syncVars, hand, workVars, counters>>

\* The scheduler comes more than a second late, or was still paused.
DispatchMisfires(m) ==
  /\ m \in pending /\ Fault("misfire")
  /\ pending' = pending \ {m}
  /\ UNCHANGED <<serverVars, syncVars, inflight, dispatchVars, workVars>>

\* Mutant: the outbox is never full.
Prepare_Unlimited(m) ==
  /\ at[m] = "marked"
  /\ IF m \in ManagedIn(snapshot)
     THEN slots' = slots + 1 /\ Goto(m, "asking") /\ UNCHANGED inflight
     ELSE ReleaseMark(m) /\ Goto(m, "idle") /\ UNCHANGED slots
  /\ UNCHANGED <<serverVars, syncVars, pending, hand, context, phase, runOf, counters>>

\* The run is looked up in the snapshot, and a slot is reserved for its result.
Prepare(m) ==
  /\ at[m] = "marked"
  /\ IF m \in ManagedIn(snapshot) /\ slots < Capacity
     THEN slots' = slots + 1 /\ Goto(m, "asking") /\ UNCHANGED inflight
     ELSE ReleaseMark(m) /\ Goto(m, "idle") /\ UNCHANGED slots
  /\ UNCHANGED <<serverVars, syncVars, pending, hand, context, phase, runOf, counters>>

NextClaim == CHOOSE c \in Claims : c \notin granted

\* The server grants the claim, if the row is still there to be claimed.
Acquire(m) ==
  /\ granted # Claims
  /\ listed[m] # "shelved" /\ Lease!Acquire(m, NextClaim)
  /\ runOf' = [runOf EXCEPT ![NextClaim] = m]

ClaimGranted(m) ==
  /\ at[m] = "asking"
  /\ Acquire(m)
  /\ hand' = [hand EXCEPT ![m] = NextClaim] /\ Goto(m, "granted")
  /\ UNCHANGED <<listed, changed, syncVars, jobVars, slots, context, phase, counters>>

\* Mutant: the mark stays.
ClaimFails_KeepsMark(m) ==
  /\ slots' = slots - 1 /\ Goto(m, "idle")
  /\ UNCHANGED <<syncVars, jobVars, hand, context, phase>>

\* The slot and the mark are given back.
ClaimFails(m) ==
  /\ slots' = slots - 1 /\ ReleaseMark(m) /\ Goto(m, "idle")
  /\ UNCHANGED <<syncVars, pending, hand, context, phase>>

Unclaimable(m) ==
  listed[m] = "shelved" \/ state[m] = "closed" \/ (state[m] = "held" /\ ~lapsed[m])

\* already_claimed, not_found, or the server is busy.
ClaimRefused(m) ==
  /\ at[m] = "asking"
  /\ (Unclaimable(m) /\ UNCHANGED counters) \/ Fault("busy")
  /\ ClaimFails(m)
  /\ UNCHANGED <<serverVars, runOf>>

\* No answer, or one without a claim token, though the claim may have been granted.
ClaimLost(m) ==
  /\ at[m] = "asking" /\ Fault("lost")
  /\ Acquire(m) \/ UNCHANGED <<leaseVars, runOf>>
  /\ ClaimFails(m)
  /\ UNCHANGED <<listed, changed>>

\* A job manual_task:<id>:<execution> is added, or, when that fails, the task has been
\* executed here and now.
StartRun(m) ==
  /\ at[m] = "granted"
  /\ context' = [context EXCEPT ![m] = hand[m]]
  /\ \E p \in {"job", "result"} : phase' = [phase EXCEPT ![hand[m]] = p]
  /\ hand' = [hand EXCEPT ![m] = NoClaim] /\ Goto(m, "idle")
  /\ UNCHANGED <<serverVars, syncVars, jobVars, slots, runOf, counters>>

Dispatch(m) == Prepare(m) \/ ClaimGranted(m) \/ ClaimRefused(m) \/ ClaimLost(m) \/ StartRun(m)

-----------------------------------------------------------------------------
(* The execution and its result *)

Advance(c, from, to) == phase[c] = from /\ phase' = [phase EXCEPT ![c] = to]

\* The task has run, and its result takes over the slot.
Execute(c) ==
  /\ Advance(c, "job", "result")
  /\ UNCHANGED <<serverVars, syncVars, jobVars, dispatchVars, slots, context, runOf, counters>>

TaskMisfires(c) ==
  /\ Fault("misfire") /\ Advance(c, "job", "misfired")
  /\ UNCHANGED <<serverVars, syncVars, jobVars, dispatchVars, slots, context, runOf>>

\* The server stores the result of the run's present claim, and refuses another's.
SendResult(c) ==
  /\ halted = "no" /\ Advance(c, "result", "answered")
  /\ IF holder[runOf[c]] = c /\ ~lapsed[runOf[c]]
     THEN Lease!Complete(runOf[c])
     ELSE UNCHANGED leaseVars
  /\ UNCHANGED <<listed, changed, syncVars, jobVars, dispatchVars, slots, context, runOf,
                 counters>>

\* The outbox gives up after an exception that it does not classify.
GiveUpResult(c) ==
  /\ halted = "no" /\ Advance(c, "result", "answered")
  /\ UNCHANGED <<serverVars, syncVars, jobVars, dispatchVars, slots, context, runOf, counters>>

\* Mutant: only an ack frees the slot.
FinishResult_IfStored(c) ==
  /\ Advance(c, "answered", "over")
  /\ slots' = IF c \in completed[runOf[c]] THEN slots - 1 ELSE slots
  /\ context' = [context EXCEPT ![runOf[c]] = NoClaim]
  /\ UNCHANGED <<serverVars, syncVars, jobVars, dispatchVars, runOf, counters>>

\* handle_result_ack or handle_result_rejection.
FinishResult(c) ==
  /\ Advance(c, "answered", "over")
  /\ slots' = slots - 1
  /\ context' = [context EXCEPT ![runOf[c]] = NoClaim]
  /\ UNCHANGED <<serverVars, syncVars, jobVars, dispatchVars, runOf, counters>>

Work(c) == Execute(c) \/ SendResult(c) \/ FinishResult(c)

-----------------------------------------------------------------------------
(* The server's clock and sweeper, and the dashboard *)

OutsideAgent == UNCHANGED <<syncVars, jobVars, dispatchVars, workVars, faults>>

Clock(m) ==
  /\ Lease!Lapse(m) \/ Lease!Reclaim({m})
  /\ OutsideAgent /\ UNCHANGED <<listed, changed, edits>>

Edit == edits < MaxEdits /\ edits' = edits + 1

\* The form edits rows that wait, as far as its list knows, and abandons processing ones.
EditRun(m) ==
  /\ Edit /\ OutsideAgent /\ UNCHANGED changed
  /\ \/ /\ state[m] = "open"
        /\ listed' = [listed EXCEPT ![m] = IF @ = "shelved" THEN "yes" ELSE "shelved"]
        /\ UNCHANGED leaseVars
     \/ (Lease!Abandon(m) \/ Lease!Override(m)) /\ UNCHANGED listed

\* The schedule group or the detail is deactivated or activated.
EditSchedule(m) ==
  /\ Edit /\ OutsideAgent /\ UNCHANGED <<leaseVars, changed>>
  /\ listed[m] # "shelved"
  /\ listed' = [listed EXCEPT ![m] = IF @ = "yes" THEN "hidden" ELSE "yes"]

EditOther ==
  /\ changed' = TRUE
  /\ OutsideAgent /\ UNCHANGED <<leaseVars, listed, edits>>

Next ==
  \/ Poll \/ Apply \/ SchedulePending
  \/ Halt \/ Sweep \/ Recover
  \/ \E m \in Manuals : Fire(m) \/ DispatchMisfires(m) \/ Dispatch(m)
  \/ \E c \in Claims : Work(c) \/ GiveUpResult(c) \/ TaskMisfires(c)
  \/ \E m \in Manuals : Clock(m) \/ EditRun(m) \/ EditSchedule(m)
  \/ EditOther

Spec == Init /\ [][Next]_vars

(***************************************************************************)
(* The agent's threads run, tasks end and results are answered.  Operators *)
(* and the server's clock promise nothing.                                 *)
(***************************************************************************)
FairSpec ==
  /\ Spec
  /\ WF_vars(Poll) /\ WF_vars(Apply) /\ WF_vars(SchedulePending) /\ WF_vars(Sweep)
  /\ \A m \in Manuals : WF_vars(Fire(m)) /\ WF_vars(Dispatch(m))
  /\ \A c \in Claims : WF_vars(Work(c))

-----------------------------------------------------------------------------
(* Properties *)

\* The agent has been granted the run before.
HasRun(m) == \E c \in Claims : runOf[c] = m /\ phase[c] # "none"

\* Tasks that the scheduler has dropped.
Dropped == Cardinality({c \in Claims : phase[c] = "misfired"})

Holding == {"job", "result", "answered", "misfired"}

(***************************************************************************)
(* Every slot that is taken belongs to a dispatch that is under way or to  *)
(* an execution whose result is not answered yet: none leaks, whatever     *)
(* becomes of a claim (app.py:303-337).  Only a task the scheduler drops   *)
(* keeps its slot for good.                                                *)
(***************************************************************************)
SlotsMatchWork ==
  slots = Cardinality({m \in Manuals : at[m] \in {"asking", "granted"}})
          + Cardinality({c \in Claims : phase[c] \in Holding})

(***************************************************************************)
(* A mark that outlives its dispatch is of a run the agent has been given  *)
(* a claim for: a run it could not claim is not kept from being tried      *)
(* again (scheduler_adapter.py:102-105).                                   *)
(***************************************************************************)
MarkedWasClaimed ==
  \A m \in inflight :
    at[m] = "idle" => HasRun(m)

(***************************************************************************)
(* Only runs that the current snapshot lists as claimable have a dispatch  *)
(* job; after HALTED none has (sync_coordinator.py:328-332).               *)
(***************************************************************************)
PendingIsManaged == pending \subseteq ManagedIn(snapshot)

\* The run waits to be claimed, and the agent may execute.
Waits(m) == Entry(m) = "wait" /\ ExecutionAllowed

\* Again and again the poll gets a snapshot that is not the current one.
FreshSnapshots == []<>(poll = "apply")

(***************************************************************************)
(* As long as fresh snapshots arrive, a run that was skipped is tried      *)
(* again until it is claimed (scheduler_adapter.py:89-105): only the mark  *)
(* of an earlier claim, or slots that misfires have taken, hold it back.   *)
(***************************************************************************)
SkippedIsRetried ==
  FreshSnapshots =>
    \A m \in Manuals :
      <>[](Waits(m) /\ granted # Claims)
        => <>[](m \in inflight /\ HasRun(m)) \/ <>[](Dropped >= Capacity)

(***************************************************************************)
(* "claimable manual runs are claimed through the server before dispatch"  *)
(* (agent/README.md:231): none waits for ever at an agent that may execute *)
(* and whose polls succeed.                                                *)
(***************************************************************************)
WaitingIsClaimed == \A m \in Manuals : ~<>[](Waits(m) /\ granted # Claims)
=============================================================================
