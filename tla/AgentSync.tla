------------------------------ MODULE AgentSync ------------------------------
(***************************************************************************)
(* How an agent keeps its scheduler in step with the server: the heartbeat *)
(* and the snapshot channel (timeweaver.py), senders that find out about   *)
(* credentials on the way, the operating state with its unlocked           *)
(* publication (operating_state.py), and the reconcile plan with its       *)
(* compensation (sync_coordinator.py, scheduler_adapter.py).               *)
(*                                                                         *)
(* Degraded reasons are left out: they change neither what may execute nor *)
(* what is registered.  Managed jobs are keys with the version of their    *)
(* content; a listing is what a snapshot says of every key.                *)
(***************************************************************************)
EXTENDS Integers, FiniteSets

CONSTANTS
  Threads,    \* "heartbeat", "snapshot" and the threads that send results
  Keys,       \* "schedule:<id>" and "manual:<id>"
  Versions,   \* fingerprints
  Listings,   \* what the server's content may be
  Absent,     \* the version of a key that is not listed
  NoSnapshot, \* None
  Faults,     \* "lost", "invalid" (401), "identity" (the file cannot be read),
              \* "credential_persist_failed", "mutation" (a job cannot be
              \* changed), "restore" (nor put back)
  MaxFaults,  \* bound: how many of them happen
  Nobody      \* holds a lock that is free

ASSUME SyncAssumption ==
  /\ {"heartbeat", "snapshot"} \subseteq Threads /\ Nobody \notin Threads
  /\ Absent \notin Versions
  /\ Listings \subseteq [Keys -> Versions \cup {Absent}] /\ Listings # {}
  /\ NoSnapshot \notin [Keys -> Versions \cup {Absent}]
  /\ MaxFaults \in Nat

VARIABLES
  content, device, \* the server: what is listed for the device, devices.status
  reasons, valid,  \* _fail_closed_reasons, _has_valid_snapshot
  call,            \* of each thread: its call of the state manager
  snapshot,        \* _current_snapshot
  jobs,            \* the adapter's _specs
  executionLock, applyLock, \* who holds execution_lock and snapshot_apply_lock
  pc,              \* of each thread: how far its cycle has come
  answer,          \* of each thread: the kind of answer it has got
  current, target, \* the snapshot whose ETag the poll has sent, the one it got
  old, before, todo, \* the plan's old snapshot, previous, the changes left
  unmarked,        \* a context is running that is not marked to stop
  faults           \* history: how many faults happened

serverVars == <<content, device>>
stateVars == <<reasons, valid>>
planVars == <<current, target, old, before, todo>>
syncVars == <<snapshot, jobs, executionLock, applyLock>>
vars == <<serverVars, stateVars, call, syncVars, pc, answer, planVars, unmarked, faults>>

Nothing == [k \in Keys |-> Absent]

FailClosed == {"needs_enrollment", "device", "credential_persist_failed", "restore"}
States == {"HALTED", "BOOTSTRAP", "running"}

\* HEALTHY and DEGRADED are one here: both may execute.
State == IF reasons # {} THEN "HALTED" ELSE IF valid THEN "running" ELSE "BOOTSTRAP"

NoCall == [at |-> "none", previous |-> "BOOTSTRAP", change |-> "token"]
Snapshots == [Keys -> Versions \cup {Absent}] \cup {NoSnapshot}

TypeOK ==
  /\ content \in Listings /\ device \in {"active", "inactive"}
  /\ reasons \subseteq FailClosed /\ valid \in BOOLEAN
  /\ call \in [Threads -> [at : {"none", "mutate", "publish", "sweep", "mark"},
                           previous : States,
                           change : FailClosed \cup {"token", "active", "applied"}]]
  /\ snapshot \in Snapshots
  /\ jobs \in [Keys -> Versions \cup {Absent}]
  /\ executionLock \in {Nobody, "snapshot"} /\ applyLock \in {Nobody, "snapshot"}
  /\ pc \in [Threads -> {"idle", "ask", "sent", "handle", "apply", "locked", "mutating",
                         "restoring", "release"}]
  /\ answer \in [Threads -> {"none", "active", "stored", "revoked", "invalid", "same",
                             "listing"}]
  /\ current \in Snapshots /\ target \in Snapshots /\ old \in Snapshots
  /\ before \in [Keys -> Versions \cup {Absent}] /\ todo \subseteq Keys
  /\ unmarked \in BOOLEAN
  /\ faults \in 0 .. MaxFaults

\* bootstrap() has succeeded: the periodic jobs are installed.
Init ==
  /\ content \in Listings /\ device = "active"
  /\ reasons = {} /\ valid = TRUE
  /\ call = [t \in Threads |-> NoCall]
  /\ snapshot = content /\ jobs = content
  /\ executionLock = Nobody /\ applyLock = Nobody
  /\ pc = [t \in Threads |-> "idle"]
  /\ answer = [t \in Threads |-> "none"]
  /\ current = NoSnapshot /\ target = NoSnapshot /\ old = NoSnapshot
  /\ before = Nothing /\ todo = {}
  /\ unmarked = FALSE
  /\ faults = 0

Fault(kind) == kind \in Faults /\ faults < MaxFaults /\ faults' = faults + 1
NoFault == UNCHANGED faults
Goto(t, label) == pc' = [pc EXCEPT ![t] = label]
At(t, label) == pc[t] = label /\ call[t] = NoCall

(***************************************************************************)
(* The state manager.  A call reads the state, changes the reasons under   *)
(* the manager's lock, reads the state again and calls the listener; none  *)
(* of this is one step.  Calls that touch degraded reasons only are like a *)
(* "token" that finds nothing to clear.                                    *)
(***************************************************************************)
\* `previous = self.value()`
Begin(t, change) ==
  call' = [call EXCEPT ![t] = [at |-> "mutate", previous |-> State, change |-> change]]

Cleared(change) ==
  CASE change = "token" -> {"needs_enrollment"}
    [] change = "active" -> {"device"}
    [] OTHER -> {}

Mutate(t) ==
  /\ call[t].at = "mutate"
  /\ LET change == call[t].change IN
     /\ reasons' = (reasons \ Cleared(change)) \cup ({change} \cap FailClosed)
     /\ valid' = CASE change \in FailClosed -> FALSE
                   [] change = "applied" -> TRUE
                   [] OTHER -> valid
  /\ call' = [call EXCEPT ![t].at = "publish"]
  /\ UNCHANGED <<serverVars, syncVars, pc, answer, planVars, unmarked, faults>>

\* _publish: the listener hears of a change that is still there.
Publish(t) ==
  /\ call[t].at = "publish"
  /\ call' = [call EXCEPT ![t] = IF State # call[t].previous /\ State = "HALTED"
                                 THEN [@ EXCEPT !.at = "sweep"] ELSE NoCall]
  /\ UNCHANGED <<serverVars, stateVars, syncVars, pc, answer, planVars, unmarked, faults>>

MayTake(lock, t) == lock \in {Nobody, t}

\* Mutant: the jobs go, the snapshot and its ETag stay.
Sweep_KeepsSnapshot(t) ==
  /\ call[t].at = "sweep" /\ MayTake(applyLock, t)
  /\ jobs' = Nothing
  /\ call' = [call EXCEPT ![t].at = "mark"]
  /\ UNCHANGED <<serverVars, stateVars, snapshot, executionLock, applyLock, pc, answer,
                 planVars, unmarked, faults>>

\* The listener: remove_all_managed, then the running contexts are marked.
Sweep(t) ==
  /\ call[t].at = "sweep" /\ MayTake(applyLock, t)
  /\ jobs' = Nothing /\ snapshot' = NoSnapshot
  /\ call' = [call EXCEPT ![t].at = "mark"]
  /\ UNCHANGED <<serverVars, stateVars, executionLock, applyLock, pc, answer, planVars,
                 unmarked, faults>>

Mark(t) ==
  /\ call[t].at = "mark" /\ MayTake(executionLock, t)
  /\ unmarked' = FALSE
  /\ call' = [call EXCEPT ![t] = NoCall]
  /\ UNCHANGED <<serverVars, stateVars, syncVars, pc, answer, planVars, faults>>

(***************************************************************************)
(* One cycle of a channel, or one send: a token, a request, its answer.    *)
(***************************************************************************)
\* _access_token.  A device that is inactive gets no fresh token, but one
\* that is still in memory is used.
Token(t) ==
  /\ At(t, "idle")
  /\ \/ Begin(t, "token") /\ Goto(t, "ask") /\ NoFault
     \/ device = "inactive" /\ Begin(t, "device") /\ NoFault /\ UNCHANGED pc
     \/ Fault("credential_persist_failed") /\ Begin(t, "credential_persist_failed")
        /\ UNCHANGED pc
  /\ UNCHANGED <<serverVars, stateVars, syncVars, answer, planVars, unmarked>>

\* The poll sends the ETag of the snapshot it finds.
Ask(t) ==
  /\ At(t, "ask") /\ Goto(t, "sent")
  /\ current' = IF t = "snapshot" THEN snapshot ELSE current
  /\ UNCHANGED <<serverVars, stateVars, call, syncVars, answer, target, old, before, todo,
                 unmarked, faults>>

\* What an active device is told.
Welcome(t) ==
  CASE t = "heartbeat" -> "active"
    [] t = "snapshot" -> IF current = content THEN "same" ELSE "listing"
    [] OTHER -> "stored"

Answers(t, a) ==
  /\ answer' = [answer EXCEPT ![t] = a]
  /\ target' = IF a = "listing" THEN content ELSE target
  /\ current' = IF t = "snapshot" THEN NoSnapshot ELSE current

Answer(t) ==
  /\ At(t, "sent") /\ Goto(t, "handle")
  /\ \/ device = "active" /\ NoFault /\ Answers(t, Welcome(t))
     \/ device = "inactive" /\ NoFault /\ Answers(t, "revoked")
     \/ Fault("invalid") /\ Answers(t, "invalid")
  /\ UNCHANGED <<serverVars, stateVars, call, syncVars, old, before, todo, unmarked>>

\* Nothing but degraded reasons comes of an exchange that fails.
Lose(t) ==
  /\ At(t, "sent") /\ Fault("lost") /\ Goto(t, "idle")
  /\ current' = IF t = "snapshot" THEN NoSnapshot ELSE current
  /\ UNCHANGED <<serverVars, stateVars, call, syncVars, answer, target, old, before, todo,
                 unmarked>>

\* Mutant: "device_" is not taken off the code.
Tells_WithPrefix(a) ==
  CASE a = "active" -> "active"
    [] a = "same" -> "applied"
    [] a = "revoked" -> "device_device_revoked"
    [] a = "invalid" -> "needs_enrollment"

\* What the answer makes the thread tell the state manager.
Tells(a) ==
  CASE a = "active" -> "active"
    [] a = "same" -> "applied"
    [] a = "revoked" -> "device"
    [] a = "invalid" -> "needs_enrollment"

Handle(t) ==
  /\ At(t, "handle") /\ answer[t] # "listing"
  /\ answer' = [answer EXCEPT ![t] = "none"] /\ Goto(t, "idle")
  /\ IF answer[t] = "stored" THEN UNCHANGED call ELSE Begin(t, Tells(answer[t]))
  /\ UNCHANGED <<serverVars, stateVars, syncVars, planVars, unmarked, faults>>

Snap(label) == At("snapshot", label)

\* The cycle of the snapshot channel ends, and its local variables with it.
EndPoll ==
  /\ Goto("snapshot", "idle") /\ answer' = [answer EXCEPT !["snapshot"] = "none"]
  /\ target' = NoSnapshot /\ old' = NoSnapshot /\ before' = Nothing /\ todo' = {}

\* A listing is validated against the identity in the credential file.
HandleListing ==
  /\ Snap("handle") /\ answer["snapshot"] = "listing"
  /\ \/ Goto("snapshot", "apply") /\ NoFault
        /\ UNCHANGED <<call, answer, target, old, before, todo>>
     \/ Fault("identity") /\ Begin("snapshot", "needs_enrollment") /\ EndPoll
  /\ UNCHANGED <<serverVars, stateVars, syncVars, current, unmarked>>

(***************************************************************************)
(* apply_snapshot.  It holds execution_lock throughout and, for the plan's *)
(* mutations, snapshot_apply_lock.                                         *)
(***************************************************************************)
ListedIn(s) == IF s = NoSnapshot THEN Nothing ELSE s

LockExecution ==
  /\ Snap("apply") /\ executionLock = Nobody
  /\ executionLock' = "snapshot" /\ old' = snapshot /\ Goto("snapshot", "locked")
  /\ UNCHANGED <<serverVars, stateVars, call, snapshot, jobs, applyLock, answer, current,
                 target, before, todo, unmarked, faults>>

\* build_reconcile_plan: removals, updates and additions are the keys that differ.
Plan == {k \in Keys : ListedIn(old)[k] # target[k]}

\* Mutant: the revisions are not compared again under the lock.
LockApply_MayBeStale ==
  /\ Snap("locked") /\ applyLock = Nobody
  /\ applyLock' = "snapshot" /\ before' = jobs /\ todo' = Plan
  /\ Goto("snapshot", "mutating")
  /\ UNCHANGED <<serverVars, stateVars, call, snapshot, jobs, executionLock, answer, current,
                 target, old, unmarked, faults>>

\* A plan that is built from a snapshot which is gone is stale.
LockApply ==
  /\ Snap("locked") /\ applyLock = Nobody
  /\ IF snapshot = old
     THEN /\ applyLock' = "snapshot" /\ before' = jobs /\ todo' = Plan
          /\ Goto("snapshot", "mutating")
          /\ UNCHANGED <<executionLock, answer, target, old>>
     ELSE executionLock' = Nobody /\ EndPoll /\ UNCHANGED applyLock
  /\ UNCHANGED <<serverVars, stateVars, call, snapshot, jobs, current, unmarked, faults>>

Rank(k) == CASE target[k] = Absent -> 1
             [] ListedIn(old)[k] = Absent -> 3
             [] OTHER -> 2

NextKeys == {k \in todo : \A j \in todo : Rank(k) <= Rank(j)}

\* remove_job, update_job, add_job
MutateJob(k) ==
  /\ Snap("mutating") /\ k \in NextKeys
  /\ jobs' = [jobs EXCEPT ![k] = target[k]] /\ todo' = todo \ {k}
  /\ UNCHANGED <<serverVars, stateVars, call, snapshot, executionLock, applyLock, pc, answer,
                 current, target, old, before, unmarked, faults>>

\* An update removes before it adds, and a manual run's spec is recorded first.
MutationFails(k) ==
  /\ Snap("mutating") /\ k \in NextKeys /\ Fault("mutation")
  /\ \E v \in {jobs[k], Absent, target[k]} : jobs' = [jobs EXCEPT ![k] = v]
  /\ todo' = {} /\ Goto("snapshot", "restoring")
  /\ UNCHANGED <<serverVars, stateVars, call, snapshot, executionLock, applyLock, answer,
                 current, target, old, before, unmarked>>

\* _restore_jobs, and _remove_all_managed when that fails too.
Restore ==
  /\ Snap("restoring") /\ Goto("snapshot", "release")
  /\ \/ jobs' = before /\ NoFault /\ UNCHANGED call
     \/ Fault("restore") /\ jobs' = Nothing /\ Begin("snapshot", "restore")
  /\ UNCHANGED <<serverVars, stateVars, snapshot, executionLock, applyLock, answer,
                 planVars, unmarked>>

Commit ==
  /\ Snap("mutating") /\ todo = {}
  /\ snapshot' = target /\ Begin("snapshot", "applied") /\ Goto("snapshot", "release")
  /\ UNCHANGED <<serverVars, stateVars, jobs, executionLock, applyLock, answer, planVars,
                 unmarked, faults>>

Release ==
  /\ Snap("release")
  /\ executionLock' = Nobody /\ applyLock' = Nobody /\ EndPoll
  /\ UNCHANGED <<serverVars, stateVars, call, snapshot, jobs, current, unmarked, faults>>

(***************************************************************************)
(* A trigger, and what the dashboard does.                                 *)
(***************************************************************************)
\* The check of the state and the start are one step here; GroupExecution
\* takes them apart.
StartContext ==
  /\ State = "running" /\ executionLock = Nobody
  /\ snapshot # NoSnapshot /\ ~unmarked
  /\ unmarked' = TRUE
  /\ UNCHANGED <<serverVars, stateVars, call, syncVars, pc, answer, planVars, faults>>

EditSchedules ==
  /\ content' \in Listings \ {content}
  /\ UNCHANGED <<device, stateVars, call, syncVars, pc, answer, planVars, unmarked, faults>>

ToggleDevice ==
  /\ device' \in {"active", "inactive"} \ {device}
  /\ UNCHANGED <<content, stateVars, call, syncVars, pc, answer, planVars, unmarked, faults>>

StateManagerCall(t) == Mutate(t) \/ Publish(t) \/ Sweep(t) \/ Mark(t)

Apply == \/ HandleListing \/ LockExecution \/ LockApply
         \/ \E k \in Keys : MutateJob(k) \/ MutationFails(k)
         \/ Restore \/ Commit \/ Release

Thread(t) == \/ StateManagerCall(t)
             \/ Token(t) \/ Ask(t) \/ Answer(t) \/ Lose(t) \/ Handle(t)
             \/ t = "snapshot" /\ Apply

Next == \/ \E t \in Threads : Thread(t)
        \/ StartContext \/ EditSchedules \/ ToggleDevice

Spec == Init /\ [][Next]_vars
FairSpec == Spec /\ \A t \in Threads : WF_vars(Thread(t))

Matching == jobs = ListedIn(snapshot) \/ "restore" \in reasons

\* Whenever no plan is being applied, exactly the jobs that the current snapshot
\* lists are registered: none without one, the old ones after a compensation
\* (sync_coordinator.py:328-371).  A compensation that failed is excused.
JobsMatchSnapshot ==
  applyLock = Nobody => Matching

\* The failures that only a restart ends.
Persistent == {"credential_persist_failed", "restore"}

\* Whatever the answers and HALTED transitions have crossed, once the device
\* stays active and its content stays the same the agent gets to run exactly
\* that (timeweaver.py:262-401), unless only a restart can help.
SyncConverges ==
  \A l \in Listings :
    <>[](device = "active" /\ content = l)
      => <>[]((State = "running" /\ jobs = l) \/ reasons \cap Persistent # {})

\* test_every_halted_path_removes_managed_jobs_but_preserves_running_sequence:
\* an agent that is HALTED, with no call of the state manager under way, has
\* told every running context to stop (app.py:601-610).
HaltIsHandled ==
  State = "HALTED" /\ (\A t \in Threads : call[t] = NoCall) => ~unmarked

-----------------------------------------------------------------------------
(* The inductive invariant behind JobsMatchSnapshot. *)

\* Only the snapshot channel takes the locks, and it holds them for its plan.
LocksHeld ==
  /\ executionLock = "snapshot" <=>
       pc["snapshot"] \in {"locked", "mutating", "restoring", "release"}
  /\ applyLock = "snapshot" <=> pc["snapshot"] \in {"mutating", "restoring", "release"}

\* A thread that handles an answer has one, and a listing stays with the poll.
AnswersGot ==
  /\ \A t \in Threads : pc[t] = "handle" => answer[t] # "none"
  /\ \/ pc["snapshot"] = "handle" /\ answer["snapshot"] = "listing"
     \/ pc["snapshot"] \in {"apply", "locked", "mutating", "restoring", "release"}
     => target \in Listings

\* How far the jobs have gone from the old snapshot to the new one.
PlanUnderWay ==
  /\ pc["snapshot"] \in {"mutating", "restoring"} =>
       /\ call["snapshot"] = NoCall /\ snapshot = old
       /\ before = ListedIn(old) \/ "restore" \in reasons
  /\ pc["snapshot"] = "mutating" =>
       \/ jobs = [k \in Keys |-> IF k \in todo THEN ListedIn(old)[k] ELSE target[k]]
       \/ "restore" \in reasons
  /\ pc["snapshot"] = "release" =>
       \/ Matching
       \/ call["snapshot"].at = "mutate" /\ call["snapshot"].change = "restore"

SyncInv == TypeOK /\ LocksHeld /\ AnswersGot /\ PlanUnderWay /\ JobsMatchSnapshot
=============================================================================
