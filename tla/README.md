# TimeWeaver in TLA+

TimeWeaver runs scheduled and manual commands on remote devices. A server
(`server/`, FastAPI and MySQL) keeps schedule groups, their details and their
executions; an agent on each device (`agent/`, APScheduler) polls snapshots of
its groups, runs them and reports results; a dashboard (`client/`) edits
everything. This directory holds TLA+ models of the parts where threads,
requests and time interleave, the TLC runs that check them on small instances,
and proofs for every value of the constants.

Paths below are relative to `src/`.

## 1. Inventory

| Component | State | Operations | What is hard | What makes it correct |
|---|---|---|---|---|
| Execution store `server/repositories/agent_execution.py`, `server/services/agent/execution_service.py`, `claim_sweeper.py` | `manual_execution` (status, claim token, expiry), `execution_running`, `execution_log`, status of group and detail | claim, start, result (first, duplicate, refused), sweep | late and repeated requests, expiry of claims, sweeper against claim against result | one result per manual run, a status that agrees with the log, no result both stored and refused, an error stop applied once by requests, no claim for ever |
| Dashboard routes `server/routers/dashboard/{manual_execution,schedule,tasks}.py` | the same rows, and groups, details and tasks with their content | insert, edit, abandon, reactivate, reassign, remove | the operator acts on a list that is out of date; forms are hardly checked, agents check everything | what is written can be read as one snapshot; a run nobody overwrote keeps its result |
| Result outbox `agent/services/time_weaver/outbox.py` | slots, per-group queues, active and sending groups, timers, backlog latch | reserve, release, enqueue, drain, retry, wake, close | sender threads, timers, lost answers, HALTED | counters count, nothing lost that was not given up, order kept, no lost wake-up, close means closed |
| Group execution `agent/services/time_weaver/app.py` | `group_execution_status`, `task_completion_status`, `running_tasks` | trigger, next sequence, task, ack, rejection, stop | the barrier across answers in any order, refused slots, dropped jobs, snapshots in the middle | the barrier, no overlap of contexts, stops obeyed, groups end |
| Manual dispatch `app.py`, `scheduler_adapter.py` | inflight set, one-shot jobs, slots | schedule, fire, claim, execute, release | a claim refused for a passing reason, a mark that is never cleared, HALTED in between | only listed runs have jobs, marks mean claims, slots are given back, a run that was skipped is tried again |
| Operating state `operating_state.py` | reasons, state, event latches | credential, device, snapshot and heartbeat outcomes, publication | transitions published outside the lock | every HALTED transition reaches its listener |
| Snapshot synchronisation `sync_coordinator.py`, `scheduler_adapter.py`, `agent/timeweaver.py` | current snapshot, job specs, ETag | validate, plan, apply, compensate, remove all | two channels, half-applied plans, 304 while HALTED | jobs equal the snapshot or nothing runs |
| Agent runtime store `server/repositories/agent_runtime.py` | revisions, inventory | snapshot, heartbeat | three reads against concurrent writes, dense renumbering of sequences | a snapshot is the tables at one moment |
| Credential manager `credential_manager.py` and identity store `server/repositories/agent_identity.py` | credential file, access token, lock; enrollment tokens, credentials, device | enroll, refresh, rotate, save, discard; issue, revoke, remove | a crash or a lost answer between rotation and save, requests handled late, files that cannot be read or removed | the live credential in the file, memory never ahead of it, nothing good thrown away, access comes back |
| Task runner `task.py` | processes, files | run, archive, housekeeping | commands that hang | a result for every end |
| API client `api_client.py`, `models.py` | access token | HTTP exchanges, classification of failures | answers lost | permanent and transient failures told apart |
| Blocking executor, rate limiter `server/services/blocking.py`, `security/rate_limit.py` | permits, token buckets | submit, cancel, consume | cancellation releases a permit too early | work accepted within the permits |
| Log gate, observability, login, charts, administration, migrations, web client | counters, rows, files | CRUD, output | – | – |

How they interact: the agent's cron trigger starts a *context* of a group; for each
detail it reserves an outbox slot and schedules a date job; a task's end enqueues a
result; a sender thread posts it; the server stores it and may stop the group; the
answer's callback crosses the sequence barrier. Heartbeats keep the agent alive;
snapshots list manual runs, which it claims, and a claim is a lease the sweeper frees.
Snapshot polls rewrite the cron jobs. Every request needs an access token, which the
credential manager refreshes under its lock. Invalid credentials or devices put the
agent into HALTED, whose listener removes every job.

## 2. Modules

| Module | Models | Lines of the code's control it keeps |
|---|---|---|
| `ExecutionStore` | the server's execution tables, the dashboard's writes to them, agents as senders of late and repeated requests | every transaction of `agent_execution.py` |
| `ManualLease` | abstract: what the server promises about manual runs | – |
| `ResultDelivery` | abstract: what the outbox promises to the server and to the execution side | – |
| `ResultOutbox` | `ResultOutbox` of `outbox.py` | every section under its lock, each answer, each callback |
| `GroupRuns` | abstract: what a schedule group promises, context after context | – |
| `GroupExecution` | one schedule group on the agent, with the outbox, the server, snapshots and HALTED as it sees them | every section under `execution_lock`, each call of the outbox and of the scheduler |
| `AgentSync` | the agent's operating state, heartbeat and snapshot channels and the scheduler's jobs, against a server whose content and device change | every call of the state manager up to its listener, every step of a poll, each mutation of a plan |
| `Credentials` | the credential manager and the bootstrap of an agent, the server's identity store, operators and other installations | every transaction of `agent_identity.py`, every file operation, request and memory update of `credential_manager.py` |
| `ManualDispatch` | the agent's side of manual runs: adapter jobs, marks, claims, executions, results; composed with `ManualLease` as the server | `dispatch_manual` from the mark to the job, with what each way out does to mark and slot, the manual part of a plan, `schedule_pending_manuals` |
| `SnapshotContract` | what a snapshot contains and who refuses it: the writes of the dashboard and of results, the three reads of a poll, the answer, the agent's checks, the scheduler's | the writes to the tables a poll reads, the checks that what is in a table can fail |
| `ExecutionStoreProofs`, `ManualLeaseProofs`, `ResultOutboxProofs`, `GroupExecutionProofs`, `AgentSyncProofs`, `CredentialsProofs`, `ManualDispatchProofs`, `SnapshotContractProofs` | theorems and proofs | |
| `MC`… | one instance of each of the seven modules for TLC | |

How they fit together: `ExecutionStore` implements `ManualLease`, and `ManualDispatch`
takes `ManualLease` for its server, so that the agent's side is checked against what the
server is proved to promise. `ResultOutbox` implements `ResultDelivery`, and
`GroupExecution` assumes of the outbox what `ResultOutbox` shows of it: answers come in
a group's order (`ImplementsDelivery`), once as long as no timer overtakes its drain
(`HandedOverOnce`), and at last (`EventuallyAnswered`). `GroupExecution` in turn
implements `GroupRuns`. `AgentSync` takes a listing as given whose content
`SnapshotContract` opens up, and an access token as given whose life is `Credentials`.

### ExecutionStore

A transaction is one step. This is what the code's locks give: claims, starts
and results first lock the group's row, and the sweeper updates only manual
rows it has locked (`SKIP LOCKED`), so a sweep of some set of expired rows is
`SweepExpiredClaims(S)` for any non-empty set of them. A transaction that
deadlocks is rolled back and retried as a whole (`_run_retryable`), which adds
no state. The database's clock appears as `expiry` ("null", "future", "past")
with a step `LeaseExpires`; that a result reads the clock before it has the
lock only moves that step behind it. An execution stands for one result key
and, for a manual run, for its claim token, since the agent makes one
execution per granted claim. Agents promise nothing: a start signal is handled
at any later time, a result is sent whenever and as often as one likes, a claim's
answer may be lost (`BeginManual` never happens).

`RefreshList` and `offered` model the operator's browser: edits and
abandonments act on what the list showed when it was last fetched, since the
UPDATE statements have no condition on the row's present status. The history
variable `staleEdits` collects runs that were rewritten although the list was
out of date; promises about a run are made for the others.

The forms of groups and details write the status they carry. They are filled from a
list that may be as old as one likes, and their select keeps an "error" of the listed
row until another option is chosen, so `FormStatuses` offers "error" once the row has been
in error (`groupErred`, `detailErred`). A save can thus put a reactivated row back in
error without any result; `ErrorStopOnlyOnce` names this as the one way besides the first
storing of a failed scheduled result. No transaction reads the status of a group or
detail, so one choice besides "error" (`StatusChoices`) stands for the three of the
select.

### ManualLease

Open, held, closed. A claim is granted on an open run or on one whose claim has
lapsed; the holder of an unlapsed claim completes it; lapsed runs are reclaimed;
`Override` is the operator's out-of-date edit. `ExecutionStore` implements it
with the mapping `LeaseState`, `claimToken`, `Expired`, `LoggedFor`, `staleEdits`.

### ResultOutbox

A call of `_schedule_group` that has not yet taken the lock is a member of
`calls`: enqueue, wake, timers and the end of a drain make such calls from
different threads. They form a set because a second pending call of a group
has no effect after the first. `armed` counts started timer threads apart
from `timers`, the keys of `_retry_timers`, because a timer that is replaced
goes on, and because one may fire before the drain that armed it has run its
`finally` clause (an *overtaking* timer: Retry-After 0, or a sender that is held
up). That leads to two drains of one group, whose consequences the runs show.
A send is split into the server's decision (`StoreResult`, `RefuseResult`,
`Unauthorized`) and its answer's arrival (`Settle`) or loss (`LoseExchange`), so
the server may have stored what the agent sends again.

`_classify_failure` answers "remove" for every exception it does not know, also for one
the token provider raises inside the same `try` (an `OSError` of `store.remove()`), before
anything is sent, or one that reading a 2xx answer raises (`ChunkedEncodingError`), after the
server has stored the result. `GiveUpResult` is both: the result leaves its queue as if it had
been rejected. `dropped` collects what went that way without the server having
decided; the properties name it as the one exception.

### ResultDelivery

One history of results, in the order they were produced. A result is
*due* when every earlier one of its group is gone; it may be stored or refused only
while due, let go of only when settled, and answered only when gone. The sender may give
up a result that is due, which settles it, too. It may be sent and answered any number of
times. `ResultOutbox` implements it with `gone` mapped to
the jobs in state "removed"; queues, drains, timers, pool and latches are hidden.

### GroupExecution

`next` is a call of `execute_next_task` with how far it has come: slots are
reserved one by one, any reservation may be refused (other groups share the
outbox), then the sequence is entered in `task_completion_status`, then its date
jobs are added one by one, and one may raise. `phase` follows each detail of
each context. The outbox is one FIFO queue per context which hands over each
answer once. `halted`, `valid` and `listener` are the operating state as far as
a group meets it: a trigger has passed its check before HALTED came; the
listener removes jobs and marks contexts in two steps while everything goes on.

The faults that can be switched on are the scheduler dropping a date job that
waited longer than its default grace of a second ("misfire"), `add_job` raising
("failure"), a lost answer ("lost") and a result given up by the outbox ("unclassified").
Two exceptions that can follow an `add_job` that raised are collapsed: `release_slot` with
nothing reserved (`app.py:266-267`), which would skip the clearing of the call's entries, and
`enqueue` without a slot at the end of a task whose slot was given back.

### GroupRuns

A group is a succession of contexts. A context schedules a detail when all earlier
sequences are acknowledged; it *ends* when nothing of it is under way, or when its
scheduling failed (what has not begun is taken back, what has begun goes on), and then
schedules nothing more; the next context begins only when the last one has ended and is
settled. `GroupExecution` implements it with `Ended`: the latest context has ended when
`execute_next_task` has given up or no call is pending and `task_completion_status` has
no entry.

### AgentSync

Each thread (the two channels, and senders) has a `pc` for its cycle – token,
request, answer, what it does with the answer – and a `call` of the state manager,
which must end before the cycle goes on: `Begin` reads the previous state,
`Mutate` changes reasons and `_has_valid_snapshot` under the manager's lock, `Publish`
reads the state again, `Sweep` and `Mark` are the listener. Between any two of them
other threads run. `executionLock` and `applyLock` are the two locks
`apply_snapshot` holds; they are reentrant, so its own thread's listener may run
under them. The plan's mutations are single steps, removals before updates before
additions; one may fail, and the compensation may fail too.

A managed job is a key with a version; a listing is a function from keys to
versions and stands for its revision and ETag, too. `device_inactive` and
`device_revoked` are one reason, as every call that clears one clears the
other. HEALTHY and DEGRADED are one state (`running`), since both may execute.
The reason `needs_enrollment` comes from a request refused with 401 or an identity
that cannot be read, after which the credential file is still there; a file
that is lost belongs to the credential manager.

### Credentials

A credential is its row, its refresh token and its access tokens; enrolling
and rotating revoke what the device had. A thread's `pc` walks through
`ensure_access_token`: the look without the lock, `credential_lock`, the second
look, the file, the request, the file again (write, then memory). What a
thread has in `held` it knows from its answer only. A request whose client gave
up stays in `abandoned` and may be handled at any later time: a timed-out
refresh rotates the token behind the agent's back. A removal that raises is caught where the
file holds no credential (`credential_manager.py:267-270`); otherwise it ends a channel's
cycle, but in the bootstrap, where nothing catches it, the process (`ProcessEnded`), which then
waits for somebody to start it. The faults are lost answers, a
busy server, a read, a write or a removal that raises `OSError`, a damaged file and
a crash; `mishap` records that one of them, an operator or another
installation came between the file and the server. Access tokens go stale
(`AccessLapses`), credentials expire, operators pause or remove the device, pause
its group, issue and close enrollment tokens, and somebody may enroll
elsewhere with one.

### ManualDispatch

`pending` are the adapter's one-shot jobs, `inflight` its marks. `Apply` is the manual
part of a reconcile plan with all it does to both; `SchedulePending` is the call that
follows it. A poll that finds nothing new is answered 304 and does neither. `at` is the
place of a run's `dispatch_manual`: marked, then (looked up and with a slot) asking,
then granted. The claim is `Lease!Acquire`; the result `Lease!Complete`, a refusal when
the lease has lapsed and been taken away, or given up by the outbox. A granted run goes
on as a job, or, when `add_job` raises, is executed at once; the ways out of
`dispatch_manual` that do the same to mark and slot (a lost claim, an answer without a
token, an unknown exception) are one. `listed` says whether an operator has shelved the
run or hidden its group or detail; `overridden` is the lease's own history.

### SnapshotContract

A detail has a row and a task; a form gives both in one transaction
(`InsertTask`, `UpdateTask`). Nothing on the way checks a name, a number, a task's required
fields (but an archive's type) or a cron expression, so the response model (`Unserialisable`: a
task without a type is a 500), `Valid` (the agent's `validate_snapshot`) and
`TriggerAccepts` (what APScheduler's cron trigger does not raise at) refuse a snapshot as a
whole for one row. `RenameDevice` does so for every row: the agent compares the name with
the one in its credential file, and a rotation brings no new name
(`identity_service.py:173`). Results write, too: `ErrorStop` takes a group or detail out of
the listing, `EndManual` a manual run.

The three reads of a poll run in one transaction (`view` is the read view MySQL's
REPEATABLE READ gives its first read). A cron expression is one field with up to three
numbers, "first-last/step", and `known`, who knows all of its words and signs: the agent's list
has "?", the scheduler's "last". A number is compared with the end of the expression's text to
tell a step from a value, and `EndsWith` does that in arithmetic. That check takes the 0
of "0/10" for a step and refuses it, though it is a good expression; `ZeroStep` names
this case. A detail's own expression is checked by the agent but never becomes a trigger. A
restored snapshot is one the agent accepted and the scheduler did not. `Sorted` is the order
in which the rows are gone through (group, sequence, and the detail's id last, so that no two
are equal) and `DenseRank` the loop over them that numbers the sequences of each group.

Abstracted: the field that is modelled has one element (no comma lists); the columns' NOT
NULL keeps names and sequences from being null; a manual run has a date, as the form always
sends one; the device stays active. The checks of an answer that only a broken server could
fail (format of revision and ETag, repeated ids) are left out, and polls that get no answer or
a 304 are `AgentSync`'s.

## 3. Runs

| Run | Shows | States |
|---|---|---|
| `store` | `CompletionMatchesLog`, `RefusedIsNeverLogged`, `ErrorStopOnlyOnce`, `NoClaimHoldsForever`, `ImplementsLease` for a manual run of a detail that a schedule also runs, with two devices and forms that are saved late | 581,984 |
| `outbox` | `SlotAccounting`, `NothingLost`, `StoredInOrder`, `HandedOverOnce`, `EventuallyAnswered` (no lost wake-up) and `ImplementsDelivery` with two senders and one mishap: an overtaking timer or a result given up | 328,052 |
| `group` | `SequenceBarrier`, `ContextsDoNotOverlap`, `RunsOnce`, `ImplementsRuns` under every fault, two contexts | 1,206,670 |
| `group_progress` | `SlotsMatchWork`, `ErrorStopEndsContext`, `GroupEnds` with date jobs the scheduler may drop and results the outbox may give up | 55,732 |
| `group_lost_stop` | violated: the answer with an error stop is lost, its duplicate carries no transitions, the next sequence runs | |
| `group_reactivate` | violated: a group reactivated before the next poll is never registered again | |
| `sync` | `JobsMatchSnapshot` whatever crosses; `SyncConverges`: the agent comes to run what the server lists | 760,500 |
| `sync_halt` | violated: two overlapping calls of the state manager hide a transition to HALTED from its listener, and a context runs on unmarked | |
| `credentials` | `UsableIsStored`, `LiveIsStored`, `DiscardOnlyDead`, `RotatesOnlyWhenStale` and `AccessRegained` with two channels, the bootstrap, operators and a fault of any kind | 520,060 |
| `manual` | `SlotsMatchWork`, `MarkedWasClaimed`, `PendingIsManaged` and `SkippedIsRetried` for a run with up to three claims, two faults and an edit | 389,604 |
| `manual_stuck` | violated: a claim is refused once because the server is busy, every later poll is a 304, and the run waits for ever | |
| `snapshot` | `NeverInconsistent`, `TakenAsListed`, `RefusedForCause` for every write crossed with the reads of a poll, with every kind of fault a form can have | 220,761 |

A violated property states what a document, a comment or a test of the
repository says; PROJECT.json quotes it under "findings".

Bounds, and why they are enough:

- `MaxExecutions = 2` with one manual run: two claims of the same run, or a
  manual and a scheduled execution of one detail, are what the races are between;
  two devices allow reassignment between a claim and its result. Keys are random
  in the code; the model uses them in order, which loses nothing, as they are
  only compared for equality.
- Two jobs, two senders, capacity 2: the outbox gets full, the backlog latch goes up and
  down, and two drains can hold two different items. The second drain needs one
  overtaking timer, and a result that is given up needs one exception; both count
  against `MaxMishaps = 1` in the model and are unbounded in the proofs. That a full
  outbox refuses a third job is left to the proof, which has any capacity.
- Three details in two sequences: a barrier with two answers to wait for, and a
  last sequence. Two contexts (`MaxContexts = 2`) for overlaps; one where
  liveness is asked. `MaxFaults = 1`: each finding needs one. `group_progress`
  has two faults, misfires and given-up results; the others break its properties (see
  section 4).
- Two listings such that going from one to the other leaves a job, updates one and
  adds or removes one; two faults (`MaxFaults = 2`), as a compensation that fails
  needs a mutation that failed. `sync` has the two channels as its threads; with a
  sender as a third and one fault its invariants hold, too (11 million states for
  two keys, too long for a routine run). `sync_halt` has all three.
- `credentials`: two channels, so that one waits while the other refreshes; two
  enrollment tokens, one for the agent and one for somebody else; five credentials,
  as many as can be referred to at once; one fault of any kind.
- `manual`: one run with three claims, so that a lease can lapse while its execution
  goes on and a third claim follow, with two faults and one edit. That several
  runs share the slots is left to the proofs.
- `snapshot`: two edits, which fall before, between or after the reads of a poll; two
  groups, three details of which one is new, forms with one fault of every kind. The
  field is the minute; the proofs have any field and any forms.
- `store`: `StatusChoices` has one member, as nothing reads which it is.
- Deadlock is not checked (but in `snapshot`, which never stops): once bounded histories
  are used up, and after `close`, the systems really stop.

Fairness, and why the code justifies it:

- Store: time passes (`LeaseExpires`) and the sweeper thread runs every minute
  (`claim_sweeper.py`). Nothing is assumed of agents, network or operators.
- Outbox: threads and timers run, heartbeats come round (`Wake`). A result that
  is sent again and again is stored at last and its answer arrives at last
  (strong fairness), as retries are unlimited; one that is given up is answered as rejected.
- Group: threads run, date jobs fire, commands end, snapshots are polled, a HALTED
  agent recovers at last, and a queued result is answered at last, which is what
  `EventuallyAnswered` says of the outbox. Cron triggers are not fair: nothing
  needs them.
- Sync: each thread goes on (weak fairness); both channels are interval jobs that
  are installed for good (`timeweaver.py` `_install_periodic_jobs`), and the locks are
  held for short sections only. Content and device are free; `SyncConverges` asks
  for convergence only once they stay as they are.
- Credentials: the agent's threads run, a request ends (by an answer or a timeout),
  and every access token goes stale at last. Nothing is assumed of operators,
  other installations or faults. `AccessRegained` asks for access only once device
  and group stay active, and only of an agent that has not lost its credential where it
  cannot enroll and whose process has not ended for good: nobody is assumed to start it again.
- Manual: polls, jobs, tasks and results go on; `granted # Claims` in the properties keeps
  the bound on claims from counting as a failure.

## 4. Proofs

For all values of the constants that satisfy the modules' named assumptions
(`StoreAssumption`, `OutboxAssumption`, `GroupAssumption`, `SyncAssumption`,
`CredentialAssumption`, `DispatchAssumption`, `ContractAssumption`):

- `ManualLeaseProofs`: `LeaseCompletedOnce` – a run nobody overrode is completed by
  at most one claim and stays closed. `CompletedOnce` alone is not inductive;
  `LeaseInv` adds the types (`LeaseType`) and that only a held run is lapsed, so that
  a closed run is never reclaimed.
- `ExecutionStoreProofs`: `StoreTypeCorrect`; `StoreInvariant` (`StoreInv`), whose
  parts are `UnusedIsBlank`, `LogIsOutcome`, `TokenIsPending` (a token in a row,
  whatever its status, is of an execution without a result: this is what keeps
  a second result out after an expired claim is granted again),
  `ProcessingIsClaimed`, `RefusedForGood` (a refused result can never become
  acceptable) and `CompletionMatchesLog`; from it `StoreCompletionMatchesLog`,
  `StoreRefusedIsNeverLogged`, `StoreErrorStopOnlyOnce` (for any choice of statuses; a
  form can bring back only an error that a stored failure caused) and
  `StoreImplementsLease`, the refinement, proved as Init and step by step: each
  step of the store is a step of the lease or leaves it unchanged.
- `ResultOutboxProofs`: `OutboxInvariant` (`OutboxInv`) and its consequences
  `OutboxTypeCorrect`, `OutboxSlotAccounting`, `OutboxNothingLost` and
  `OutboxStoredInOrder`, for any number of groups, results and threads, with unboundedly
  many timers in flight and results given up at any time. Besides the properties it
  needs: a sender's item is queued or gone and, if answered, stored or refused at the
  server or given up (`SendersHold`); queues hold queued jobs of their group, each once
  (`QueuesHoldQueued`); queues are in the order of the history (`OrderIsHistory`); what
  is sent or stored is the oldest of its group that is left (`SentInOrder`); a
  registered timer is armed (`TimersArmed`). A second invariant on top of it
  (`DeliveryInv`) gives `OutboxHandsOverOnce` and the refinement
  `OutboxImplementsDelivery`. It says that an answer in hand is of a result that has
  left its queue (`AnswersOfGone`), that every result is in the history
  (`HistoryIsComplete`), and, while no timer has overtaken its drain, that a group is in
  one place only among pool and threads and active while it is there (`OneDrain`): a
  drain that has deferred is not active any more, but its timer is still registered,
  which keeps `_schedule_group` out until it has ended. Hence what is in hand was not
  answered before (`InHandIsNew`). That a removal lets go of exactly the item that was
  sent (`SettleLetsGo`) holds with overlapping drains too: an item that is still queued
  is at the head, since it is the oldest. The refinement needs no bound on overtaking
  timers or given-up results.
- `AgentSyncProofs`: `SyncInvariant` (`SyncInv`), `SyncTypeCorrect` and
  `SyncJobsMatchSnapshot`, for any jobs, contents and senders of results and any number
  of faults. `JobsMatchSnapshot` says nothing while a plan holds the apply lock,
  so the invariant adds that the snapshot poll holds its two locks exactly from the
  phase that takes each to the one that releases it (`LocksHeld`: no sweep can take the jobs
  away in between), that the listing it applies stays with it (`AnswersGot`), and
  that under way the jobs are the old ones for the keys still to do and the new ones for
  the rest (`PlanUnderWay`); the commit and a compensation then both end at the
  snapshot they leave behind.

- `GroupExecutionProofs`, for any details, sequences, contexts and faults: `GroupOrder`
  (`Order`) says that one sequence is under way – the one the pending call of
  `execute_next_task` is about to start (`Calling`, `Reserving`, `Scheduling`) or
  the one that waits for answers (`Waiting`) –, that all before it are acknowledged and
  all after it untouched, that a finished context rests (`Resting`, `AtRest`), that the
  queue holds finished details, each once (`QueuesHoldFinished`), and that a refused
  result stops its context (`RefusalStops`). `GroupSequenceBarrier` and
  `GroupContextsDoNotOverlap` are parts of it and hold under every fault.
  `GroupTypeOK` and `GroupSlotsMatchWork` add the counts (`Accounted`): slots are
  exactly what work and reservations need (`Exact`) unless `add_job` has raised
  (`Overreleased`), since the handler gives back the slots of jobs it has
  added and that may have run. `SlotsMatchWork` is therefore proved for
  `"failure" \notin Faults`. `GroupErrorStopEndsContext` (`Stops`) is proved for
  `"lost" \notin Faults`; `group_lost_stop` shows that it fails otherwise. It needs that
  an answer under way or already handled tells of its stop (`StopIsKnown`).
  `GroupRunsOnce` is an action property that follows from `Order`: the details a call is
  about to schedule are untouched, and the one whose answer is finished has ended.
  `GroupImplementsRuns` is the refinement of `GroupRuns`, action by action: a start is
  `Begin`, a refused slot `End`, a failing `add_job` `TakeBack` (all that is scheduled is of
  one sequence, whose entry is the only one), and the last answer of a sequence either
  leaves the context open for the next or ends it with nothing outstanding.
- `CredentialsProofs`: `CredentialsInvariant` (`IInv`) and from it
  `CredentialsTypeCorrect`, `CredentialsUsableIsStored`, `CredentialsLiveIsStored`,
  `CredentialsDiscardOnlyDead` and `CredentialsRotatesOnlyWhenStale`, for any channels,
  tokens and number of faults. The invariant ties `lock` to the places inside the `with`
  block (`LockOwner`), keeps bootstrap and channels apart (`OneAtWork`), says what a
  thread knows of the credential in its hand (`Hands`), that at most one credential is
  live, that nobody has access while one is renewed (`NoAccess`: this is the second look
  under the lock), and that no late request can rotate the credential in use
  (`NotAbandoned`).
- `ManualDispatchProofs`: `DispatchInvariant` (`IInv`) and from it
  `DispatchTypeCorrect`, `DispatchSlotsMatchWork`, `DispatchMarkedWasClaimed`,
  `DispatchPendingIsManaged`, for any runs, claims, capacity, faults and edits. It
  adds that a dispatch holds a claim exactly once it was granted (`InHand`) and that
  only granted claims are executed (`ExecutesGranted`).
- `SnapshotContractProofs`, for any tables, forms and number of writes: `SnapshotTypeOK`,
  `SnapshotNeverInconsistent`, `SnapshotTakenAsListed` and `SnapshotRefusedForCause`.
  The invariant (`ContractInv`) holds that the tables and the read view pair every detail
  with its task (`PollInv`) and that what a poll has read so far is what its view lists
  (`ReadSoFar`). The end of a poll then rests on three facts about the operators: the order
  `Sorted` chooses exists (`SortedExists`: each row's place is the number of rows before
  it, so that places are distinct and there are enough), the loop numbers each detail by the
  number of distinct sequences met in its group (`DenseRankCounts`, by the least place where
  it would not, as induction is not at hand), and those met are the ones up to its own
  (`MetIsSequences`). `AnswerIs` puts them together, `AnswerValid` shows that the agent's
  checks find fault with the answer only for a cause in the tables, whatever the ranks, and
  `CronIsTaken` which expressions both the agent and the scheduler take.
  `AcceptedCronsParse`: for all numbers and any field, an expression the
  scheduler accepts and whose words the agent knows passes the agent's comparison of texts,
  unless it is of the form `ZeroStep`.

Only model-checked: every liveness property (`NoClaimHoldsForever`,
`EventuallyAnswered`, `GroupEnds`, `ActiveIsRegistered`, `SyncConverges`,
`AccessRegained`, `SkippedIsRetried`, `WaitingIsClaimed`), as liveness under fairness is
beyond the prover; and `HaltIsHandled`, which the code violates. Every other property of
the passing runs is proved, `SlotsMatchWork` and `ErrorStopEndsContext` of a group under
the named conditions on `Faults`.

## 5. Observations without a run

Met while modelling, and visible in the models, but not stated as a run of their own:

- A manual run that is done can be set back to wait from a list that is out of date
  (`staleEdits` in `ExecutionStore`): the UPDATE has no condition on the status.
- A result is given up for good when the outbox meets an exception it does not know, such
  as an `OSError` while the token provider removes a dead credential (`GiveUpResult`,
  `outbox.py:435`): its execution stays "running" at the server and a manual run's lease
  lapses.
- An edit form opened while a group or detail was in error puts it back in error when it
  is saved after somebody else has reactivated it (`UpdateSchedule`, `UpdateTask`).
- An `OSError` while the bootstrap removes a dead credential ends the process
  (`ProcessEnded`), though the docstring of `bootstrap` (`timeweaver.py:182`) says it never
  terminates the process on failure.
- A device renamed on the dashboard has every fresh snapshot refused by its agent, until it
  enrolls again or gets its old name back (`RenameDevice`).
- After an overtaking timer `close` may report its sends as drained while the other
  drain of the group goes on (`EndClose` in `ResultOutbox`).
- Date jobs of a group have APScheduler's default grace of a second
  (`app.py:238-255`), while cron jobs have `REGULAR_MISFIRE_GRACE`. A date job that is
  dropped leaves its group running and its slot taken (`GroupEnds` and
  `SlotsMatchWork` make the exception).

## 6. Not modelled

- The length of delays (`RetryBackoff`, jitter, Retry-After): a timer fires at any
  time. What matters here is only whether it fires before its drain has ended.
- Backlog events: the late latch of `_emit_event_once` is in `EmitBacklog`, but only an
  event's delivery depends on it, and no property asks for it.
- Requests that arrive late after their client gave up: in the store every
  request is late by construction, in `Credentials` they are `abandoned`; in the outbox
  a lost exchange may have been stored, but is not stored later.
- The composition of two drains of one group with `GroupExecution`: an answer
  handed over twice, which takes a timer that overtakes its drain (`HandedOverOnce`).
- Groups and manual runs share one outbox; each module sees the other as slots
  that are refused.
- Bootstrap beyond enrollment: the other models start when the periodic jobs are
  installed. Back-off of the channels only delays a cycle.
- The blocking executor's permits and the rate limiter: small, and apart from all
  that executes.
- Content: commands, archives, messages, the other envelopes, SQL of lists, login,
  charts, migrations, the web client's rendering.

## 7. Plan

The seven modules, the three abstract ones they implement (`ManualLease`,
`ResultDelivery`, `GroupRuns`) and the proofs of their safety properties are done. What is
left, in this order:

1. `OutboxGroup`: `ResultDelivery` composed with the callbacks of `GroupExecution`,
   with an answer handed over twice after an overtaking timer.
2. Permits of the blocking executor against the work it runs, and the rate
   limiter's token bucket in integer arithmetic.
3. `RetryBackoff` and the failure log gate as operators against reference
   definitions.
