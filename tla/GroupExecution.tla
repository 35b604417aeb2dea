--------------------------- MODULE GroupExecution ---------------------------
(***************************************************************************)
(* How the agent runs one schedule group (agent app.py): the cron trigger  *)
(* starts a context, the details of a sequence are scheduled together, and *)
(* the next sequence starts when the server has acknowledged every result  *)
(* of this one (the sequence ACK barrier).                                 *)
(*                                                                         *)
(* One step is one section under execution_lock, one call of the outbox or *)
(* of the scheduler, or one answer of the server.  The outbox is seen from *)
(* here as a FIFO queue per context that hands over each answer once.      *)
(***************************************************************************)
EXTENDS Integers, Sequences, FiniteSets

CONSTANTS
  Details,       \* the details of the group
  SequenceOf,    \* exec_sequence
  MaxContexts,   \* bound: contexts started; bounds the history
  Faults,        \* the faults considered: "misfire" (the scheduler drops a job),
                 \* "failure" (add_job raises), "lost" (an answer of the server),
                 \* "unclassified" (an exception ends the delivery of a result)
  MaxFaults      \* bound: how many faults happen

ASSUME GroupAssumption ==
  /\ IsFiniteSet(Details) /\ Details # {}
  /\ SequenceOf \in [Details -> Nat]
  /\ MaxContexts \in Nat /\ MaxFaults \in Nat
  /\ Faults \subseteq {"misfire", "failure", "lost", "unclassified"}

Contexts == 1 .. MaxContexts

VARIABLES
  context,     \* group_execution_status: the latest context, 0 if none
  busy,        \* running_tasks
  stop,        \* its stop_after_current_sequence
  excluded,    \* details exclude_task took out of it
  open,        \* task_completion_status: the sequences it has an entry for
  awaited,     \* ... and the details listed in the entries
  next,        \* a call of execute_next_task, and how far it has come
  phase,       \* what has become of each detail in each context
  slots,       \* outbox slots reserved for the group
  queue,       \* the outbox queue of each context
  reply,       \* the delivery of each queue's head
  logged,      \* the server: executions whose result is stored
  stoppers,    \* history: executions whose result stopped the group
  serverGroup, \* the server: schedule_group.status
  edited,      \* the server: the group's content differs from the agent's snapshot
  snapshot,    \* the agent's snapshot lists the group, does not, or there is none
  registered,  \* the cron job of the group exists
  trigger,     \* a trigger has passed the check of execution_allowed
  halted, valid, \* operating state: a fail-closed reason, _has_valid_snapshot
  listener,    \* how far the listener of a HALTED transition has come
  faults       \* history: how many faults happened

contextVars == <<context, busy, stop, excluded, open, awaited>>
workVars == <<phase, slots, queue, reply>>
serverVars == <<logged, stoppers, serverGroup, edited>>
syncVars == <<snapshot, registered, halted, valid, listener>>
vars == <<contextVars, next, workVars, serverVars, syncVars, trigger, faults>>

Finished == {"ok", "error"}   \* the result, 0 or not, is in the outbox
Phases == {"idle", "scheduled", "running"} \cup Finished \cup {"acked", "rejected", "missed"}
NoCall == [at |-> "none", tasks |-> {}, held |-> 0]
NoReply == [at |-> "none", what |-> "plain"]
Answers == {"plain", "groupStop", "detailStop", "refused"}

TypeOK ==
  /\ context \in 0 .. MaxContexts
  /\ busy \in BOOLEAN /\ stop \in BOOLEAN
  /\ excluded \subseteq Details /\ awaited \subseteq Details
  /\ open \subseteq {SequenceOf[d] : d \in Details}
  /\ next \in [at : {"none", "reserve", "schedule", "giveup"}, tasks : SUBSET Details,
               held : 0 .. Cardinality(Details)]
  /\ phase \in [Contexts -> [Details -> Phases]]
  /\ slots \in -Cardinality(Details) .. Cardinality(Details)
  /\ queue \in [Contexts -> Seq(Details)]
  /\ reply \in [Contexts -> [at : {"none", "sent", "finish", "call"}, what : Answers]]
  /\ logged \subseteq Contexts \X Details /\ stoppers \subseteq logged
  /\ serverGroup \in {"active", "error"} /\ edited \in BOOLEAN
  /\ snapshot \in {"none", "without", "with"}
  /\ registered \in BOOLEAN /\ trigger \in BOOLEAN
  /\ halted \in BOOLEAN /\ valid \in BOOLEAN
  /\ listener \in {"idle", "remove", "mark"}
  /\ faults \in 0 .. MaxFaults

\* The agent has started and applied its first snapshot.
Init ==
  /\ context = 0 /\ busy = FALSE /\ stop = FALSE
  /\ excluded = {} /\ open = {} /\ awaited = {}
  /\ next = NoCall
  /\ phase = [c \in Contexts |-> [d \in Details |-> "idle"]]
  /\ slots = 0
  /\ queue = [c \in Contexts |-> <<>>]
  /\ reply = [c \in Contexts |-> NoReply]
  /\ logged = {} /\ stoppers = {}
  /\ serverGroup = "active" /\ edited = FALSE
  /\ snapshot = "with" /\ registered = TRUE /\ trigger = FALSE
  /\ halted = FALSE /\ valid = TRUE /\ listener = "idle"
  /\ faults = 0

-----------------------------------------------------------------------------
(* Starting a context *)

InSequence(s) == {d \in Details : SequenceOf[d] = s}
\* Mutant: the sequence that has ended comes next.
After_Itself(s) == {SequenceOf[d] : d \in {e \in Details : SequenceOf[e] >= s}}
After(s) == {SequenceOf[d] : d \in {e \in Details : SequenceOf[e] > s}}
First(S) == CHOOSE s \in S : \A r \in S : s <= r
SetPhase(c, d, p) == phase' = [phase EXCEPT ![c][d] = p]
Fault(kind) == kind \in Faults /\ faults < MaxFaults /\ faults' = faults + 1

\* execute_next_task is called; a sequence without details makes it return False.
Call(s) ==
  LET tasks == InSequence(s) \ excluded'
  IN next' = [at |-> IF tasks = {} THEN "giveup" ELSE "reserve", tasks |-> tasks, held |-> 0]

\* The cron job fires and start_group_execution finds that it may execute.
TriggerFires ==
  /\ registered /\ ~trigger
  /\ ~halted /\ valid
  /\ context < MaxContexts
  /\ trigger' = TRUE
  /\ UNCHANGED <<contextVars, next, workVars, serverVars, syncVars, faults>>

\* Mutant: running_tasks is not consulted.
MayStart_Overlaps == snapshot = "with" /\ context < MaxContexts

\* The group is not running and the snapshot of this moment still lists it.
MayStart == ~busy /\ snapshot = "with" /\ context < MaxContexts

\* Its locked section, any time after that check.
StartGroup ==
  /\ trigger
  /\ trigger' = FALSE
  /\ IF MayStart
     THEN /\ context' = context + 1
          /\ busy' = TRUE /\ stop' = FALSE
          /\ excluded' = {} /\ open' = {} /\ awaited' = {}
          /\ Call(First({SequenceOf[d] : d \in Details}))
     ELSE UNCHANGED <<contextVars, next>>
  /\ UNCHANGED <<workVars, serverVars, syncVars, faults>>

-----------------------------------------------------------------------------
(* execute_next_task, in the trigger's thread or in a sender's *)

ReserveSlot ==
  /\ next.at = "reserve" /\ next.held < Cardinality(next.tasks)
  /\ next' = [next EXCEPT !.held = @ + 1]
  /\ slots' = slots + 1
  /\ UNCHANGED <<contextVars, phase, queue, reply, serverVars, syncVars, trigger, faults>>

\* Mutant: the slots that were reserved before the refusal are kept.
SlotRefused_KeepsSlots ==
  /\ next.at = "reserve" /\ next.held < Cardinality(next.tasks)
  /\ next' = [NoCall EXCEPT !.at = "giveup"]
  /\ stop' = TRUE
  /\ UNCHANGED <<context, busy, excluded, open, awaited, workVars, serverVars, syncVars, trigger,
                 faults>>

\* Other groups and manual runs fill the outbox too, so a refusal may come anywhere.
SlotRefused ==
  /\ next.at = "reserve" /\ next.held < Cardinality(next.tasks)
  /\ next' = [NoCall EXCEPT !.at = "giveup"]
  /\ slots' = slots - next.held
  /\ stop' = TRUE
  /\ UNCHANGED <<context, busy, excluded, open, awaited, phase, queue, reply, serverVars,
                 syncVars, trigger, faults>>

\* The call has returned False.
GiveUp ==
  /\ next.at = "giveup"
  /\ next' = NoCall
  /\ busy' = FALSE
  /\ UNCHANGED <<context, stop, excluded, open, awaited, workVars, serverVars, syncVars, trigger,
                 faults>>

\* The sequence's entry in task_completion_status; from here on "tasks" are
\* those to be scheduled, and "held" counts the slots of the whole sequence.
OpenSequence ==
  /\ next.at = "reserve" /\ next.held = Cardinality(next.tasks)
  /\ next' = [next EXCEPT !.at = "schedule"]
  /\ open' = open \cup {SequenceOf[d] : d \in next.tasks}
  /\ awaited' = awaited \cup next.tasks
  /\ UNCHANGED <<context, busy, stop, excluded, workVars, serverVars, syncVars, trigger, faults>>

\* A date job, one second ahead.
ScheduleDetail(d) ==
  /\ next.at = "schedule" /\ d \in next.tasks
  /\ next' = IF next.tasks = {d} THEN NoCall ELSE [next EXCEPT !.tasks = @ \ {d}]
  /\ SetPhase(context, d, "scheduled")
  /\ UNCHANGED <<contextVars, slots, queue, reply, serverVars, syncVars, trigger, faults>>

\* Mutant: the sequence keeps its entry, as if its answers still counted.
ScheduleFails_KeepsEntry ==
  LET s == SequenceOf[CHOOSE d \in next.tasks : TRUE]
  IN /\ next.at = "schedule"
     /\ Fault("failure")
     /\ next' = NoCall
     /\ phase' = [phase EXCEPT ![context] = [d \in Details |->
                    IF SequenceOf[d] = s /\ @[d] = "scheduled" THEN "idle" ELSE @[d]]]
     /\ slots' = slots - next.held
     /\ awaited' = awaited \ InSequence(s)
     /\ stop' = TRUE
     /\ UNCHANGED <<context, busy, excluded, open, queue, reply, serverVars, syncVars, trigger>>

\* add_job raises.  What was scheduled and has not fired is removed again, every
\* slot of the sequence is released, and the exception leaves running_tasks set.
\* (If results have taken over slots meanwhile, a release may find none and raise.)
ScheduleFails ==
  LET s == SequenceOf[CHOOSE d \in next.tasks : TRUE]
  IN /\ next.at = "schedule"
     /\ Fault("failure")
     /\ next' = NoCall
     /\ phase' = [phase EXCEPT ![context] = [d \in Details |->
                    IF SequenceOf[d] = s /\ @[d] = "scheduled" THEN "idle" ELSE @[d]]]
     /\ slots' = slots - next.held
     /\ open' = open \ {s}
     /\ awaited' = awaited \ InSequence(s)
     /\ stop' = TRUE
     /\ UNCHANGED <<context, busy, excluded, queue, reply, serverVars, syncVars, trigger>>

-----------------------------------------------------------------------------
(* Tasks *)

\* execute_task begins.
JobFires(c, d) ==
  /\ phase[c][d] = "scheduled"
  /\ SetPhase(c, d, "running")
  /\ busy' = TRUE
  /\ UNCHANGED <<context, stop, excluded, open, awaited, next, slots, queue, reply,
                 serverVars, syncVars, trigger, faults>>

\* All threads of the scheduler's pool are taken for longer than the default
\* misfire_grace_time of a second, and the job is dropped.
JobMisfires(c, d) ==
  /\ phase[c][d] = "scheduled"
  /\ Fault("misfire")
  /\ SetPhase(c, d, "missed")
  /\ UNCHANGED <<contextVars, next, slots, queue, reply, serverVars, syncVars, trigger>>

\* The task ends, well or not, and its result is enqueued.
FinishTask(c, d) ==
  /\ phase[c][d] = "running"
  /\ \E code \in Finished : SetPhase(c, d, code)
  /\ slots' = slots - 1
  /\ queue' = [queue EXCEPT ![c] = Append(@, d)]
  /\ UNCHANGED <<contextVars, next, reply, serverVars, syncVars, trigger, faults>>

-----------------------------------------------------------------------------
(* Delivery of results *)

\* The drain is at the head of the queue; a callback that called execute_next_task
\* has to return first.
Sending(c) ==
  /\ queue[c] # <<>> /\ ~halted
  /\ reply[c].at = "none" \/ (reply[c].at = "call" /\ next = NoCall)

\* Mutant: the group gets a status that only manual runs have.
StopGroup_Failed(e) == serverGroup' = "failed" /\ stoppers' = stoppers \cup {e}

StopGroup(e) == serverGroup' = "error" /\ stoppers' = stoppers \cup {e}

\* The server stores the result of the queue's head, or answers that it is a
\* duplicate.  A failure may stop the group or the detail (is_error_stop).
StoreResult(c) ==
  LET e == <<c, Head(queue[c])>>
  IN /\ Sending(c)
     /\ \E what \in IF phase[c][e[2]] = "error" /\ e \notin logged
                    THEN {"plain", "groupStop", "detailStop"} ELSE {"plain"} :
          /\ reply' = [reply EXCEPT ![c] = [at |-> "sent", what |-> what]]
          /\ IF what = "groupStop" THEN StopGroup(e) ELSE UNCHANGED <<serverGroup, stoppers>>
     /\ logged' = logged \cup {e}
     /\ UNCHANGED <<contextVars, next, phase, slots, queue, edited, syncVars, trigger,
                    faults>>

Refused(c) == reply' = [reply EXCEPT ![c] = [at |-> "sent", what |-> "refused"]]

\* A permanent rejection.
RefuseResult(c) ==
  /\ Sending(c)
  /\ <<c, Head(queue[c])>> \notin logged
  /\ Refused(c)
  /\ UNCHANGED <<contextVars, next, phase, slots, queue, serverVars, syncVars, trigger,
                 faults>>

\* An exception that the outbox does not classify, before a request or out of the
\* answer, counts as a rejection, whatever the server has stored.
GiveUpResult(c) ==
  /\ Sending(c) \/ reply[c].at = "sent"
  /\ Fault("unclassified")
  /\ Refused(c)
  /\ UNCHANGED <<contextVars, next, phase, slots, queue, serverVars, syncVars, trigger>>

\* The outbox sends the same result again later.
LoseReply(c) ==
  /\ reply[c].at = "sent"
  /\ Fault("lost")
  /\ reply' = [reply EXCEPT ![c] = NoReply]
  /\ UNCHANGED <<contextVars, next, phase, slots, queue, serverVars, syncVars, trigger>>

\* Mutant: a group transition only removes the cron job.
StopsContext_OnlyRefused(what) == what = "refused"

StopsContext(what) == what \in {"groupStop", "refused"}

\* handle_result_ack or handle_result_rejection, up to _finish_detail.  They look
\* the group up and apply what they were told to its context of that moment.
HandleAnswer(c) ==
  LET what == reply[c].what
  IN /\ reply[c].at = "sent"
     /\ reply' = [reply EXCEPT ![c].at = "finish"]
     /\ stop' = (stop \/ StopsContext(what))
     /\ excluded' = IF what = "detailStop" THEN excluded \cup {Head(queue[c])} ELSE excluded
     /\ registered' = (registered /\ what # "groupStop")
     /\ UNCHANGED <<context, busy, open, awaited, next, phase, slots, queue, serverVars,
                    snapshot, halted, valid, listener, trigger, faults>>

\* Mutant: any answer of the sequence takes the group across the barrier.
SequenceOver_AnyAnswer(d) == SequenceOf[d] \in open

\* d was the last detail its sequence waited for.
SequenceOver(d) == SequenceOf[d] \in open /\ awaited \cap InSequence(SequenceOf[d]) \subseteq {d}

Continues(c, d) ==
  /\ SequenceOver(d)
  /\ reply[c].what # "refused" /\ ~stop
  /\ After(SequenceOf[d]) # {}

\* Mutant: a context that is stopped is not seen to have ended.
ContextOver_NotStopped(c, d) ==
  /\ SequenceOver(d) /\ ~Continues(c, d)
  /\ open = {SequenceOf[d]}
  /\ After(SequenceOf[d]) = {}

ContextOver(c, d) ==
  /\ SequenceOver(d) /\ ~Continues(c, d)
  /\ open = {SequenceOf[d]}

\* _finish_detail: the barrier.
FinishDetail(c) ==
  LET d == Head(queue[c])
  IN /\ reply[c].at = "finish"
     /\ reply' = [reply EXCEPT ![c] =
                    IF Continues(c, d) THEN [NoReply EXCEPT !.at = "call"] ELSE NoReply]
     /\ queue' = [queue EXCEPT ![c] = Tail(@)]
     /\ SetPhase(c, d, IF reply[c].what = "refused" THEN "rejected" ELSE "acked")
     /\ open' = IF SequenceOver(d) THEN open \ {SequenceOf[d]} ELSE open
     /\ awaited' = IF SequenceOf[d] \in open THEN awaited \ {d} ELSE awaited
     /\ busy' = (busy /\ ~ContextOver(c, d))
     /\ UNCHANGED <<context, stop, excluded>>
     /\ IF Continues(c, d) THEN Call(First(After(SequenceOf[d]))) ELSE UNCHANGED next
     /\ UNCHANGED <<slots, serverVars, syncVars, trigger, faults>>

-----------------------------------------------------------------------------
(* The dashboard, snapshots and the operating state *)

ReactivateGroup ==
  /\ serverGroup = "error"
  /\ serverGroup' = "active"
  /\ UNCHANGED <<contextVars, next, workVars, logged, stoppers, edited, syncVars, trigger, faults>>

EditGroup ==
  /\ snapshot = "with"
  /\ edited' = TRUE
  /\ UNCHANGED <<contextVars, next, workVars, logged, stoppers, serverGroup, syncVars, trigger,
                 faults>>

\* Only active groups are listed.
Listing == IF serverGroup = "active" THEN "with" ELSE "without"

\* The reconcile plan has the group among the changed or the removed ones.
Changed == snapshot = "with" /\ (Listing = "without" \/ edited)

\* apply_snapshot: a running group that is changed or removed is marked to stop
\* after its current sequence.
ApplySnapshot ==
  /\ snapshot' = Listing
  /\ edited' = FALSE
  /\ registered' = IF Listing = "with"
                   THEN registered \/ Changed \/ snapshot # "with"
                   ELSE registered /\ ~Changed
  /\ stop' = (stop \/ (busy /\ Changed))
  /\ valid' = TRUE
  /\ UNCHANGED <<context, busy, excluded, open, awaited, next, workVars, logged, stoppers,
                 serverGroup, halted, listener, trigger, faults>>

\* A fail-closed reason appears ...
Halt ==
  /\ ~halted /\ listener = "idle"
  /\ halted' = TRUE /\ valid' = FALSE
  /\ listener' = "remove"
  /\ UNCHANGED <<contextVars, next, workVars, serverVars, snapshot, registered, trigger, faults>>

\* ... the transition's listener removes every managed job and the snapshot ...
RemoveAllManaged ==
  /\ listener = "remove"
  /\ listener' = "mark"
  /\ registered' = FALSE /\ snapshot' = "none" /\ edited' = FALSE
  /\ UNCHANGED <<contextVars, next, workVars, logged, stoppers, serverGroup, halted, valid,
                 trigger, faults>>

\* ... and marks the contexts.
MarkStopped ==
  /\ listener = "mark"
  /\ listener' = "idle"
  /\ stop' = (stop \/ context > 0)
  /\ UNCHANGED <<context, busy, excluded, open, awaited, next, workVars, serverVars, snapshot,
                 registered, halted, valid, trigger, faults>>

Recover ==
  /\ halted
  /\ halted' = FALSE
  /\ UNCHANGED <<contextVars, next, workVars, serverVars, snapshot, registered, valid, listener,
                 trigger, faults>>

-----------------------------------------------------------------------------
NextSequence == \/ ReserveSlot \/ SlotRefused \/ GiveUp \/ OpenSequence
                \/ (\E d \in Details : ScheduleDetail(d)) \/ ScheduleFails
Task(c) == \E d \in Details : JobFires(c, d) \/ JobMisfires(c, d) \/ FinishTask(c, d)
Delivery(c) == \/ StoreResult(c) \/ RefuseResult(c) \/ GiveUpResult(c) \/ LoseReply(c)
               \/ HandleAnswer(c) \/ FinishDetail(c)
Outside == \/ ReactivateGroup \/ EditGroup \/ ApplySnapshot
           \/ Halt \/ RemoveAllManaged \/ MarkStopped \/ Recover

Next ==
  \/ TriggerFires \/ StartGroup
  \/ NextSequence
  \/ \E c \in Contexts : Task(c) \/ Delivery(c)
  \/ Outside

(***************************************************************************)
(* Threads run, commands end, snapshots are polled, a HALTED agent         *)
(* recovers at last, and what ResultOutbox shows: a queued result is       *)
(* answered.                                                               *)
(***************************************************************************)
Fairness ==
  /\ WF_vars(NextSequence)
  /\ WF_vars(Recover) /\ WF_vars(RemoveAllManaged) /\ WF_vars(MarkStopped)
  /\ WF_vars(ApplySnapshot)
  /\ \A c \in Contexts :
       /\ \A d \in Details : WF_vars(JobFires(c, d)) /\ WF_vars(FinishTask(c, d))
       /\ SF_vars(StoreResult(c) \/ RefuseResult(c))
       /\ WF_vars(HandleAnswer(c)) /\ WF_vars(FinishDetail(c))

Spec == Init /\ [][Next]_vars
FairSpec == Spec /\ Fairness

-----------------------------------------------------------------------------
(***************************************************************************)
(* The sequence ACK barrier: a detail is scheduled only when the server    *)
(* has acknowledged (and not rejected) every detail of every earlier       *)
(* sequence of its context, whatever refusals, stops and failures happen.  *)
(***************************************************************************)
SequenceBarrier ==
  \A c \in Contexts : \A d, e \in Details :
    (SequenceOf[e] < SequenceOf[d] /\ phase[c][d] # "idle") => phase[c][e] = "acked"

Unfinished(c) == \E d \in Details : phase[c][d] \in {"scheduled", "running", "missed"} \cup Finished

(***************************************************************************)
(* Contexts of a group do not overlap: when a later context has begun, no  *)
(* task of an earlier one is scheduled, running or waiting for its answer. *)
(***************************************************************************)
ContextsDoNotOverlap == \A c \in Contexts : Unfinished(c) => c = context

(***************************************************************************)
(* A context runs a detail once: whatever sequences fail to be scheduled   *)
(* and answers are lost or sent twice, what has begun to run, or was       *)
(* dropped, is not scheduled again, and the answer to its result is final. *)
(***************************************************************************)
RunsOnce ==
  [][\A c \in Contexts, d \in Details :
       /\ phase[c][d] \notin {"idle", "scheduled"} => phase'[c][d] \notin {"idle", "scheduled"}
       /\ phase[c][d] \in {"acked", "rejected"} => phase'[c][d] = phase[c][d]]_vars

\* The latest context has neither a call under way that will schedule nor an entry.
Ended(c) == c < context \/ next.at = "giveup" \/ (next.at = "none" /\ open = {})

(***************************************************************************)
(* The group is a succession of contexts that come to an end: each ends    *)
(* when nothing of it is under way, or because its scheduling failed, and  *)
(* schedules nothing after that, whatever answers still come.              *)
(***************************************************************************)
Runs == INSTANCE GroupRuns WITH
  current <- context,
  ended <- {c \in 1 .. context : Ended(c)},
  stage <- [c \in Contexts |-> [d \in Details |->
              IF phase[c][d] \in Finished THEN "finished" ELSE phase[c][d]]]
ImplementsRuns == Runs!Spec

(***************************************************************************)
(* Every slot the group holds is for a call that is reserving, for a       *)
(* detail that still has to enqueue its result, or for one whose job the   *)
(* scheduler has dropped: nothing else leaks one, and enqueue finds the    *)
(* slot it needs.                                                          *)
(***************************************************************************)
SlotsMatchWork ==
  slots = (IF next.at = "schedule" THEN Cardinality(next.tasks) ELSE next.held)
          + Cardinality({e \in Contexts \X Details :
                           phase[e[1]][e[2]] \in {"scheduled", "running", "missed"}})

(***************************************************************************)
(* When the server stops the group because of a failed detail, no detail   *)
(* of a later sequence of that context is scheduled ("Server               *)
(* acknowledgements and applied transitions determine whether the next     *)
(* sequence may continue").                                                *)
(***************************************************************************)
ErrorStopEndsContext ==
  \A e \in stoppers : \A d \in Details :
    SequenceOf[e[2]] < SequenceOf[d] => phase[e[1]][d] = "idle"

(***************************************************************************)
(* A group that runs ends, so that its next trigger can run it again, or   *)
(* the scheduler has dropped one of its jobs; whatever is refused, stopped *)
(* or changed meanwhile.                                                   *)
(***************************************************************************)
JobDropped == context > 0 /\ \E d \in Details : phase[context][d] = "missed"
GroupEnds == busy ~> (~busy \/ JobDropped)

(***************************************************************************)
(* A group that stays active is registered: a snapshot that lists it       *)
(* brings back the cron job an error stop has removed.                     *)
(***************************************************************************)
ActiveIsRegistered == <>[](serverGroup = "active" /\ ~halted) => []<>registered
=============================================================================
