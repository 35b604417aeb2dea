---------------------------- MODULE ResultOutbox ----------------------------
(***************************************************************************)
(* The agent's in-memory result outbox (outbox.py, class ResultOutbox):    *)
(* capacity slots, one FIFO queue per execution group, drains run by a     *)
(* pool of sender threads, retry timers, the backlog latch, HALTED states  *)
(* and shutdown.                                                           *)
(*                                                                         *)
(* One step is one section under the outbox lock, one answer of the server *)
(* or one callback; everything else interleaves.  A call of                *)
(* _schedule_group that has not taken the lock yet is pending in "calls":  *)
(* enqueue, wake, the timers and the end of a drain all make such calls.   *)
(***************************************************************************)
EXTENDS Integers, Sequences, FiniteSets

CONSTANTS
  Groups,       \* execution_grp_id
  Jobs,         \* detail executions; each reserves a slot and has one result
  JobGroup,     \* the group of each
  Workers,      \* sender threads
  Capacity, High, Low,   \* outbox_capacity and its watermarks
  MaxMishaps,   \* bound: timers that overtake their drain, and results given up
  None

ASSUME OutboxAssumption ==
  /\ IsFiniteSet(Jobs)
  /\ JobGroup \in [Jobs -> Groups]
  /\ Capacity \in Nat /\ High \in Nat /\ Low \in Nat
  /\ Low < High /\ High <= Capacity
  /\ MaxMishaps \in Nat
  /\ None \notin Jobs /\ None \notin Groups

VARIABLES
  job,        \* the execution side: has it a slot, a queued result, neither?
  reserved,   \* _reserved_slots
  queued,     \* _queued_results
  queues,     \* _queues
  active,     \* _active_groups
  sending,    \* _sending_groups
  timers,     \* keys of _retry_timers
  armed,      \* started Timer threads that have neither fired nor been cancelled
  calls,      \* groups with a pending _schedule_group call
  pool,       \* the executor's queue
  pc, group, item,  \* the senders: where each is, in which drain, with what
  halted,     \* the operating state is HALTED
  closed,     \* _closed
  closing,    \* how far a close(wait=True) has come
  latched,    \* _backlog_latched
  eventLatch, \* "outbox:backlog" is in _event_latches
  emitting,   \* threads that are about to report a backlog
  order,      \* history: jobs in the order of their enqueue
  accepted,   \* the server has stored the result
  refused,    \* the server has permanently rejected it
  dropped,    \* history: results given up before the server decided about them
  answered,   \* the execution side got the answer (ack or rejection callback)
  overtakes   \* history: how many timers fired before their drain had ended

slotVars == <<job, reserved, queued, queues, latched, eventLatch, emitting, order>>
scheduleVars == <<active, timers, armed, calls, pool>>
senderVars == <<pc, group, item, sending>>
stateVars == <<halted, closed, closing>>
serverVars == <<accepted, refused, dropped, answered>>
vars == <<slotVars, scheduleVars, senderVars, stateVars, serverVars, overtakes>>

PCs == {"idle", "pick", "sending", "stored", "refused", "unauthorized", "failed",
        "acked", "deferred", "finally"}

TypeOK ==
  /\ job \in [Jobs -> {"idle", "reserved", "queued", "removed"}]
  /\ reserved \in 0 .. Capacity /\ queued \in 0 .. Capacity
  /\ queues \in [Groups -> Seq(Jobs)]
  /\ active \subseteq Groups /\ sending \subseteq Groups
  /\ timers \subseteq Groups /\ calls \subseteq Groups
  /\ armed \in [Groups -> Nat]
  /\ pool \in Seq(Groups)
  /\ pc \in [Workers -> PCs]
  /\ group \in [Workers -> Groups \cup {None}]
  /\ item \in [Workers -> Jobs \cup {None}]
  /\ halted \in BOOLEAN /\ closed \in BOOLEAN
  /\ closing \in {"no", "waiting", "drained", "timeout"}
  /\ latched \in BOOLEAN /\ eventLatch \in BOOLEAN
  /\ emitting \subseteq Jobs
  /\ order \in Seq(Jobs)
  /\ accepted \subseteq Jobs /\ refused \subseteq Jobs
  /\ dropped \subseteq Jobs /\ answered \subseteq Jobs
  /\ overtakes \in 0 .. MaxMishaps

Init ==
  /\ job = [j \in Jobs |-> "idle"]
  /\ reserved = 0 /\ queued = 0
  /\ queues = [g \in Groups |-> <<>>]
  /\ active = {} /\ sending = {} /\ timers = {} /\ calls = {}
  /\ armed = [g \in Groups |-> 0]
  /\ pool = <<>>
  /\ pc = [w \in Workers |-> "idle"]
  /\ group = [w \in Workers |-> None]
  /\ item = [w \in Workers |-> None]
  /\ halted = FALSE /\ closed = FALSE /\ closing = "no"
  /\ latched = FALSE /\ eventLatch = FALSE
  /\ emitting = {}
  /\ order = <<>>
  /\ accepted = {} /\ refused = {} /\ dropped = {} /\ answered = {}
  /\ overtakes = 0

-----------------------------------------------------------------------------
(* Capacity *)

\* _update_backlog_latch_locked, at the new size.
UpdateBacklogLatch(size) ==
  /\ latched' = (size >= High \/ (latched /\ size >= Low))
  /\ eventLatch' = (eventLatch /\ ~(latched /\ size < Low))

EntersBacklog(size) == ~latched /\ size >= High

\* Before a detail is scheduled; a refused reservation changes nothing.
ReserveSlot(j) ==
  /\ job[j] = "idle"
  /\ ~closed /\ reserved + queued < Capacity
  /\ job' = [job EXCEPT ![j] = "reserved"]
  /\ reserved' = reserved + 1
  /\ UpdateBacklogLatch(reserved' + queued)
  /\ emitting' = IF EntersBacklog(reserved' + queued) THEN emitting \cup {j} ELSE emitting
  /\ UNCHANGED <<queued, queues, order, scheduleVars, senderVars, stateVars,
                 serverVars, overtakes>>

\* The detail could not be scheduled, or the manual run not claimed.
ReleaseSlot(j) ==
  /\ job[j] = "reserved" /\ j \notin emitting
  /\ reserved > 0
  /\ job' = [job EXCEPT ![j] = "idle"]
  /\ reserved' = reserved - 1
  /\ UpdateBacklogLatch(reserved' + queued)
  /\ UNCHANGED <<queued, queues, emitting, order, scheduleVars, senderVars,
                 stateVars, serverVars, overtakes>>

\* The task ended; also after close.
Enqueue(j) ==
  /\ job[j] = "reserved" /\ j \notin emitting
  /\ reserved > 0
  /\ job' = [job EXCEPT ![j] = "queued"]
  /\ reserved' = reserved - 1
  /\ queued' = queued + 1
  /\ queues' = [queues EXCEPT ![JobGroup[j]] = Append(@, j)]
  /\ order' = Append(order, j)
  /\ UpdateBacklogLatch(reserved' + queued')
  /\ emitting' = IF EntersBacklog(reserved' + queued') THEN emitting \cup {j} ELSE emitting
  /\ calls' = calls \cup {JobGroup[j]}
  /\ UNCHANGED <<active, timers, armed, pool, senderVars, stateVars, serverVars,
                 overtakes>>

\* _emit_event_once("outbox:backlog"), in the thread whose reservation entered
\* the backlog, after it let go of the lock.
EmitBacklog(j) ==
  /\ j \in emitting
  /\ emitting' = emitting \ {j}
  /\ eventLatch' = TRUE
  /\ UNCHANGED <<job, reserved, queued, queues, latched, order, scheduleVars, senderVars,
                 stateVars, serverVars, overtakes>>

-----------------------------------------------------------------------------
(* Scheduling of drains *)

\* Mutant: a drain that is at work is not looked for.
Schedulable_DespiteDrain(g) ==
  ~closed /\ ~halted /\ g \notin timers /\ queues[g] # <<>>

Schedulable(g) ==
  ~closed /\ ~halted /\ g \notin active /\ g \notin timers /\ queues[g] # <<>>

\* _schedule_group; the submit that follows the locked section appends to the pool.
ScheduleGroup(g) ==
  /\ g \in calls
  /\ calls' = calls \ {g}
  /\ \/ /\ Schedulable(g)
        /\ active' = active \cup {g}
        /\ pool' = Append(pool, g)
     \/ ~Schedulable(g) /\ UNCHANGED <<active, pool>>
  /\ UNCHANGED <<slotVars, timers, armed, senderVars, stateVars, serverVars,
                 overtakes>>

\* After a successful heartbeat or an applied snapshot.
Wake ==
  /\ calls' = calls \cup {g \in Groups : queues[g] # <<>>}
  /\ UNCHANGED <<slotVars, active, timers, armed, pool, senderVars, stateVars,
                 serverVars, overtakes>>

MishapsLeft == overtakes + Cardinality(dropped) < MaxMishaps

\* A timer of the group fires although a drain that deferred has not ended yet.
Overtakes(g) == \E w \in Workers : pc[w] = "deferred" /\ group[w] = g

\* Mutant: the timer stays registered while the group is scheduled.
RetryGroup_KeepsTimer(g) ==
  /\ armed[g] > 0
  /\ Overtakes(g) => MishapsLeft
  /\ overtakes' = IF Overtakes(g) THEN overtakes + 1 ELSE overtakes
  /\ armed' = [armed EXCEPT ![g] = @ - 1]
  /\ calls' = calls \cup {g}
  /\ UNCHANGED <<slotVars, active, timers, pool, senderVars, stateVars,
                 serverVars>>

\* _retry_group in a timer thread.
RetryGroup(g) ==
  /\ armed[g] > 0
  /\ Overtakes(g) => MishapsLeft
  /\ overtakes' = IF Overtakes(g) THEN overtakes + 1 ELSE overtakes
  /\ armed' = [armed EXCEPT ![g] = @ - 1]
  /\ timers' = timers \ {g}
  /\ calls' = calls \cup {g}
  /\ UNCHANGED <<slotVars, active, pool, senderVars, stateVars, serverVars>>

-----------------------------------------------------------------------------
(* A drain, in a sender thread *)

Goto(w, label) == pc' = [pc EXCEPT ![w] = label]

BeginDrain(w) ==
  LET g == Head(pool)
  IN /\ pc[w] = "idle"
     /\ pool # <<>>
     /\ pool' = Tail(pool)
     /\ \/ /\ closed
           /\ active' = active \ {g}
           /\ UNCHANGED senderVars
        \/ /\ ~closed
           /\ sending' = sending \cup {g}
           /\ group' = [group EXCEPT ![w] = g]
           /\ Goto(w, "pick")
           /\ UNCHANGED <<active, item>>
     /\ UNCHANGED <<slotVars, timers, armed, calls, stateVars, serverVars,
                    overtakes>>

\* Mutant: the newest result of the group is sent first.
PickHead_Newest(w) ==
  LET q == queues[group[w]]
  IN /\ pc[w] = "pick"
     /\ \/ /\ closed \/ halted \/ q = <<>>
           /\ Goto(w, "finally")
           /\ UNCHANGED item
        \/ /\ ~closed /\ ~halted /\ q # <<>>
           /\ item' = [item EXCEPT ![w] = q[Len(q)]]
           /\ Goto(w, "sending")
     /\ UNCHANGED <<slotVars, scheduleVars, group, sending, stateVars, serverVars,
                    overtakes>>

\* The top of the drain's loop.
PickHead(w) ==
  LET q == queues[group[w]]
  IN /\ pc[w] = "pick"
     /\ \/ /\ closed \/ halted \/ q = <<>>
           /\ Goto(w, "finally")
           /\ UNCHANGED item
        \/ /\ ~closed /\ ~halted /\ q # <<>>
           /\ item' = [item EXCEPT ![w] = Head(q)]
           /\ Goto(w, "sending")
     /\ UNCHANGED <<slotVars, scheduleVars, group, sending, stateVars, serverVars,
                    overtakes>>

\* What becomes of a request: the server stores the result or has stored it
\* before, rejects it for good, or finds the device's credential invalid ...
StoreResult(w) ==
  /\ pc[w] = "sending"
  /\ accepted' = accepted \cup {item[w]}
  /\ Goto(w, "stored")
  /\ UNCHANGED <<slotVars, scheduleVars, group, item, sending, stateVars, refused,
                 dropped, answered, overtakes>>

RefuseResult(w) ==
  /\ pc[w] = "sending"
  /\ refused' = refused \cup {item[w]}
  /\ Goto(w, "refused")
  /\ UNCHANGED <<slotVars, scheduleVars, group, item, sending, stateVars, accepted,
                 dropped, answered, overtakes>>

\* The token provider raises, or reading the answer does, and the exception is of no
\* class that _classify_failure knows: the result goes as if it had been rejected,
\* whether or not the server has stored it.
GiveUpResult(w) ==
  /\ pc[w] \in {"sending", "stored"}
  /\ item[w] \in accepted \cup refused \/ MishapsLeft
  /\ dropped' = dropped \cup ({item[w]} \ (accepted \cup refused))
  /\ Goto(w, "refused")
  /\ UNCHANGED <<slotVars, scheduleVars, group, item, sending, stateVars, accepted,
                 refused, answered, overtakes>>

\* (an inactive device ends the drain at once)
Unauthorized(w) ==
  /\ pc[w] = "sending"
  /\ halted' = TRUE
  /\ Goto(w, "unauthorized") \/ Goto(w, "finally")
  /\ UNCHANGED <<slotVars, scheduleVars, group, item, sending, closed, closing,
                 serverVars, overtakes>>

\* ... or the request or its answer is lost, or the server asks for a retry.
LoseExchange(w) ==
  /\ pc[w] \in {"sending", "stored"}
  /\ Goto(w, "failed")
  /\ UNCHANGED <<slotVars, scheduleVars, group, item, sending, stateVars,
                 serverVars, overtakes>>

\* Mutant: whatever is at the head goes.
RemoveHead_NoIdentity(g, j) ==
  IF queues[g] # <<>>
  THEN /\ queues' = [queues EXCEPT ![g] = Tail(@)]
       /\ queued' = queued - 1
       /\ job' = [job EXCEPT ![Head(queues[g])] = "removed"]
       /\ UpdateBacklogLatch(reserved + queued')
  ELSE UNCHANGED <<queues, queued, job, latched, eventLatch>>

\* Mutant: the counter is decremented before the head is compared.
RemoveHead_CountsTwice(g, j) ==
  /\ queued' = IF queues[g] # <<>> THEN queued - 1 ELSE queued
  /\ IF queues[g] # <<>> /\ Head(queues[g]) = j
     THEN /\ queues' = [queues EXCEPT ![g] = Tail(@)]
          /\ job' = [job EXCEPT ![j] = "removed"]
          /\ UpdateBacklogLatch(reserved + queued')
     ELSE UNCHANGED <<queues, job, latched, eventLatch>>

\* The head is removed only if it is still the item that was sent.
RemoveHead(g, j) ==
  IF queues[g] # <<>> /\ Head(queues[g]) = j
  THEN /\ queues' = [queues EXCEPT ![g] = Tail(@)]
       /\ queued' = queued - 1
       /\ job' = [job EXCEPT ![j] = "removed"]
       /\ UpdateBacklogLatch(reserved + queued')
  ELSE UNCHANGED <<queues, queued, job, latched, eventLatch>>

\* An answer or an exception has settled the item for this drain.
Settle(w) ==
  /\ pc[w] \in {"stored", "refused"}
  /\ RemoveHead(group[w], item[w])
  /\ Goto(w, "acked")
  /\ UNCHANGED <<reserved, emitting, order, scheduleVars, group, item, sending,
                 stateVars, serverVars, overtakes>>

\* The ack or rejection callback of the application.
Notify(w) ==
  /\ pc[w] = "acked"
  /\ answered' = answered \cup {item[w]}
  /\ item' = [item EXCEPT ![w] = None]
  /\ Goto(w, "pick")
  /\ UNCHANGED <<slotVars, scheduleVars, group, sending, stateVars, accepted,
                 refused, dropped, overtakes>>

\* Mutant: the item to be retried goes to the back of its queue.
DeferGroup_Requeues(w) ==
  LET g == group[w]
  IN /\ pc[w] = "failed" \/ (pc[w] = "unauthorized" /\ ~halted)
     /\ queues' = [queues EXCEPT ![g] =
                     IF @ # <<>> /\ Head(@) = item[w] THEN Append(Tail(@), item[w]) ELSE @]
     /\ active' = active \ {g}
     /\ timers' = timers \cup {g}
     /\ armed' = [armed EXCEPT ![g] = @ + 1]
     /\ Goto(w, "deferred")
     /\ UNCHANGED <<job, reserved, queued, latched, eventLatch, emitting, order,
                    calls, pool, group, item, sending, stateVars, serverVars, overtakes>>

\* _defer_group; the timer replaces the group's previous one, which stays armed.
DeferGroup(w) ==
  LET g == group[w]
  IN /\ pc[w] = "failed" \/ (pc[w] = "unauthorized" /\ ~halted)
     /\ active' = active \ {g}
     /\ timers' = timers \cup {g}
     /\ armed' = [armed EXCEPT ![g] = @ + 1]
     /\ Goto(w, "deferred")
     /\ UNCHANGED <<slotVars, calls, pool, group, item, sending, stateVars,
                    serverVars, overtakes>>

\* The drain's finally clause, and whether it schedules the group again.
EndDrain(w) ==
  LET g == group[w]
  IN /\ pc[w] \in {"finally", "deferred"} \/ (pc[w] = "unauthorized" /\ halted)
     /\ active' = active \ {g}
     /\ sending' = sending \ {g}
     /\ calls' = IF ~closed /\ ~halted /\ g \notin timers /\ queues[g] # <<>>
                 THEN calls \cup {g} ELSE calls
     /\ group' = [group EXCEPT ![w] = None]
     /\ item' = [item EXCEPT ![w] = None]
     /\ Goto(w, "idle")
     /\ UNCHANGED <<slotVars, timers, armed, pool, stateVars, serverVars,
                    overtakes>>

-----------------------------------------------------------------------------
(* Operating state and shutdown *)

\* Some other channel finds the agent's credential or device invalid ...
Halt ==
  /\ ~halted
  /\ halted' = TRUE
  /\ UNCHANGED <<slotVars, scheduleVars, senderVars, closed, closing, serverVars,
                 overtakes>>

\* ... or valid again.
Recover ==
  /\ halted
  /\ halted' = FALSE
  /\ UNCHANGED <<slotVars, scheduleVars, senderVars, closed, closing, serverVars,
                 overtakes>>

\* close(wait=True): the registered timers are cancelled, replaced ones are not.
Close ==
  /\ ~closed
  /\ closed' = TRUE
  /\ closing' = "waiting"
  /\ armed' = [g \in Groups |-> IF g \in timers THEN armed[g] - 1 ELSE armed[g]]
  /\ timers' = {}
  /\ UNCHANGED <<slotVars, active, calls, pool, senderVars, halted, serverVars,
                 overtakes>>

\* The wait for _sending_groups ends, and the executor drops what is queued.
EndClose ==
  /\ closing = "waiting"
  /\ \/ sending = {} /\ closing' = "drained"
     \/ sending # {} /\ closing' = "timeout"
  /\ pool' = <<>>
  /\ UNCHANGED <<slotVars, active, timers, armed, calls, senderVars, halted, closed,
                 serverVars, overtakes>>

-----------------------------------------------------------------------------
Execution == \E j \in Jobs : ReserveSlot(j) \/ ReleaseSlot(j) \/ Enqueue(j) \/ EmitBacklog(j)
Sender(w) == \/ BeginDrain(w) \/ PickHead(w) \/ Settle(w) \/ Notify(w)
             \/ DeferGroup(w) \/ EndDrain(w)
Exchange(w) == \/ StoreResult(w) \/ RefuseResult(w) \/ GiveUpResult(w)
               \/ Unauthorized(w) \/ LoseExchange(w)

Next ==
  \/ Execution
  \/ \E g \in Groups : ScheduleGroup(g) \/ RetryGroup(g)
  \/ Wake
  \/ \E w \in Workers : Sender(w) \/ Exchange(w)
  \/ Halt \/ Recover
  \/ Close \/ EndClose

(***************************************************************************)
(* Threads run, timers fire and heartbeats come round for as long as the   *)
(* agent lives.  Of the network and the server only this is assumed: a     *)
(* result that is sent again and again is stored at last, and an answer    *)
(* that is given again and again arrives at last.                          *)
(***************************************************************************)
Fairness ==
  /\ \A g \in Groups : WF_vars(ScheduleGroup(g)) /\ WF_vars(RetryGroup(g))
  /\ WF_vars(Wake)
  /\ \A w \in Workers : /\ WF_vars(Sender(w))
                        /\ SF_vars(StoreResult(w))
                        /\ SF_vars(Settle(w))

Spec == Init /\ [][Next]_vars
FairSpec == Spec /\ Fairness

-----------------------------------------------------------------------------
JobsIn(s) == {j \in Jobs : job[j] = s}
InQueue(j) == \E i \in DOMAIN queues[JobGroup[j]] : queues[JobGroup[j]][i] = j

(***************************************************************************)
(* The counters are what they claim to count, whatever drains run at once: *)
(* one slot per reservation, one per queued result.  So enqueue never      *)
(* fails for want of a slot and capacity is neither leaked nor exceeded.   *)
(***************************************************************************)
SlotAccounting ==
  /\ reserved = Cardinality(JobsIn("reserved"))
  /\ queued = Cardinality(JobsIn("queued"))
  /\ reserved + queued <= Capacity

(***************************************************************************)
(* A result leaves its queue only after the server has stored or refused   *)
(* it, or a drain that was sending this very result has given it up; two   *)
(* drains of a group that send it take no other result with it.            *)
(***************************************************************************)
NothingLost ==
  \A j \in Jobs :
    /\ job[j] = "queued" <=> InQueue(j)
    /\ job[j] = "removed" => j \in accepted \cup refused \cup dropped

(***************************************************************************)
(* Results of a group reach the server's log in the order in which they    *)
(* were produced: none is stored while an earlier one of its group has     *)
(* been neither stored nor refused nor given up.                           *)
(***************************************************************************)
StoredInOrder ==
  \A i, k \in DOMAIN order :
    (i < k /\ JobGroup[order[i]] = JobGroup[order[k]] /\ order[k] \in accepted)
      => order[i] \in accepted \cup refused \cup dropped

(***************************************************************************)
(* No wake-up is lost: once the agent stays out of HALTED and is not       *)
(* closed, every queued result is delivered and its answer handed over.    *)
(***************************************************************************)
EventuallyAnswered ==
  <>[](~halted /\ ~closed)
    => []<>(\A j \in Jobs : job[j] \in {"queued", "removed"} => j \in answered)

(***************************************************************************)
(* As long as no timer fires before the drain that has armed it ends, no   *)
(* two drains of a group are at work, and so the execution side is told of *)
(* each result once: what app.py takes for granted when it looks a group   *)
(* up by the answer.                                                       *)
(***************************************************************************)
HandedOverOnce ==
  overtakes = 0 => \A w \in Workers : pc[w] = "acked" => item[w] \notin answered

(***************************************************************************)
(* With all its drains, timers and lost answers the outbox is one queue    *)
(* per group to the server and to the execution side.                      *)
(***************************************************************************)
Delivery == INSTANCE ResultDelivery WITH gone <- JobsIn("removed")
ImplementsDelivery == Delivery!Spec

-----------------------------------------------------------------------------
(* The inductive invariant behind the safety invariants. *)

\* A registered timer is armed: close cancels a timer that can be cancelled.
TimersArmed == \A g \in timers : armed[g] > 0

InFlight(w) == pc[w] \in {"sending", "stored", "refused", "acked"}

\* What a sender knows of its drain and of the item it sends.
SendersHold ==
  \A w \in Workers :
    /\ pc[w] # "idle" => group[w] \in Groups
    /\ InFlight(w) => item[w] \in Jobs /\ job[item[w]] \in {"queued", "removed"}
    /\ pc[w] = "stored" => item[w] \in accepted
    /\ pc[w] = "refused" => item[w] \in accepted \cup refused \cup dropped

\* A queue holds jobs of its group that are queued, each once.
QueuesHoldQueued ==
  \A g \in Groups : \A a \in DOMAIN queues[g] :
    /\ job[queues[g][a]] = "queued" /\ JobGroup[queues[g][a]] = g
    /\ \A b \in DOMAIN queues[g] : queues[g][a] = queues[g][b] => a = b

\* The history of enqueues, and each queue as a part of it.
OrderIsHistory ==
  /\ \A i, k \in DOMAIN order : order[i] = order[k] => i = k
  /\ \A i \in DOMAIN order : job[order[i]] \in {"queued", "removed"}
  /\ \A g \in Groups : \A a, b \in DOMAIN queues[g] : \A i, k \in DOMAIN order :
       (a < b /\ order[i] = queues[g][a] /\ order[k] = queues[g][b]) => i < k

\* Every earlier result of j's group has left the queue.
IsOldest(j) ==
  \A i, k \in DOMAIN order :
    (i < k /\ order[k] = j /\ JobGroup[order[i]] = JobGroup[j]) => job[order[i]] = "removed"

SentInOrder ==
  /\ \A w \in Workers : InFlight(w) => IsOldest(item[w])
  /\ \A j \in accepted : job[j] \in {"queued", "removed"} /\ IsOldest(j)

\* What is in hand is of the drain's group, and an answer in hand is of a result that
\* has left its queue.
AnswersOfGone ==
  /\ \A w \in Workers :
       /\ InFlight(w) => JobGroup[item[w]] = group[w]
       /\ pc[w] = "acked" => job[item[w]] = "removed"
  /\ \A j \in answered : job[j] = "removed"

\* The history lists every result.
HistoryIsComplete ==
  \A j \in Jobs : job[j] \in {"queued", "removed"} => \E k \in DOMAIN order : order[k] = j

AtWork(w, g) == pc[w] # "idle" /\ group[w] = g

\* A group in the pool or at work is active, in one place only; a drain that has
\* deferred has its timer.
OneDrain ==
  overtakes = 0 =>
    /\ timers \cap active = {}
    /\ \A i \in DOMAIN pool :
         /\ pool[i] \in active
         /\ \A k \in DOMAIN pool : pool[i] = pool[k] => i = k
         /\ \A w \in Workers : ~AtWork(w, pool[i])
    /\ \A w \in Workers : \A g \in Groups : AtWork(w, g) =>
         /\ \A v \in Workers : AtWork(v, g) => v = w
         /\ pc[w] # "deferred" => g \in active
         /\ pc[w] = "deferred" => g \notin active /\ (closed \/ g \in timers)

\* So what is sent has not been answered before.
InHandIsNew ==
  overtakes = 0 => \A w \in Workers : InFlight(w) => item[w] \notin answered

DeliveryInv == AnswersOfGone /\ HistoryIsComplete /\ OneDrain /\ InHandIsNew

OutboxInv ==
  /\ TypeOK
  /\ TimersArmed
  /\ SendersHold
  /\ SlotAccounting
  /\ NothingLost
  /\ QueuesHoldQueued
  /\ OrderIsHistory
  /\ SentInOrder
=============================================================================
