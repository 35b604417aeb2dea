------------------------- MODULE ResultOutboxProofs -------------------------
(***************************************************************************)
(* What holds of the result outbox for any capacity, any number of groups, *)
(* jobs and sender threads, and however often timers overtake drains; what *)
(* holds besides while none does; and that the outbox implements the       *)
(* abstract ResultDelivery.                                                *)
(***************************************************************************)
EXTENDS ResultOutbox, FiniteSetTheorems, TLAPS

\* JobsIn at any assignment of states to jobs.
At(f, s) == {i \in Jobs : f[i] = s}

Moves(f, g, j, from, to) ==
  /\ j \in Jobs /\ from # to /\ f[j] = from /\ g[j] = to
  /\ \A i \in Jobs \ {j} : g[i] = f[i]

\* Counting: changing the state of one job moves it from one set to another.
LEMMA JobMoves ==
  ASSUME IsFiniteSet(Jobs), NEW f, NEW g, NEW from, NEW to, NEW j,
         Moves(f, g, j, from, to)
  PROVE  /\ Cardinality(At(f, from)) \in Nat \ {0}
         /\ Cardinality(At(g, from)) = Cardinality(At(f, from)) - 1
         /\ Cardinality(At(f, to)) \in Nat
         /\ Cardinality(At(g, to)) = Cardinality(At(f, to)) + 1
         /\ \A s : s # from /\ s # to => At(g, s) = At(f, s)
<1>1. At(g, from) = At(f, from) \ {j} /\ j \in At(f, from)
  BY DEF At, Moves
<1>2. At(g, to) = At(f, to) \cup {j} /\ j \notin At(f, to)
  BY DEF At, Moves
<1>3. \A s : s # from /\ s # to => At(g, s) = At(f, s)
  BY DEF At, Moves
<1>4. IsFiniteSet(At(f, from)) /\ IsFiniteSet(At(f, to))
  <2>1. At(f, from) \subseteq Jobs /\ At(f, to) \subseteq Jobs
    BY DEF At
  <2>. QED
    BY <2>1, FS_Subset
<1>5. Cardinality(At(f, from)) \in Nat /\ Cardinality(At(f, to)) \in Nat
  BY <1>4, FS_CardinalityType
<1>6. Cardinality(At(f, from)) # 0
  BY <1>1, <1>4, FS_EmptySet
<1>7. Cardinality(At(g, from)) = Cardinality(At(f, from)) - 1
  BY <1>1, <1>4, FS_RemoveElement
<1>8. Cardinality(At(g, to)) = Cardinality(At(f, to)) + 1
  BY <1>2, <1>4, FS_AddElement
<1>. QED
  BY <1>3, <1>5, <1>6, <1>7, <1>8

\* The accounting, spelt with At.
Accounted(f, r, q) ==
  /\ r = Cardinality(At(f, "reserved")) /\ q = Cardinality(At(f, "queued"))
  /\ r + q <= Capacity

LEMMA AccountingAt ==
  /\ SlotAccounting <=> Accounted(job, reserved, queued)
  /\ SlotAccounting' <=> Accounted(job', reserved', queued')
BY DEF SlotAccounting, JobsIn, Accounted, At

LEMMA SequenceTypes ==
  ASSUME NEW S, NEW s \in Seq(S)
  PROVE  /\ \A x \in S : Append(s, x) \in Seq(S)
         /\ s # <<>> => Head(s) \in S /\ Tail(s) \in Seq(S)
OBVIOUS

-----------------------------------------------------------------------------
\* The steps that move no job leave the queues and their history alone.
LEMMA QueuesUntouched ==
  ASSUME OutboxInv, UNCHANGED <<job, reserved, queued, queues, order>>,
         accepted \subseteq accepted', refused \subseteq refused', dropped \subseteq dropped'
  PROVE  /\ SlotAccounting' /\ NothingLost' /\ QueuesHoldQueued' /\ OrderIsHistory'
         /\ \A j \in Jobs : IsOldest(j)' <=> IsOldest(j)
<1>. USE DEF OutboxInv
<1>1. SlotAccounting'
  BY DEF SlotAccounting, JobsIn
<1>2. NothingLost'
  BY DEF NothingLost, InQueue
<1>3. QueuesHoldQueued' /\ OrderIsHistory'
  BY DEF QueuesHoldQueued, OrderIsHistory
<1>4. \A j \in Jobs : IsOldest(j)' <=> IsOldest(j)
  BY DEF IsOldest
<1>. QED
  BY <1>1, <1>2, <1>3, <1>4

LEMMA SchedulingKeepsTypes ==
  ASSUME OutboxAssumption, OutboxInv,
         \/ \E g \in Groups : ScheduleGroup(g) \/ RetryGroup(g)
         \/ Wake \/ Halt \/ Recover \/ Close \/ EndClose
         \/ \E j \in Jobs : EmitBacklog(j)
  PROVE  TypeOK' /\ TimersArmed'
<1>. USE DEF OutboxInv, TypeOK, TimersArmed, PCs,
     slotVars, scheduleVars, senderVars, stateVars, serverVars
<1>1. ASSUME NEW g \in Groups, ScheduleGroup(g) PROVE TypeOK' /\ TimersArmed'
  <2>1. Append(pool, g) \in Seq(Groups)
    BY SequenceTypes
  <2>2. pool' = Append(pool, g) \/ pool' = pool
    BY <1>1 DEF ScheduleGroup
  <2>. QED
    BY <1>1, <2>1, <2>2 DEF ScheduleGroup
<1>2. ASSUME NEW g \in Groups, RetryGroup(g) PROVE TypeOK' /\ TimersArmed'
  <2>1. Cardinality(dropped) \in Nat
    BY FS_Subset, FS_CardinalityType DEF OutboxAssumption
  <2>2. overtakes' \in 0 .. MaxMishaps
    BY <1>2, <2>1 DEF RetryGroup, MishapsLeft, OutboxAssumption
  <2>. QED
    BY <1>2, <2>2 DEF RetryGroup
<1>3. CASE Wake
  BY <1>3 DEF Wake
<1>4. CASE Halt \/ Recover
  BY <1>4 DEF Halt, Recover
<1>5. CASE Close
  BY <1>5 DEF Close
<1>6. CASE EndClose
  BY <1>6 DEF EndClose
<1>7. ASSUME NEW j \in Jobs, EmitBacklog(j) PROVE TypeOK' /\ TimersArmed'
  BY <1>7 DEF EmitBacklog
<1>. QED
  BY <1>1, <1>2, <1>3, <1>4, <1>5, <1>6, <1>7

LEMMA SchedulingKeepsInv ==
  ASSUME OutboxAssumption, OutboxInv,
         \/ \E g \in Groups : ScheduleGroup(g) \/ RetryGroup(g)
         \/ Wake \/ Halt \/ Recover \/ Close \/ EndClose
         \/ \E j \in Jobs : EmitBacklog(j)
  PROVE  OutboxInv'
<1>1. /\ UNCHANGED <<job, reserved, queued, queues, order, pc, group, item, sending>>
      /\ UNCHANGED <<accepted, refused, dropped, answered>>
  BY DEF ScheduleGroup, RetryGroup, Wake, Halt, Recover, Close, EndClose, EmitBacklog,
     slotVars, scheduleVars, senderVars, stateVars, serverVars
<1>2. SendersHold'
  BY <1>1 DEF OutboxInv, SendersHold, InFlight
<1>3. SentInOrder'
  BY <1>1 DEF OutboxInv, SentInOrder, InFlight, IsOldest
<1>. QED
  BY <1>1, <1>2, <1>3, SchedulingKeepsTypes, QueuesUntouched DEF OutboxInv

-----------------------------------------------------------------------------
(* The senders' steps that remove nothing. *)

LEMMA SenderKeepsTypes ==
  ASSUME OutboxAssumption, OutboxInv, NEW w \in Workers,
         \/ BeginDrain(w) \/ PickHead(w) \/ Notify(w) \/ DeferGroup(w) \/ EndDrain(w)
         \/ Exchange(w)
  PROVE  TypeOK' /\ TimersArmed'
<1>. USE DEF OutboxInv, TypeOK, TimersArmed, PCs, Goto,
     slotVars, scheduleVars, senderVars, stateVars, serverVars
<1>1. CASE BeginDrain(w)
  <2>1. Tail(pool) \in Seq(Groups) /\ Head(pool) \in Groups
    BY <1>1, SequenceTypes DEF BeginDrain
  <2>2. pool' = Tail(pool)
    BY <1>1 DEF BeginDrain
  <2>3. UNCHANGED <<item, slotVars, timers, armed, calls, stateVars, serverVars,
                    overtakes>>
    BY <1>1, Zenon DEF BeginDrain
  <2>4. \/ active' = active \ {Head(pool)} /\ UNCHANGED <<pc, group, sending>>
        \/ /\ \E g \in Groups : /\ sending' = sending \cup {g}
                               /\ group' = [group EXCEPT ![w] = g]
           /\ pc' = [pc EXCEPT ![w] = "pick"]
           /\ UNCHANGED active
    BY <1>1, <2>1, Zenon DEF BeginDrain
  <2>5. active' \subseteq Groups /\ sending' \subseteq Groups
    BY <2>4
  <2>6. pc' \in [Workers -> PCs] /\ group' \in [Workers -> Groups \cup {None}]
    <3>1. group \in [Workers -> Groups \cup {None}] /\ pc \in [Workers -> PCs]
      OBVIOUS
    <3>2. "pick" \in PCs
      OBVIOUS
    <3>. QED
      BY ONLY <2>4, <3>1, <3>2
  <2>. QED
    BY <2>1, <2>2, <2>3, <2>5, <2>6
<1>2. CASE PickHead(w)
  <2>1. group[w] \in Groups
    BY <1>2 DEF PickHead, SendersHold
  <2>2. queues[group[w]] # <<>> => Head(queues[group[w]]) \in Jobs
    BY <2>1, SequenceTypes
  <2>3. \/ item' = item /\ pc' = [pc EXCEPT ![w] = "finally"]
        \/ /\ \E h \in Jobs : item' = [item EXCEPT ![w] = h]
           /\ pc' = [pc EXCEPT ![w] = "sending"]
    BY <1>2, <2>2, Zenon DEF PickHead
  <2>4. item' \in [Workers -> Jobs \cup {None}] /\ pc' \in [Workers -> PCs]
    <3>1. item \in [Workers -> Jobs \cup {None}] /\ pc \in [Workers -> PCs]
      OBVIOUS
    <3>2. "finally" \in PCs /\ "sending" \in PCs
      OBVIOUS
    <3>. QED
      BY ONLY <2>3, <3>1, <3>2
  <2>5. UNCHANGED <<slotVars, scheduleVars, group, sending, stateVars, serverVars,
                    overtakes>>
    BY <1>2, Zenon DEF PickHead
  <2>. QED
    BY <2>4, <2>5
<1>3. CASE Notify(w)
  <2>1. item[w] \in Jobs
    BY <1>3 DEF Notify, SendersHold, InFlight
  <2>. QED
    BY <1>3, <2>1 DEF Notify
<1>4. CASE DeferGroup(w)
  <2>1. group[w] \in Groups
    BY <1>4 DEF DeferGroup, SendersHold
  <2>. QED
    BY <1>4, <2>1 DEF DeferGroup
<1>5. CASE EndDrain(w)
  <2>1. group[w] \in Groups
    BY <1>5 DEF EndDrain, SendersHold
  <2>. QED
    BY <1>5, <2>1 DEF EndDrain
<1>6. CASE StoreResult(w) \/ RefuseResult(w) \/ GiveUpResult(w)
  <2>1. item[w] \in Jobs
    BY <1>6 DEF StoreResult, RefuseResult, GiveUpResult, SendersHold, InFlight
  <2>. QED
    BY <1>6, <2>1 DEF StoreResult, RefuseResult, GiveUpResult
<1>7. CASE Unauthorized(w)
  BY <1>7 DEF Unauthorized
<1>8. CASE LoseExchange(w)
  BY <1>8 DEF LoseExchange
<1>. QED
  BY <1>1, <1>2, <1>3, <1>4, <1>5, <1>6, <1>7, <1>8 DEF Exchange

\* The head of a queue is the oldest job of its group that is still queued.
LEMMA HeadIsOldest ==
  ASSUME OutboxInv, NEW g \in Groups, queues[g] # <<>>
  PROVE  /\ Head(queues[g]) \in Jobs /\ job[Head(queues[g])] = "queued"
         /\ JobGroup[Head(queues[g])] = g
         /\ IsOldest(Head(queues[g]))
<1>. USE DEF OutboxInv
<1>. DEFINE h == Head(queues[g])
<1>1. queues[g] \in Seq(Jobs) /\ 1 \in DOMAIN queues[g] /\ h = queues[g][1]
  BY DEF TypeOK
<1>2. h \in Jobs /\ job[h] = "queued" /\ JobGroup[h] = g
  BY <1>1 DEF QueuesHoldQueued
<1>3. IsOldest(h)
  <2>. SUFFICES ASSUME NEW i \in DOMAIN order, NEW k \in DOMAIN order,
                       i < k, order[k] = h, JobGroup[order[i]] = g, job[order[i]] # "removed"
                PROVE  FALSE
    BY <1>2 DEF IsOldest
  <2>1. order[i] \in Jobs /\ job[order[i]] = "queued" /\ i \in Nat /\ k \in Nat
    BY DEF OrderIsHistory, TypeOK
  <2>2. PICK b \in DOMAIN queues[g] : queues[g][b] = order[i]
    BY <2>1 DEF NothingLost, InQueue
  <2>3. b # 1
    BY <1>1, <2>1, <2>2 DEF OrderIsHistory
  <2>4. k < i
    BY <1>1, <2>2, <2>3 DEF OrderIsHistory
  <2>. QED
    BY <2>1, <2>4
<1>. QED
  BY <1>2, <1>3

LEMMA SenderKeepsInv ==
  ASSUME OutboxAssumption, OutboxInv, NEW w \in Workers,
         \/ BeginDrain(w) \/ PickHead(w) \/ Notify(w) \/ DeferGroup(w) \/ EndDrain(w)
         \/ Exchange(w)
  PROVE  OutboxInv'
<1>. USE DEF slotVars, scheduleVars, senderVars, stateVars, serverVars
<1>1. UNCHANGED <<job, reserved, queued, queues, order>>
  BY DEF BeginDrain, PickHead, Notify, DeferGroup, EndDrain, Exchange, StoreResult,
     RefuseResult, GiveUpResult, Unauthorized, LoseExchange
<1>2. accepted \subseteq accepted' /\ refused \subseteq refused' /\ dropped \subseteq dropped'
  BY DEF BeginDrain, PickHead, Notify, DeferGroup, EndDrain, Exchange, StoreResult,
     RefuseResult, GiveUpResult, Unauthorized, LoseExchange
<1>3. /\ SlotAccounting' /\ NothingLost' /\ QueuesHoldQueued' /\ OrderIsHistory'
      /\ \A j \in Jobs : IsOldest(j)' <=> IsOldest(j)
  BY <1>1, <1>2, QueuesUntouched
<1>4. \A v \in Workers \ {w} : pc'[v] = pc[v] /\ group'[v] = group[v] /\ item'[v] = item[v]
  BY DEF BeginDrain, PickHead, Notify, DeferGroup, EndDrain, Exchange, StoreResult,
     RefuseResult, GiveUpResult, Unauthorized, LoseExchange, Goto, OutboxInv, TypeOK
<1>5. \A v \in Workers \ {w} :
        /\ pc'[v] # "idle" => group'[v] \in Groups
        /\ InFlight(v)' => item'[v] \in Jobs /\ job'[item'[v]] \in {"queued", "removed"}
        /\ pc'[v] = "stored" => item'[v] \in accepted'
        /\ pc'[v] = "refused" => item'[v] \in accepted' \cup refused' \cup dropped'
        /\ InFlight(v)' => IsOldest(item'[v])
  BY <1>1, <1>2, <1>4 DEF OutboxInv, SendersHold, SentInOrder, InFlight
<1>6. /\ pc'[w] # "idle" => group'[w] \in Groups
      /\ InFlight(w)' => item'[w] \in Jobs /\ job'[item'[w]] \in {"queued", "removed"}
      /\ pc'[w] = "stored" => item'[w] \in accepted'
      /\ pc'[w] = "refused" => item'[w] \in accepted' \cup refused' \cup dropped'
      /\ InFlight(w)' => IsOldest(item'[w])
  <2>. USE DEF OutboxInv, TypeOK, SendersHold, SentInOrder, InFlight, Goto
  <2>1. CASE BeginDrain(w)
    BY <2>1 DEF BeginDrain
  <2>2. CASE PickHead(w)
    BY <1>1, <2>2, HeadIsOldest DEF PickHead
  <2>3. CASE Notify(w) \/ DeferGroup(w) \/ EndDrain(w)
    BY <2>3 DEF Notify, DeferGroup, EndDrain
  <2>4. CASE StoreResult(w) \/ RefuseResult(w)
    BY <1>1, <2>4 DEF StoreResult, RefuseResult
  <2>5. CASE GiveUpResult(w)
    BY <1>1, <2>5 DEF GiveUpResult
  <2>6. CASE Unauthorized(w) \/ LoseExchange(w)
    BY <1>1, <2>6 DEF Unauthorized, LoseExchange
  <2>. QED
    BY <2>1, <2>2, <2>3, <2>4, <2>5, <2>6 DEF Exchange
<1>7. SendersHold'
  BY <1>5, <1>6 DEF SendersHold
<1>8. \A j \in accepted' : job'[j] \in {"queued", "removed"} /\ IsOldest(j)
  BY <1>1 DEF OutboxInv, SendersHold, SentInOrder, InFlight, BeginDrain, PickHead, Notify,
     DeferGroup, EndDrain, Exchange, StoreResult, RefuseResult, GiveUpResult, Unauthorized,
     LoseExchange
<1>9. TypeOK' /\ TimersArmed'
  BY SenderKeepsTypes
<1>10. SentInOrder'
  BY <1>3, <1>5, <1>6, <1>8, <1>9 DEF SentInOrder, TypeOK
<1>. QED
  BY <1>3, <1>7, <1>9, <1>10 DEF OutboxInv

-----------------------------------------------------------------------------
(* The steps that move a job. *)

LEMMA LatchTypes ==
  ASSUME NEW size, UpdateBacklogLatch(size)
  PROVE  latched' \in BOOLEAN /\ eventLatch' \in BOOLEAN
BY DEF UpdateBacklogLatch

\* What the senders know survives any step that neither moves a sender nor puts
\* a queued or removed job back.
LEMMA SendersUntouched ==
  ASSUME OutboxInv, UNCHANGED <<pc, group, item, accepted, refused, dropped>>,
         \A j \in Jobs : job[j] \in {"queued", "removed"} => job'[j] \in {"queued", "removed"}
  PROVE  SendersHold' /\ \A j \in accepted' : job'[j] \in {"queued", "removed"}
BY DEF OutboxInv, TypeOK, SendersHold, SentInOrder, InFlight

LEMMA ReserveKeepsInv ==
  ASSUME OutboxAssumption, OutboxInv, NEW j \in Jobs, ReserveSlot(j) \/ ReleaseSlot(j)
  PROVE  OutboxInv'
<1>. USE DEF slotVars, scheduleVars, senderVars, stateVars, serverVars
<1>1. PICK s \in {"idle", "reserved"} :
        /\ job' = [job EXCEPT ![j] = s]
        /\ job[j] \in {"idle", "reserved"} /\ job[j] # s
        /\ reserved' = IF s = "reserved" THEN reserved + 1 ELSE reserved - 1
        /\ s = "reserved" => reserved + queued < Capacity
  BY DEF ReserveSlot, ReleaseSlot
<1>2. /\ UNCHANGED <<queued, queues, order, scheduleVars, senderVars, stateVars,
                     serverVars, overtakes>>
      /\ emitting' \subseteq emitting \cup {j}
      /\ \E size : UpdateBacklogLatch(size)
  BY DEF ReserveSlot, ReleaseSlot
<1>3. job \in [Jobs -> {"idle", "reserved", "queued", "removed"}]
  BY DEF OutboxInv, TypeOK
<1>4. \A i \in Jobs : /\ job[i] = "queued" <=> job'[i] = "queued"
                      /\ job[i] = "removed" <=> job'[i] = "removed"
  BY <1>1, <1>3
<1>5. SlotAccounting' /\ reserved' \in Nat
  <2>1. Accounted(job, reserved, queued) /\ reserved \in Nat /\ queued \in Nat
    BY AccountingAt DEF OutboxInv, TypeOK
  <2>2. Accounted(job', reserved', queued') /\ reserved' \in Nat
    <3>1. CASE s = "reserved"
      <4>1. Moves(job, job', j, "idle", "reserved")
        BY <1>1, <1>3, <3>1 DEF Moves
      <4>2. /\ Cardinality(At(job, "reserved")) \in Nat
            /\ Cardinality(At(job', "reserved")) = Cardinality(At(job, "reserved")) + 1
            /\ At(job', "queued") = At(job, "queued")
        BY <4>1, JobMoves DEF OutboxAssumption
      <4>. QED
        BY <1>1, <1>2, <2>1, <3>1, <4>2 DEF Accounted, OutboxAssumption
    <3>2. CASE s = "idle"
      <4>1. Moves(job, job', j, "reserved", "idle")
        BY <1>1, <1>3, <3>2 DEF Moves
      <4>2. /\ Cardinality(At(job, "reserved")) \in Nat \ {0}
            /\ Cardinality(At(job', "reserved")) = Cardinality(At(job, "reserved")) - 1
            /\ At(job', "queued") = At(job, "queued")
        BY <4>1, JobMoves DEF OutboxAssumption
      <4>. QED
        BY <1>1, <1>2, <2>1, <3>2, <4>2 DEF Accounted, OutboxAssumption
    <3>. QED
      BY <1>1, <3>1, <3>2
  <2>. QED
    BY <2>2, AccountingAt
<1>6. TypeOK' /\ TimersArmed'
  <2>1. reserved' \in 0 .. Capacity
    BY <1>2, <1>5 DEF SlotAccounting, OutboxInv, TypeOK, OutboxAssumption
  <2>2. job' \in [Jobs -> {"idle", "reserved", "queued", "removed"}]
    BY <1>1, <1>3
  <2>3. latched' \in BOOLEAN /\ eventLatch' \in BOOLEAN
    BY <1>2, LatchTypes
  <2>. QED
    BY <1>2, <2>1, <2>2, <2>3 DEF OutboxInv, TypeOK, TimersArmed
<1>7. NothingLost'
  BY <1>2, <1>4 DEF OutboxInv, NothingLost, InQueue
<1>8. QueuesHoldQueued' /\ OrderIsHistory'
  <2>1. \A g \in Groups : \A a \in DOMAIN queues[g] : queues[g][a] \in Jobs
    BY DEF OutboxInv, TypeOK
  <2>2. \A i \in DOMAIN order : order[i] \in Jobs
    BY DEF OutboxInv, TypeOK
  <2>. QED
    BY <1>2, <1>4, <2>1, <2>2, <1>3 DEF OutboxInv, QueuesHoldQueued, OrderIsHistory
<1>9. \A i \in Jobs : IsOldest(i) => IsOldest(i)'
  BY <1>2, <1>4 DEF IsOldest, OutboxInv, TypeOK
<1>10. SendersHold' /\ SentInOrder'
  <2>1. SendersHold' /\ \A i \in accepted' : job'[i] \in {"queued", "removed"}
    BY <1>2, <1>4, SendersUntouched
  <2>. QED
    BY <1>2, <1>9, <2>1 DEF OutboxInv, TypeOK, SendersHold, SentInOrder, InFlight
<1>. QED
  BY <1>5, <1>6, <1>7, <1>8, <1>10 DEF OutboxInv

LEMMA EnqueueKeepsInv ==
  ASSUME OutboxAssumption, OutboxInv, NEW j \in Jobs, Enqueue(j)
  PROVE  OutboxInv'
<1>. USE DEF slotVars, scheduleVars, senderVars, stateVars, serverVars
<1>. DEFINE g == JobGroup[j]
<1>1. /\ job[j] = "reserved"
      /\ job' = [job EXCEPT ![j] = "queued"]
      /\ reserved' = reserved - 1 /\ queued' = queued + 1
      /\ queues' = [queues EXCEPT ![g] = Append(queues[g], j)]
      /\ order' = Append(order, j)
      /\ calls' = calls \cup {g}
  BY DEF Enqueue
<1>2. /\ UNCHANGED <<active, timers, armed, pool, senderVars, stateVars, serverVars,
                     overtakes>>
      /\ emitting' \subseteq emitting \cup {j}
      /\ \E size : UpdateBacklogLatch(size)
  BY DEF Enqueue
<1>3. /\ job \in [Jobs -> {"idle", "reserved", "queued", "removed"}]
      /\ queues \in [Groups -> Seq(Jobs)] /\ order \in Seq(Jobs) /\ g \in Groups
  BY DEF OutboxInv, TypeOK, OutboxAssumption
<1>4. \A i \in Jobs \ {j} : job'[i] = job[i]
  BY <1>1, <1>3
<1>5. SlotAccounting' /\ reserved' \in Nat /\ queued' \in Nat
  <2>1. Accounted(job, reserved, queued) /\ reserved \in Nat /\ queued \in Nat
    BY AccountingAt DEF OutboxInv, TypeOK
  <2>2. Accounted(job', reserved', queued') /\ reserved' \in Nat /\ queued' \in Nat
    <3>1. Moves(job, job', j, "reserved", "queued")
      BY <1>1, <1>3 DEF Moves
    <3>2. /\ Cardinality(At(job, "reserved")) \in Nat \ {0}
          /\ Cardinality(At(job', "reserved")) = Cardinality(At(job, "reserved")) - 1
          /\ Cardinality(At(job', "queued")) = Cardinality(At(job, "queued")) + 1
      BY <3>1, JobMoves DEF OutboxAssumption
    <3>. QED
      BY <1>1, <2>1, <3>2 DEF Accounted, OutboxAssumption
  <2>. QED
    BY <2>2, AccountingAt
<1>6. TypeOK' /\ TimersArmed'
  <2>1. reserved' \in 0 .. Capacity /\ queued' \in 0 .. Capacity
    BY <1>2, <1>5 DEF SlotAccounting, OutboxInv, TypeOK, OutboxAssumption
  <2>2. job' \in [Jobs -> {"idle", "reserved", "queued", "removed"}]
    BY <1>1, <1>3
  <2>3. latched' \in BOOLEAN /\ eventLatch' \in BOOLEAN
    BY <1>2, LatchTypes
  <2>4. queues' \in [Groups -> Seq(Jobs)] /\ order' \in Seq(Jobs)
    BY <1>1, <1>3, SequenceTypes
  <2>. QED
    BY <1>1, <1>2, <1>3, <2>1, <2>2, <2>3, <2>4 DEF OutboxInv, TypeOK, TimersArmed
\* The queue and the history grow by j, which was in neither.
<1>7. /\ \A h \in Groups \ {g} : queues'[h] = queues[h]
      /\ DOMAIN queues'[g] = 1 .. Len(queues[g]) + 1
      /\ DOMAIN queues[g] = 1 .. Len(queues[g])
      /\ \A a \in DOMAIN queues[g] : queues'[g][a] = queues[g][a] /\ queues[g][a] # j
      /\ queues'[g][Len(queues[g]) + 1] = j
      /\ Len(queues[g]) \in Nat
  <2>1. queues[g] \in Seq(Jobs) /\ queues'[g] = Append(queues[g], j)
    BY <1>1, <1>3
  <2>2. \A a \in DOMAIN queues[g] : queues[g][a] # j
    BY <1>1, <1>3 DEF OutboxInv, QueuesHoldQueued
  <2>3. \A h \in Groups \ {g} : queues'[h] = queues[h]
    BY <1>1, <1>3
  <2>. QED
    BY <2>1, <2>2, <2>3
<1>8. /\ DOMAIN order' = 1 .. Len(order) + 1 /\ DOMAIN order = 1 .. Len(order)
      /\ \A i \in DOMAIN order : order'[i] = order[i] /\ order[i] # j /\ order[i] \in Jobs
      /\ order'[Len(order) + 1] = j
      /\ Len(order) \in Nat
  <2>1. \A i \in DOMAIN order : order[i] # j
    BY <1>1 DEF OutboxInv, OrderIsHistory
  <2>. QED
    BY <1>1, <1>3, <2>1
<1>. HIDE DEF g
<1>9. \A h \in Groups : \A a \in DOMAIN queues[h] : queues[h][a] \in Jobs \ {j}
  <2>1. \A h \in Groups : \A a \in DOMAIN queues[h] :
          queues[h][a] \in Jobs /\ job[queues[h][a]] = "queued"
    BY <1>3 DEF OutboxInv, QueuesHoldQueued
  <2>. QED
    BY <1>1, <2>1
<1>10. NothingLost'
  <2>1. \A i \in Jobs : job'[i] = "removed" => i \in accepted' \cup refused' \cup dropped'
    BY <1>1, <1>2, <1>3, <1>4 DEF OutboxInv, NothingLost
  <2>2. InQueue(j)' /\ job'[j] = "queued"
    <3>1. Len(queues[g]) + 1 \in DOMAIN queues'[g]
      BY <1>7
    <3>2. job'[j] = "queued"
      BY <1>1, <1>3
    <3>. QED
      BY <1>7, <3>1, <3>2 DEF InQueue, g
  <2>3. \A i \in Jobs \ {j} : InQueue(i)' <=> InQueue(i)
    <3>. SUFFICES ASSUME NEW i \in Jobs \ {j} PROVE InQueue(i)' <=> InQueue(i)
      OBVIOUS
    <3>1. JobGroup[i] \in Groups
      BY DEF OutboxAssumption
    <3>2. CASE JobGroup[i] = g
      BY <1>7, <3>2 DEF InQueue
    <3>3. CASE JobGroup[i] # g
      BY <1>7, <3>1, <3>3 DEF InQueue
    <3>. QED
      BY <3>2, <3>3
  <2>. QED
    BY <1>4, <2>1, <2>2, <2>3 DEF OutboxInv, NothingLost
<1>11. QueuesHoldQueued'
  <2>. SUFFICES ASSUME NEW h \in Groups, NEW a \in DOMAIN queues'[h]
                PROVE  /\ job'[queues'[h][a]] = "queued" /\ JobGroup[queues'[h][a]] = h
                       /\ \A b \in DOMAIN queues'[h] : queues'[h][a] = queues'[h][b] => a = b
    BY DEF QueuesHoldQueued
  <2>1. CASE h # g
    BY <1>4, <1>7, <1>9, <2>1 DEF OutboxInv, QueuesHoldQueued
  <2>2. CASE h = g /\ a \in DOMAIN queues[g]
    BY <1>4, <1>7, <1>9, <2>2 DEF OutboxInv, QueuesHoldQueued
  <2>3. CASE h = g /\ a = Len(queues[g]) + 1
    BY <1>1, <1>3, <1>7, <2>3 DEF g
  <2>. QED
    BY <1>7, <2>1, <2>2, <2>3
<1>12. OrderIsHistory'
  <2>1. \A i, k \in DOMAIN order' : order'[i] = order'[k] => i = k
    BY <1>8 DEF OutboxInv, OrderIsHistory
  <2>2. \A i \in DOMAIN order' : job'[order'[i]] \in {"queued", "removed"}
    <3>1. \A i \in DOMAIN order : job'[order[i]] = job[order[i]]
      BY <1>4, <1>8
    <3>2. job'[j] = "queued"
      BY <1>1, <1>3
    <3>. QED
      BY <1>8, <3>1, <3>2 DEF OutboxInv, OrderIsHistory
  <2>3. ASSUME NEW h \in Groups, NEW a \in DOMAIN queues'[h], NEW b \in DOMAIN queues'[h],
               NEW i \in DOMAIN order', NEW k \in DOMAIN order',
               a < b, order'[i] = queues'[h][a], order'[k] = queues'[h][b]
        PROVE  i < k
    <3>1. a \in DOMAIN queues[h] /\ queues'[h][a] = queues[h][a] /\ queues[h][a] # j
      <4>1. CASE h = g
        BY <1>7, <2>3, <4>1
      <4>2. CASE h # g
        BY <1>7, <1>9, <2>3, <4>2
      <4>. QED
        BY <4>1, <4>2
    <3>2. i \in DOMAIN order /\ order[i] = queues[h][a]
      BY <1>8, <2>3, <3>1
    <3>3. CASE b \in DOMAIN queues[h]
      <4>1. queues'[h][b] = queues[h][b] /\ queues[h][b] # j
        BY <1>7, <1>9, <3>3
      <4>2. k \in DOMAIN order /\ order[k] = queues[h][b]
        BY <1>8, <2>3, <4>1
      <4>. QED
        BY <2>3, <3>1, <3>2, <3>3, <4>2 DEF OutboxInv, OrderIsHistory
    <3>4. CASE b \notin DOMAIN queues[h]
      <4>1. queues'[h][b] = j
        BY <1>7, <3>4
      <4>2. k = Len(order) + 1
        BY <1>8, <2>3, <4>1
      <4>. QED
        BY <1>8, <3>2, <4>2
    <3>. QED
      BY <3>3, <3>4
  <2>. QED
    BY <2>1, <2>2, <2>3 DEF OrderIsHistory
<1>13. \A i \in Jobs \ {j} : IsOldest(i) => IsOldest(i)'
  BY <1>4, <1>8 DEF IsOldest
<1>14. SendersHold' /\ SentInOrder'
  <2>1. SendersHold' /\ \A i \in accepted' : job'[i] \in {"queued", "removed"}
    BY <1>1, <1>2, <1>3, <1>4, SendersUntouched
  <2>2. j \notin accepted /\ \A w \in Workers : InFlight(w) => item[w] \in Jobs \ {j}
    BY <1>1 DEF OutboxInv, SendersHold, SentInOrder
  <2>. QED
    BY <1>2, <1>13, <2>1, <2>2 DEF OutboxInv, TypeOK, SentInOrder, InFlight
<1>. QED
  BY <1>5, <1>6, <1>10, <1>11, <1>12, <1>14 DEF OutboxInv
\* An answer that finds its item still at the head of the queue removes it; one
\* that does not (another drain's answer came first) removes nothing.
LEMMA SettleKeepsInv ==
  ASSUME OutboxAssumption, OutboxInv, NEW w \in Workers, Settle(w)
  PROVE  OutboxInv'
<1>. USE DEF slotVars, scheduleVars, senderVars, stateVars, serverVars
<1>0. PICK g \in Groups, x \in Jobs : g = group[w] /\ x = item[w]
  BY DEF Settle, OutboxInv, SendersHold, InFlight
<1>. DEFINE q == queues[g]
<1>1. /\ pc[w] \in {"stored", "refused"}
      /\ pc' = [pc EXCEPT ![w] = "acked"]
      /\ RemoveHead(g, x)
      /\ UNCHANGED <<reserved, emitting, order, scheduleVars, group, item, sending,
                     stateVars, serverVars, overtakes>>
  BY <1>0 DEF Settle, Goto
<1>2. /\ job \in [Jobs -> {"idle", "reserved", "queued", "removed"}]
      /\ queues \in [Groups -> Seq(Jobs)] /\ order \in Seq(Jobs)
      /\ pc \in [Workers -> PCs] /\ pc' \in [Workers -> PCs]
  BY <1>1 DEF OutboxInv, TypeOK, PCs
<1>3. g \in Groups /\ x \in Jobs /\ x \in accepted \cup refused \cup dropped
  BY <1>0, <1>1 DEF OutboxInv, SendersHold, InFlight
<1>4. \A v \in Workers : /\ pc'[v] = pc[v] \/ (v = w /\ pc'[v] = "acked")
                         /\ InFlight(v)' => InFlight(v)
  BY <1>1, <1>2 DEF InFlight
<1>. HIDE DEF q
<1>5. CASE ~(q # <<>> /\ Head(q) = x)
  <2>1. UNCHANGED <<queues, queued, job, latched, eventLatch>>
    BY <1>1, <1>5 DEF RemoveHead, q
  <2>2. /\ SlotAccounting' /\ NothingLost' /\ QueuesHoldQueued' /\ OrderIsHistory'
        /\ \A j \in Jobs : IsOldest(j)' <=> IsOldest(j)
    BY <1>1, <2>1, QueuesUntouched
  <2>3. TypeOK' /\ TimersArmed'
    BY <1>1, <1>2, <2>1 DEF OutboxInv, TypeOK, TimersArmed
  <2>4. SendersHold'
    BY <1>1, <1>4, <2>1 DEF OutboxInv, SendersHold
  <2>5. SentInOrder'
    BY <1>1, <1>4, <2>1, <2>2 DEF OutboxInv, TypeOK, SentInOrder, SendersHold
  <2>. QED
    BY <2>2, <2>3, <2>4, <2>5 DEF OutboxInv
<1>6. CASE q # <<>> /\ Head(q) = x
  <2>1. /\ queues' = [queues EXCEPT ![g] = Tail(queues[g])]
        /\ queued' = queued - 1
        /\ job' = [job EXCEPT ![x] = "removed"]
        /\ UpdateBacklogLatch(reserved + queued')
    BY <1>1, <1>6 DEF RemoveHead, q
  <2>2. job[x] = "queued" /\ JobGroup[x] = g
    BY <1>3, <1>6, HeadIsOldest DEF q
  <2>3. \A i \in Jobs \ {x} : job'[i] = job[i]
    BY <1>2, <2>1
  <2>4. job'[x] = "removed"
    BY <1>2, <1>3, <2>1
  <2>5. SlotAccounting' /\ queued' \in Nat
    <3>1. Accounted(job, reserved, queued) /\ reserved \in Nat /\ queued \in Nat
      BY AccountingAt DEF OutboxInv, TypeOK
    <3>2. Moves(job, job', x, "queued", "removed")
      BY <1>3, <2>2, <2>3, <2>4 DEF Moves
    <3>3. /\ Cardinality(At(job, "queued")) \in Nat \ {0}
          /\ Cardinality(At(job', "queued")) = Cardinality(At(job, "queued")) - 1
          /\ At(job', "reserved") = At(job, "reserved")
      BY <3>2, JobMoves DEF OutboxAssumption
    <3>4. Accounted(job', reserved', queued') /\ queued' \in Nat
      BY <1>1, <2>1, <3>1, <3>3 DEF Accounted, OutboxAssumption
    <3>. QED
      BY <3>4, AccountingAt
  <2>6. TypeOK' /\ TimersArmed'
    <3>1. queued' \in 0 .. Capacity
      BY <1>1, <2>5 DEF SlotAccounting, OutboxInv, TypeOK, OutboxAssumption
    <3>2. latched' \in BOOLEAN /\ eventLatch' \in BOOLEAN
      BY <2>1, LatchTypes
    <3>3. Tail(queues[g]) \in Seq(Jobs)
      BY <1>2, <1>3, <1>6, SequenceTypes DEF q
    <3>4. queues' \in [Groups -> Seq(Jobs)]
      BY <1>2, <2>1, <3>3
    <3>5. job' \in [Jobs -> {"idle", "reserved", "queued", "removed"}]
      BY <1>2, <2>1
    <3>. QED
      BY <1>1, <1>2, <3>1, <3>2, <3>4, <3>5 DEF OutboxInv, TypeOK, TimersArmed
  \* The queue loses its first element, which occurs nowhere else in it.
  <2>7. /\ \A h \in Groups \ {g} : queues'[h] = queues[h]
        /\ DOMAIN queues[g] = 1 .. Len(q) /\ Len(q) \in Nat \ {0}
        /\ DOMAIN queues'[g] = 1 .. Len(q) - 1
        /\ \A a \in 1 .. Len(q) - 1 : queues'[g][a] = queues[g][a + 1]
        /\ queues[g][1] = x
        /\ \A a \in 2 .. Len(q) : queues[g][a] # x
    <3>1. q \in Seq(Jobs) /\ queues'[g] = Tail(q) /\ q = queues[g]
      BY <1>2, <1>3, <2>1 DEF q
    <3>2. Len(q) \in Nat \ {0} /\ DOMAIN q = 1 .. Len(q) /\ q[1] = x
      BY <1>6, <3>1
    <3>3. \A a \in 2 .. Len(q) : q[a] # x
      BY <1>3, <3>1, <3>2 DEF OutboxInv, QueuesHoldQueued
    <3>4. DOMAIN Tail(q) = 1 .. Len(q) - 1 /\ \A a \in 1 .. Len(q) - 1 : Tail(q)[a] = q[a + 1]
      BY <1>6, <3>1
    <3>5. \A h \in Groups \ {g} : queues'[h] = queues[h]
      BY <1>2, <2>1
    <3>. QED
      BY <3>1, <3>2, <3>3, <3>4, <3>5
  <2>8. \A h \in Groups : \A a \in DOMAIN queues[h] :
          queues[h][a] \in Jobs /\ JobGroup[queues[h][a]] = h /\ job[queues[h][a]] = "queued"
    BY <1>2 DEF OutboxInv, QueuesHoldQueued
  \* An element of a queue is an element of the old one, at the same or the next place.
  <2>9. \A h \in Groups : \A a \in DOMAIN queues'[h] :
          LET old == IF h = g THEN a + 1 ELSE a
          IN  old \in DOMAIN queues[h] /\ queues'[h][a] = queues[h][old]
              /\ queues[h][old] \in Jobs \ {x}
    <3>. SUFFICES ASSUME NEW h \in Groups, NEW a \in DOMAIN queues'[h]
                  PROVE  LET old == IF h = g THEN a + 1 ELSE a
                         IN  old \in DOMAIN queues[h] /\ queues'[h][a] = queues[h][old]
                             /\ queues[h][old] \in Jobs \ {x}
      OBVIOUS
    <3>1. CASE h = g
      <4>1. a \in 1 .. Len(q) - 1 /\ Len(q) \in Nat
        BY <2>7, <3>1
      <4>2. a + 1 \in DOMAIN queues[g] /\ a + 1 \in 2 .. Len(q)
        BY <2>7, <4>1
      <4>. QED
        BY <1>3, <2>7, <2>8, <3>1, <4>1, <4>2
    <3>2. CASE h # g
      BY <2>2, <2>7, <2>8, <3>2
    <3>. QED
      BY <3>1, <3>2
  <2>10. NothingLost'
    <3>1. ~InQueue(x)'
      <4>1. \A a \in DOMAIN queues'[g] : queues'[g][a] # x
        BY <1>3, <2>9
      <4>. QED
        BY <2>2, <4>1 DEF InQueue
    <3>2. \A i \in Jobs \ {x} : InQueue(i)' <=> InQueue(i)
      <4>. SUFFICES ASSUME NEW i \in Jobs \ {x} PROVE InQueue(i)' <=> InQueue(i)
        OBVIOUS
      <4>1. JobGroup[i] \in Groups
        BY DEF OutboxAssumption
      <4>2. InQueue(i)' => InQueue(i)
        BY <2>9, <4>1 DEF InQueue
      <4>3. ASSUME InQueue(i) PROVE InQueue(i)'
        <5>1. PICK b \in DOMAIN queues[JobGroup[i]] : queues[JobGroup[i]][b] = i
          BY <4>3 DEF InQueue
        <5>2. CASE JobGroup[i] # g
          BY <2>7, <4>1, <5>1, <5>2 DEF InQueue
        <5>3. CASE JobGroup[i] = g
          <6>1. b \in 1 .. Len(q) /\ b # 1 /\ Len(q) \in Nat
            BY <2>7, <5>1, <5>3
          <6>2. b - 1 \in 1 .. Len(q) - 1 /\ (b - 1) + 1 = b
            BY <6>1
          <6>3. b - 1 \in DOMAIN queues'[g] /\ queues'[g][b - 1] = i
            BY <2>7, <5>1, <5>3, <6>2
          <6>. QED
            BY <5>3, <6>3 DEF InQueue
        <5>. QED
          BY <5>2, <5>3
      <4>. QED
        BY <4>2, <4>3
    <3>. QED
      <4>1. \A i \in Jobs : job'[i] = "removed" => i \in accepted' \cup refused' \cup dropped'
        BY <1>1, <1>3, <2>3 DEF OutboxInv, NothingLost
      <4>2. \A i \in Jobs \ {x} : job[i] = "queued" <=> InQueue(i)
        BY DEF OutboxInv, NothingLost
      <4>3. \A i \in Jobs : job'[i] = "queued" <=> InQueue(i)'
        <5>. SUFFICES ASSUME NEW i \in Jobs PROVE job'[i] = "queued" <=> InQueue(i)'
          OBVIOUS
        <5>1. CASE i = x
          BY <2>4, <3>1, <5>1
        <5>2. CASE i # x
          <6>1. job'[i] = job[i] /\ (job[i] = "queued" <=> InQueue(i))
            BY <2>3, <4>2, <5>2
          <6>2. InQueue(i)' <=> InQueue(i)
            BY <3>2, <5>2
          <6>. QED
            BY ONLY <6>1, <6>2
        <5>. QED
          BY <5>1, <5>2
      <4>. QED
        BY <4>1, <4>3 DEF NothingLost
  <2>11. QueuesHoldQueued'
    <3>. SUFFICES ASSUME NEW h \in Groups, NEW a \in DOMAIN queues'[h]
                  PROVE  /\ job'[queues'[h][a]] = "queued" /\ JobGroup[queues'[h][a]] = h
                         /\ \A b \in DOMAIN queues'[h] : queues'[h][a] = queues'[h][b] => a = b
      BY DEF QueuesHoldQueued
    <3>1. job'[queues'[h][a]] = "queued" /\ JobGroup[queues'[h][a]] = h
      BY <2>3, <2>8, <2>9
    <3>2. ASSUME NEW b \in DOMAIN queues'[h], queues'[h][a] = queues'[h][b] PROVE a = b
      <4>1. CASE h = g
        <5>1. a \in 1 .. Len(q) - 1 /\ b \in 1 .. Len(q) - 1 /\ Len(q) \in Nat
          BY <2>7, <3>2, <4>1
        <5>2. a + 1 \in DOMAIN queues[g] /\ b + 1 \in DOMAIN queues[g]
          BY <2>7, <5>1
        <5>3. queues[g][a + 1] = queues[g][b + 1]
          BY <2>7, <3>2, <4>1, <5>1
        <5>4. a + 1 = b + 1
          BY <1>3, <5>2, <5>3 DEF OutboxInv, QueuesHoldQueued
        <5>. QED
          BY <5>1, <5>4
      <4>2. CASE h # g
        BY <2>7, <3>2, <4>2 DEF OutboxInv, QueuesHoldQueued
      <4>. QED
        BY <4>1, <4>2
    <3>. QED
      BY <3>1, <3>2
  <2>12. OrderIsHistory'
    <3>1. \A i, k \in DOMAIN order' : order'[i] = order'[k] => i = k
      BY <1>1 DEF OutboxInv, OrderIsHistory
    <3>2. \A i \in DOMAIN order' : job'[order'[i]] \in {"queued", "removed"}
      <4>1. \A i \in DOMAIN order : order[i] \in Jobs
        BY <1>2
      <4>. QED
        BY <1>1, <2>3, <2>4, <4>1 DEF OutboxInv, OrderIsHistory
    <3>3. ASSUME NEW h \in Groups, NEW a \in DOMAIN queues'[h], NEW b \in DOMAIN queues'[h],
                 NEW i \in DOMAIN order', NEW k \in DOMAIN order',
                 a < b, order'[i] = queues'[h][a], order'[k] = queues'[h][b]
          PROVE  i < k
      <4>1. CASE h = g
        <5>1. a \in 1 .. Len(q) - 1 /\ b \in 1 .. Len(q) - 1 /\ Len(q) \in Nat
          BY <2>7, <4>1
        <5>2. /\ a + 1 \in DOMAIN queues[g] /\ b + 1 \in DOMAIN queues[g] /\ a + 1 < b + 1
          BY <2>7, <3>3, <5>1
        <5>3. order[i] = queues[g][a + 1] /\ order[k] = queues[g][b + 1]
          BY <1>1, <2>7, <3>3, <4>1, <5>1
        <5>. QED
          BY <1>1, <1>3, <5>2, <5>3 DEF OutboxInv, OrderIsHistory
      <4>2. CASE h # g
        BY <1>1, <2>7, <3>3, <4>2 DEF OutboxInv, OrderIsHistory
      <4>. QED
        BY <4>1, <4>2
    <3>. QED
      BY <3>1, <3>2, <3>3 DEF OrderIsHistory
  <2>13. \A j \in Jobs : IsOldest(j) => IsOldest(j)'
    <3>1. \A i \in DOMAIN order : order[i] \in Jobs
      BY <1>2
    <3>. QED
      BY <1>1, <2>3, <2>4, <3>1 DEF IsOldest
  <2>14. \A j \in Jobs : job[j] \in {"queued", "removed"} => job'[j] \in {"queued", "removed"}
    BY <2>3, <2>4
  <2>15. SendersHold'
    BY <1>1, <1>4, <2>14 DEF OutboxInv, SendersHold
  <2>16. SentInOrder'
    BY <1>1, <1>4, <2>13, <2>14 DEF OutboxInv, TypeOK, SentInOrder, SendersHold
  <2>. QED
    BY <2>5, <2>6, <2>10, <2>11, <2>12, <2>15, <2>16 DEF OutboxInv
<1>. QED
  BY <1>5, <1>6

-----------------------------------------------------------------------------
LEMMA InitOutboxInv ==
  ASSUME OutboxAssumption, Init
  PROVE  OutboxInv
<1>. USE DEF Init
<1>1. TypeOK
  <2>1. <<>> \in Seq(Jobs) /\ <<>> \in Seq(Groups)
    OBVIOUS
  <2>2. 0 \in 0 .. Capacity /\ 0 \in 0 .. MaxMishaps
    BY DEF OutboxAssumption
  <2>3. /\ queues \in [Groups -> Seq(Jobs)] /\ order \in Seq(Jobs) /\ pool \in Seq(Groups)
        /\ pc \in [Workers -> PCs]
    BY <2>1 DEF PCs
  <2>. QED
    BY <2>2, <2>3 DEF TypeOK
<1>5. TimersArmed /\ SendersHold
  BY DEF TimersArmed, SendersHold, InFlight
<1>2. SlotAccounting
  <2>1. JobsIn("reserved") = {} /\ JobsIn("queued") = {}
    BY DEF JobsIn
  <2>2. Cardinality(JobsIn("reserved")) = 0 /\ Cardinality(JobsIn("queued")) = 0
    BY <2>1, FS_EmptySet
  <2>3. 0 + 0 <= Capacity
    BY DEF OutboxAssumption
  <2>. QED
    BY <2>2, <2>3 DEF SlotAccounting
<1>3. NothingLost
  BY DEF NothingLost, InQueue, OutboxAssumption
<1>4. QueuesHoldQueued /\ OrderIsHistory /\ SentInOrder
  BY DEF QueuesHoldQueued, OrderIsHistory, SentInOrder, InFlight
<1>. QED
  BY <1>1, <1>2, <1>3, <1>4, <1>5 DEF OutboxInv

LEMMA NextOutboxInv ==
  ASSUME OutboxAssumption, OutboxInv, [Next]_vars
  PROVE  OutboxInv'
<1>1. ASSUME NEW j \in Jobs, ReserveSlot(j) \/ ReleaseSlot(j) PROVE OutboxInv'
  BY <1>1, ReserveKeepsInv
<1>2. ASSUME NEW j \in Jobs, Enqueue(j) PROVE OutboxInv'
  BY <1>2, EnqueueKeepsInv
<1>3. ASSUME NEW j \in Jobs, EmitBacklog(j) PROVE OutboxInv'
  BY <1>3, SchedulingKeepsInv
<1>4. ASSUME NEW g \in Groups, ScheduleGroup(g) \/ RetryGroup(g) PROVE OutboxInv'
  BY <1>4, SchedulingKeepsInv
<1>5. CASE Wake \/ Halt \/ Recover \/ Close \/ EndClose
  BY <1>5, SchedulingKeepsInv
<1>6. ASSUME NEW w \in Workers, Settle(w) PROVE OutboxInv'
  BY <1>6, SettleKeepsInv
<1>7. ASSUME NEW w \in Workers,
             \/ BeginDrain(w) \/ PickHead(w) \/ Notify(w) \/ DeferGroup(w) \/ EndDrain(w)
             \/ Exchange(w)
      PROVE  OutboxInv'
  BY <1>7, SenderKeepsInv
<1>8. CASE UNCHANGED vars
  <2>. USE <1>8 DEF vars, slotVars, scheduleVars, senderVars, stateVars, serverVars
  <2>1. /\ SlotAccounting' /\ NothingLost' /\ QueuesHoldQueued' /\ OrderIsHistory'
        /\ \A j \in Jobs : IsOldest(j)' <=> IsOldest(j)
    BY QueuesUntouched
  <2>2. TypeOK' /\ TimersArmed'
    BY DEF OutboxInv, TypeOK, TimersArmed
  <2>3. SendersHold'
    BY DEF OutboxInv, SendersHold, InFlight
  <2>4. SentInOrder'
    BY DEF OutboxInv, SentInOrder, InFlight, IsOldest
  <2>. QED
    BY <2>1, <2>2, <2>3, <2>4 DEF OutboxInv
<1>. QED
  BY <1>1, <1>2, <1>3, <1>4, <1>5, <1>6, <1>7, <1>8, Zenon DEF Next, Execution, Sender

-----------------------------------------------------------------------------
(* The invariant behind the others is inductive: it holds at every step.     *)
THEOREM OutboxInvariant == Spec => []OutboxInv
<1>1. Init => OutboxInv
  BY InitOutboxInv, OutboxAssumption
<1>2. OutboxInv /\ [Next]_vars => OutboxInv'
  BY NextOutboxInv, OutboxAssumption
<1>. QED
  BY <1>1, <1>2, PTL DEF Spec

(* The outbox keeps its state well typed: counters within the capacity.      *)
THEOREM OutboxTypeCorrect == Spec => []TypeOK
<1>1. OutboxInv => TypeOK
  BY DEF OutboxInv
<1>. QED
  BY <1>1, OutboxInvariant, PTL

(* For any capacity and however drains of a group overlap, the slot counters *)
(* count exactly the reservations and the queued results.                    *)
THEOREM OutboxSlotAccounting == Spec => []SlotAccounting
<1>1. OutboxInv => SlotAccounting
  BY DEF OutboxInv
<1>. QED
  BY <1>1, OutboxInvariant, PTL

(* No result leaves its queue unless the server has stored or refused it, or *)
(* a drain that was sending it has given it up.                              *)
THEOREM OutboxNothingLost == Spec => []NothingLost
<1>1. OutboxInv => NothingLost
  BY DEF OutboxInv
<1>. QED
  BY <1>1, OutboxInvariant, PTL

(* Results of a group are stored in the order in which they were enqueued.   *)
THEOREM OutboxStoredInOrder == Spec => []StoredInOrder
<1>1. OutboxInv => StoredInOrder
  <2>. SUFFICES ASSUME OutboxInv, NEW i \in DOMAIN order, NEW k \in DOMAIN order,
                       i < k, JobGroup[order[i]] = JobGroup[order[k]], order[k] \in accepted
                PROVE  order[i] \in accepted \cup refused \cup dropped
    BY DEF StoredInOrder
  <2>1. job[order[i]] = "removed" /\ order[i] \in Jobs
    BY DEF OutboxInv, TypeOK, SentInOrder, IsOldest
  <2>. QED
    BY <2>1 DEF OutboxInv, NothingLost
<1>. QED
  BY <1>1, OutboxInvariant, PTL

-----------------------------------------------------------------------------
(* Answers: what leaves the queue, and how many drains a group has. *)

\* A removal takes the item that was sent, or it is gone already.
LEMMA SettleLetsGo ==
  ASSUME OutboxInv, DeliveryInv, NEW w \in Workers, Settle(w)
  PROVE  /\ item[w] \in Jobs /\ IsOldest(item[w])
         /\ job[item[w]] \in {"queued", "removed"}
         /\ item[w] \in accepted \cup refused \cup dropped
         /\ job' = [job EXCEPT ![item[w]] = "removed"]
<1>. DEFINE j == item[w]
            g == group[w]
<1>1. /\ j \in Jobs /\ IsOldest(j) /\ g \in Groups /\ JobGroup[j] = g
      /\ job[j] \in {"queued", "removed"} /\ j \in accepted \cup refused \cup dropped
  BY DEF Settle, OutboxInv, SendersHold, SentInOrder, InFlight, DeliveryInv, AnswersOfGone
<1>2. job \in [Jobs -> {"idle", "reserved", "queued", "removed"}]
  BY DEF OutboxInv, TypeOK
<1>3. ASSUME queues[g] # <<>>, Head(queues[g]) = j
      PROVE  job' = [job EXCEPT ![j] = "removed"]
  BY <1>1, <1>3 DEF Settle, RemoveHead
<1>4. ASSUME ~(queues[g] # <<>> /\ Head(queues[g]) = j)
      PROVE  job' = [job EXCEPT ![j] = "removed"]
  <2>1. job' = job
    BY <1>4 DEF Settle, RemoveHead
  <2>2. job[j] = "removed"
    <3>. SUFFICES ASSUME job[j] # "removed" PROVE FALSE
      OBVIOUS
    <3>1. PICK a \in DOMAIN queues[g] : queues[g][a] = j
      BY <1>1 DEF OutboxInv, NothingLost, InQueue
    <3>2. queues[g] \in Seq(Jobs)
      BY <1>1 DEF OutboxInv, TypeOK
    <3>3. queues[g] # <<>> /\ 1 \in DOMAIN queues[g] /\ Head(queues[g]) = queues[g][1]
      BY <3>1, <3>2
    <3>4. 1 < a
      BY <1>4, <3>1, <3>2, <3>3
    <3> DEFINE h == Head(queues[g])
    <3>5. h \in Jobs /\ job[h] = "queued" /\ JobGroup[h] = g
      BY <1>1, <3>3, HeadIsOldest
    <3>6. PICK i \in DOMAIN order, k \in DOMAIN order : order[i] = h /\ order[k] = j
      BY <1>1, <3>5 DEF DeliveryInv, HistoryIsComplete
    <3>7. i < k
      BY <1>1, <3>1, <3>3, <3>4, <3>6 DEF OutboxInv, OrderIsHistory
    <3>8. job[h] = "removed"
      BY <1>1, <3>5, <3>6, <3>7 DEF IsOldest
    <3>. QED
      BY <3>5, <3>8
  <2>. QED
    BY <1>2, <2>1, <2>2
<1>5. job' = [job EXCEPT ![j] = "removed"]
  BY <1>3, <1>4, Zenon
<1>. QED
  BY <1>1, <1>5, Zenon

\* What no step but those of the senders does.
OtherStep ==
  \/ \E j \in Jobs : ReserveSlot(j) \/ ReleaseSlot(j) \/ Enqueue(j) \/ EmitBacklog(j)
  \/ \E g \in Groups : ScheduleGroup(g) \/ RetryGroup(g)
  \/ Wake \/ Halt \/ Recover \/ Close \/ EndClose

LEMMA OtherStepsLeaveSenders ==
  ASSUME OutboxInv, OtherStep
  PROVE  /\ UNCHANGED <<pc, group, item, sending, answered, accepted, refused, dropped>>
         /\ \A j \in Jobs : job[j] \in {"queued", "removed"} => job'[j] = job[j]
         /\ overtakes' = 0 => overtakes = 0
<1>. USE DEF slotVars, scheduleVars, senderVars, stateVars, serverVars, OutboxInv, TypeOK
<1>1. ASSUME NEW j \in Jobs, ReserveSlot(j) \/ ReleaseSlot(j) \/ Enqueue(j)
      PROVE  /\ UNCHANGED <<pc, group, item, sending, answered, accepted, refused, dropped>>
             /\ UNCHANGED overtakes
             /\ \A i \in Jobs : job[i] \in {"queued", "removed"} => job'[i] = job[i]
  BY <1>1 DEF ReserveSlot, ReleaseSlot, Enqueue
<1>2. ASSUME \/ \E j \in Jobs : EmitBacklog(j)
             \/ \E g \in Groups : ScheduleGroup(g) \/ RetryGroup(g)
             \/ Wake \/ Halt \/ Recover \/ Close \/ EndClose
      PROVE  UNCHANGED <<pc, group, item, sending, answered, accepted, refused, dropped, job>>
  BY <1>2 DEF EmitBacklog, ScheduleGroup, RetryGroup, Wake, Halt, Recover, Close, EndClose
<1>3. ASSUME \/ \E j \in Jobs : EmitBacklog(j)
             \/ \E g \in Groups : ScheduleGroup(g)
             \/ Wake \/ Halt \/ Recover \/ Close \/ EndClose
      PROVE  overtakes' = overtakes
  BY <1>3 DEF EmitBacklog, ScheduleGroup, Wake, Halt, Recover, Close, EndClose
<1>4. ASSUME NEW g \in Groups, RetryGroup(g)
      PROVE  overtakes' = 0 => overtakes = 0
  BY <1>4 DEF RetryGroup
<1>. QED
  BY <1>1, <1>2, <1>3, <1>4 DEF OtherStep

\* A step of a sender is one of that sender only.
SenderStep(w) ==
  \/ BeginDrain(w) \/ PickHead(w) \/ Settle(w) \/ Notify(w) \/ DeferGroup(w) \/ EndDrain(w)
  \/ Exchange(w)

LEMMA SenderStepsAreLocal ==
  ASSUME OutboxInv, NEW w \in Workers, SenderStep(w)
  PROVE  /\ \A v \in Workers \ {w} : pc'[v] = pc[v] /\ group'[v] = group[v] /\ item'[v] = item[v]
         /\ overtakes' = overtakes /\ order' = order
         /\ ~Settle(w) => job' = job
         /\ ~Notify(w) => answered' = answered
  BY DEF SenderStep, BeginDrain, PickHead, Settle, Notify, DeferGroup, EndDrain, Exchange,
     StoreResult, RefuseResult, GiveUpResult, Unauthorized, LoseExchange, Goto, OutboxInv, TypeOK,
     slotVars, scheduleVars, senderVars, stateVars, serverVars

\* What is in hand after a step of the sender was so before, or is the head.
LEMMA InHandAfter ==
  ASSUME OutboxInv, NEW w \in Workers, SenderStep(w), InFlight(w)'
  PROVE  /\ group'[w] = group[w] /\ group[w] \in Groups
         /\ \/ /\ InFlight(w) /\ item'[w] = item[w]
               /\ pc'[w] = "acked" => Settle(w)
               /\ ~Notify(w)
            \/ /\ PickHead(w) /\ pc'[w] = "sending"
               /\ queues[group[w]] # <<>> /\ item'[w] = Head(queues[group[w]])
<1>. USE DEF OutboxInv, TypeOK, InFlight, Goto, SendersHold
<1>1. CASE BeginDrain(w)
  BY <1>1 DEF BeginDrain, senderVars
<1>2. CASE PickHead(w)
  BY <1>2 DEF PickHead
<1>3. CASE Settle(w)
  BY <1>3 DEF Settle, Notify
<1>4. CASE Notify(w) \/ DeferGroup(w) \/ EndDrain(w)
  BY <1>4 DEF Notify, DeferGroup, EndDrain
<1>5. CASE Exchange(w)
  <2>1. pc[w] \in {"sending", "stored"} /\ group' = group /\ item' = item
    BY <1>5 DEF Exchange, StoreResult, RefuseResult, GiveUpResult, Unauthorized, LoseExchange
  <2>2. pc'[w] # "acked"
    BY <1>5 DEF Exchange, StoreResult, RefuseResult, GiveUpResult, Unauthorized, LoseExchange
  <2>3. ~Notify(w)
    BY <2>1 DEF Notify
  <2>. QED
    BY <2>1, <2>2, <2>3
<1>. QED
  BY <1>1, <1>2, <1>3, <1>4, <1>5 DEF SenderStep

\* Answers are of results that are gone.
LEMMA AnswersOfGoneKept ==
  ASSUME OutboxInv, DeliveryInv, OtherStep \/ \E w \in Workers : SenderStep(w)
  PROVE  AnswersOfGone'
<1>. USE DEF DeliveryInv
<1>0. answered \subseteq Jobs /\ \A w \in Workers : InFlight(w) =>
        item[w] \in Jobs /\ job[item[w]] \in {"queued", "removed"}
  BY DEF OutboxInv, TypeOK, SendersHold
<1>1. CASE OtherStep
  <2>1. /\ UNCHANGED <<pc, group, item, answered>>
        /\ \A j \in Jobs : job[j] \in {"queued", "removed"} => job'[j] = job[j]
    BY <1>1, OtherStepsLeaveSenders
  <2>. QED
    BY <1>0, <2>1 DEF AnswersOfGone, InFlight
<1>2. ASSUME NEW w \in Workers, SenderStep(w) PROVE AnswersOfGone'
  <2>1. \A v \in Workers \ {w} : pc'[v] = pc[v] /\ group'[v] = group[v] /\ item'[v] = item[v]
    BY <1>2, SenderStepsAreLocal
  <2>2. \A j \in Jobs : job[j] = "removed" => job'[j] = "removed"
    <3>1. CASE Settle(w)
      BY <3>1, SettleLetsGo DEF OutboxInv, TypeOK
    <3>2. CASE ~Settle(w)
      BY <1>2, <3>2, SenderStepsAreLocal
    <3>. QED
      BY <3>1, <3>2
  <2>3. \A v \in Workers \ {w} :
          /\ InFlight(v)' => JobGroup[item'[v]] = group'[v]
          /\ pc'[v] = "acked" => job'[item'[v]] = "removed"
    BY <1>0, <2>1, <2>2 DEF AnswersOfGone, InFlight
  <2>4. InFlight(w)' => JobGroup[item'[w]] = group'[w]
    BY <1>2, InHandAfter, HeadIsOldest DEF AnswersOfGone
  <2>5. pc'[w] = "acked" => job'[item'[w]] = "removed"
    <3>. SUFFICES ASSUME pc'[w] = "acked" PROVE job'[item'[w]] = "removed"
      OBVIOUS
    <3>1. InFlight(w)'
      BY DEF InFlight
    <3>2. Settle(w) /\ item'[w] = item[w]
      BY <1>2, <3>1, InHandAfter
    <3>. QED
      BY <3>2, SettleLetsGo DEF OutboxInv, TypeOK
  <2>6. \A j \in answered' : job'[j] = "removed"
    <3>1. CASE Notify(w)
      <4>1. answered' = answered \cup {item[w]} /\ pc[w] = "acked"
        BY <3>1 DEF Notify
      <4>2. item[w] \in Jobs /\ job[item[w]] = "removed"
        BY <1>0, <4>1 DEF AnswersOfGone, InFlight
      <4>. QED
        BY <1>0, <2>2, <4>1, <4>2 DEF AnswersOfGone
    <3>2. CASE ~Notify(w)
      BY <1>0, <1>2, <2>2, <3>2, SenderStepsAreLocal DEF AnswersOfGone
    <3>. QED
      BY <3>1, <3>2
  <2>. QED
    BY <2>3, <2>4, <2>5, <2>6 DEF AnswersOfGone
<1>. QED
  BY <1>1, <1>2

\* The history keeps up with the queues.
LEMMA HistoryKept ==
  ASSUME OutboxInv, DeliveryInv, OtherStep \/ \E w \in Workers : SenderStep(w)
  PROVE  HistoryIsComplete'
<1>. USE DEF DeliveryInv
<1>1. ASSUME order' = order, \A j \in Jobs : job'[j] \in {"queued", "removed"} =>
                                            job[j] \in {"queued", "removed"}
      PROVE  HistoryIsComplete'
  BY <1>1 DEF HistoryIsComplete
<1>2. ASSUME NEW j \in Jobs, Enqueue(j) PROVE HistoryIsComplete'
  <2>1. /\ job' = [job EXCEPT ![j] = "queued"] /\ order' = Append(order, j)
        /\ order \in Seq(Jobs) /\ job \in [Jobs -> {"idle", "reserved", "queued", "removed"}]
    BY <1>2 DEF Enqueue, OutboxInv, TypeOK
  <2>2. /\ \A k \in DOMAIN order : k \in DOMAIN order' /\ order'[k] = order[k]
        /\ Len(order) + 1 \in DOMAIN order' /\ order'[Len(order) + 1] = j
    BY <2>1
  <2>. QED
    BY <2>1, <2>2 DEF HistoryIsComplete
<1>3. ASSUME NEW j \in Jobs, ReserveSlot(j) \/ ReleaseSlot(j) PROVE HistoryIsComplete'
  BY <1>1, <1>3 DEF ReserveSlot, ReleaseSlot, OutboxInv, TypeOK
<1>4. ASSUME \/ \E j \in Jobs : EmitBacklog(j)
             \/ \E g \in Groups : ScheduleGroup(g) \/ RetryGroup(g)
             \/ Wake \/ Halt \/ Recover \/ Close \/ EndClose
      PROVE  HistoryIsComplete'
  <2>1. job' = job /\ order' = order
    BY <1>4 DEF EmitBacklog, ScheduleGroup, RetryGroup, Wake, Halt, Recover, Close, EndClose,
       slotVars
  <2>. QED
    BY <1>1, <2>1
<1>5. ASSUME NEW w \in Workers, SenderStep(w) PROVE HistoryIsComplete'
  <2>1. CASE Settle(w)
    BY <1>1, <1>5, <2>1, SettleLetsGo, SenderStepsAreLocal DEF OutboxInv, TypeOK
  <2>2. CASE ~Settle(w)
    BY <1>1, <1>5, <2>2, SenderStepsAreLocal
  <2>. QED
    BY <2>1, <2>2
<1>. QED
  BY <1>2, <1>3, <1>4, <1>5 DEF OtherStep

\* A sender that goes on with its drain stays where it counts.
LEMMA GoingOnKeepsOne ==
  ASSUME OneDrain, NEW w \in Workers, pc \in [Workers -> PCs],
         pc[w] \notin {"idle", "deferred"},
         \E label \in PCs \ {"idle", "deferred"} : pc' = [pc EXCEPT ![w] = label],
         UNCHANGED <<group, active, timers, pool, closed, overtakes>>
  PROVE  OneDrain'
<1>1. \A v \in Workers : /\ pc'[v] # "idle" <=> pc[v] # "idle"
                         /\ pc'[v] = "deferred" <=> pc[v] = "deferred"
  OBVIOUS
<1>2. \A v \in Workers, g \in Groups : AtWork(v, g)' <=> AtWork(v, g)
  BY <1>1 DEF AtWork
<1>3. \A v \in Workers : \A i \in DOMAIN pool : AtWork(v, pool[i])' <=> AtWork(v, pool[i])
  BY <1>1 DEF AtWork
<1>. QED
  BY <1>1, <1>2, <1>3 DEF OneDrain

\* There is at most one drain of a group, and it knows of its timer.
LEMMA OneDrainKept ==
  ASSUME OutboxAssumption, OutboxInv, OneDrain, OtherStep \/ \E w \in Workers : SenderStep(w)
  PROVE  OneDrain'
<1>0. /\ pool \in Seq(Groups) /\ pc \in [Workers -> PCs]
      /\ group \in [Workers -> Groups \cup {None}] /\ overtakes \in Nat
      /\ active \subseteq Groups /\ timers \subseteq Groups
      /\ \A w \in Workers : pc[w] # "idle" => group[w] \in Groups
  BY DEF OutboxInv, TypeOK, SendersHold
<1>. USE DEF slotVars, scheduleVars, senderVars, stateVars, serverVars, Goto
<1>1. CASE \/ \E j \in Jobs : ReserveSlot(j) \/ ReleaseSlot(j) \/ Enqueue(j) \/ EmitBacklog(j)
           \/ Wake \/ Halt \/ Recover
  <2>1. UNCHANGED <<timers, active, pool, pc, group, closed, overtakes>>
    BY <1>1 DEF ReserveSlot, ReleaseSlot, Enqueue, EmitBacklog, Wake, Halt, Recover
  <2>. QED
    BY <2>1 DEF OneDrain, AtWork
<1>2. ASSUME NEW g \in Groups, ScheduleGroup(g) PROVE OneDrain'
  <2>. SUFFICES ASSUME overtakes = 0 PROVE OneDrain'
    BY <1>2 DEF ScheduleGroup, OneDrain
  <2>0. UNCHANGED <<timers, pc, group, closed, overtakes>>
    BY <1>2 DEF ScheduleGroup
  <2>1. CASE Schedulable(g)
    <3>1. active' = active \cup {g} /\ pool' = Append(pool, g)
      BY <1>2, <2>1 DEF ScheduleGroup
    <3>2. g \notin active /\ g \notin timers /\ ~closed
      BY <2>1 DEF Schedulable
    <3>3. \A w \in Workers : ~AtWork(w, g)
      BY <3>2 DEF OneDrain
    <3>4. \A i \in DOMAIN pool : pool[i] # g
      BY <3>2 DEF OneDrain
    <3>5. \A i \in DOMAIN pool' : \/ i \in DOMAIN pool /\ pool'[i] = pool[i]
                                  \/ i = Len(pool) + 1 /\ i \notin DOMAIN pool /\ pool'[i] = g
      BY <1>0, <3>1
    <3>6. \A w \in Workers : \A h : AtWork(w, h)' <=> AtWork(w, h)
      BY <2>0 DEF AtWork
    <3>7. \A i \in DOMAIN pool' :
            /\ pool'[i] \in active'
            /\ \A k \in DOMAIN pool' : pool'[i] = pool'[k] => i = k
            /\ \A w \in Workers : ~AtWork(w, pool'[i])
      BY <3>1, <3>3, <3>4, <3>5 DEF OneDrain
    <3>8. \A w \in Workers : \A h \in Groups : AtWork(w, h) =>
            /\ \A v \in Workers : AtWork(v, h) => v = w
            /\ pc[w] # "deferred" => h \in active'
            /\ pc[w] = "deferred" => h \notin active' /\ (closed \/ h \in timers)
      BY <3>1, <3>3 DEF OneDrain
    <3>9. timers \cap active' = {}
      BY <3>1, <3>2 DEF OneDrain
    <3>. QED
      BY <2>0, <3>6, <3>7, <3>8, <3>9 DEF OneDrain
  <2>2. CASE ~Schedulable(g)
    <3>1. UNCHANGED <<active, pool>>
      BY <1>2, <2>2 DEF ScheduleGroup
    <3>. QED
      BY <2>0, <3>1 DEF OneDrain, AtWork
  <2>. QED
    BY <2>1, <2>2
<1>3. ASSUME NEW g \in Groups, RetryGroup(g) PROVE OneDrain'
  <2>. SUFFICES ASSUME overtakes' = 0 PROVE OneDrain'
    BY DEF OneDrain
  <2>1. ~Overtakes(g) /\ overtakes = 0
    BY <1>0, <1>3 DEF RetryGroup
  <2>2. timers' = timers \ {g} /\ UNCHANGED <<active, pool, pc, group, closed>>
    BY <1>3 DEF RetryGroup
  <2>. QED
    BY <2>1, <2>2 DEF OneDrain, AtWork, Overtakes
<1>4. CASE Close
  <2>1. timers' = {} /\ closed' /\ UNCHANGED <<active, pool, pc, group, overtakes>>
    BY <1>4 DEF Close
  <2>. QED
    BY <2>1 DEF OneDrain, AtWork
<1>5. CASE EndClose
  <2>1. pool' = <<>> /\ UNCHANGED <<active, timers, pc, group, closed, overtakes>>
    BY <1>5 DEF EndClose
  <2>. QED
    BY <2>1 DEF OneDrain, AtWork
<1>6. ASSUME NEW w \in Workers, BeginDrain(w) PROVE OneDrain'
  <2>. SUFFICES ASSUME overtakes = 0 PROVE OneDrain'
    BY <1>6 DEF BeginDrain, OneDrain
  <2> DEFINE g == Head(pool)
  <2>1. /\ pc[w] = "idle" /\ pool # <<>> /\ pool' = Tail(pool)
        /\ UNCHANGED <<timers, closed, overtakes>>
    BY <1>6 DEF BeginDrain
  <2>2. g \in Groups /\ g = pool[1] /\ 1 \in DOMAIN pool
    BY <1>0, <2>1
  <2>3. \A i \in DOMAIN pool' : i + 1 \in DOMAIN pool /\ i \in DOMAIN pool /\ pool'[i] = pool[i + 1]
                                /\ i \in Nat /\ i + 1 # 1
    BY <1>0, <2>1
  <2>4. g \in active /\ \A v \in Workers : ~AtWork(v, g)
    BY <2>2 DEF OneDrain
  <2>5. \A i \in DOMAIN pool' :
          /\ pool'[i] \in active /\ pool'[i] # g
          /\ \A k \in DOMAIN pool' : pool'[i] = pool'[k] => i = k
          /\ \A v \in Workers : ~AtWork(v, pool'[i])
    <3>. SUFFICES ASSUME NEW i \in DOMAIN pool'
                  PROVE  /\ pool'[i] \in active /\ pool'[i] # g
                         /\ \A k \in DOMAIN pool' : pool'[i] = pool'[k] => i = k
                         /\ \A v \in Workers : ~AtWork(v, pool'[i])
      OBVIOUS
    <3>1. i + 1 \in DOMAIN pool /\ pool'[i] = pool[i + 1] /\ i + 1 # 1 /\ i \in Nat
      BY <2>3
    <3>2. pool'[i] \in active /\ pool'[i] # g /\ \A v \in Workers : ~AtWork(v, pool'[i])
      BY <2>2, <3>1 DEF OneDrain
    <3>3. ASSUME NEW k \in DOMAIN pool', pool'[i] = pool'[k] PROVE i = k
      <4>1. k + 1 \in DOMAIN pool /\ pool'[k] = pool[k + 1] /\ k \in Nat
        BY <2>3
      <4>2. i + 1 = k + 1
        BY <3>1, <3>3, <4>1 DEF OneDrain
      <4>. QED
        BY <3>1, <4>1, <4>2
    <3>. QED
      BY <3>2, <3>3
  <2> HIDE DEF g
  <2>6. CASE closed
    <3>1. active' = active \ {g} /\ UNCHANGED <<pc, group>>
      BY <1>6, <2>6 DEF BeginDrain, g
    <3>2. \A v \in Workers : \A h : AtWork(v, h)' <=> AtWork(v, h)
      BY <3>1 DEF AtWork
    <3>3. \A i \in DOMAIN pool' :
            /\ pool'[i] \in active'
            /\ \A k \in DOMAIN pool' : pool'[i] = pool'[k] => i = k
            /\ \A v \in Workers : ~AtWork(v, pool'[i])
      BY <2>5, <3>1
    <3>4. \A v \in Workers : \A h \in Groups : AtWork(v, h) =>
            /\ \A u \in Workers : AtWork(u, h) => u = v
            /\ pc[v] # "deferred" => h \in active'
            /\ pc[v] = "deferred" => h \notin active' /\ (closed \/ h \in timers)
      BY <2>4, <3>1 DEF OneDrain
    <3>5. timers \cap active' = {}
      BY <3>1 DEF OneDrain
    <3>. QED
      BY <2>1, <3>1, <3>2, <3>3, <3>4, <3>5 DEF OneDrain
  <2>7. CASE ~closed
    <3>1. /\ active' = active /\ pc' = [pc EXCEPT ![w] = "pick"]
          /\ group' = [group EXCEPT ![w] = g]
      BY <1>6, <2>7 DEF BeginDrain, g
    <3>2. pc'[w] = "pick" /\ group'[w] = g
      BY <1>0, <3>1
    <3>3. \A v \in Workers \ {w} : pc'[v] = pc[v] /\ group'[v] = group[v]
      BY <1>0, <3>1
    <3>4. \A v \in Workers : \A h : AtWork(v, h)' <=> (v = w /\ h = g) \/ (v # w /\ AtWork(v, h))
      BY <3>2, <3>3 DEF AtWork
    <3>5. \A i \in DOMAIN pool' :
            /\ pool'[i] \in active'
            /\ \A k \in DOMAIN pool' : pool'[i] = pool'[k] => i = k
            /\ \A v \in Workers : ~(pc'[v] # "idle" /\ group'[v] = pool'[i])
      BY <2>5, <3>1, <3>2, <3>3 DEF AtWork
    <3>6. \A v \in Workers : \A h \in Groups : AtWork(v, h)' =>
            /\ \A u \in Workers : AtWork(u, h)' => u = v
            /\ pc'[v] # "deferred" => h \in active
            /\ pc'[v] = "deferred" => h \notin active /\ (closed \/ h \in timers)
      BY <2>4, <3>2, <3>3, <3>4 DEF OneDrain
    <3>7. (\A i \in DOMAIN pool : \A v \in Workers : ~AtWork(v, pool[i]))'
      BY <3>5 DEF AtWork
    <3>8. (timers \cap active)' = {}
      BY <2>1, <3>1 DEF OneDrain
    <3>. QED
      BY <2>1, <3>1, <3>5, <3>6, <3>7, <3>8 DEF OneDrain
  <2>. QED
    BY <2>6, <2>7
<1>7. ASSUME NEW w \in Workers, PickHead(w) \/ Settle(w) \/ Notify(w) \/ StoreResult(w)
             \/ RefuseResult(w) \/ GiveUpResult(w) \/ Unauthorized(w) \/ LoseExchange(w)
      PROVE  OneDrain'
  <2>1. pc[w] \notin {"idle", "deferred"}
    BY <1>7 DEF PickHead, Settle, Notify, StoreResult, RefuseResult, GiveUpResult, Unauthorized,
       LoseExchange
  <2>2. UNCHANGED <<group, active, timers, pool, closed, overtakes>>
    BY <1>7 DEF PickHead, Settle, Notify, StoreResult, RefuseResult, GiveUpResult, Unauthorized,
       LoseExchange
  <2>3. \E label \in PCs \ {"idle", "deferred"} : pc' = [pc EXCEPT ![w] = label]
    BY <1>7 DEF PickHead, Settle, Notify, StoreResult, RefuseResult, GiveUpResult, Unauthorized,
       LoseExchange, PCs
  <2>. QED
    BY <1>0, <2>1, <2>2, <2>3, GoingOnKeepsOne
<1>8. ASSUME NEW w \in Workers, DeferGroup(w) PROVE OneDrain'
  <2>. SUFFICES ASSUME overtakes = 0 PROVE OneDrain'
    BY <1>8 DEF DeferGroup, OneDrain
  <2> DEFINE g == group[w]
  <2>1. /\ pc[w] \in {"failed", "unauthorized"} /\ pc' = [pc EXCEPT ![w] = "deferred"]
        /\ active' = active \ {g} /\ timers' = timers \cup {g}
        /\ UNCHANGED <<group, pool, closed, overtakes>>
    BY <1>8 DEF DeferGroup
  <2>2. g \in Groups /\ AtWork(w, g)
    BY <1>0, <2>1 DEF AtWork
  <2>3. pc'[w] = "deferred" /\ \A v \in Workers \ {w} : pc'[v] = pc[v]
    BY <1>0, <2>1
  <2>4. \A v \in Workers : \A h : AtWork(v, h)' <=> AtWork(v, h)
    BY <2>1, <2>3 DEF AtWork
  <2>5. \A i \in DOMAIN pool : pool[i] # g
    BY <2>2 DEF OneDrain
  <2>6. \A v \in Workers \ {w} : ~AtWork(v, g)
    BY <2>2 DEF OneDrain
  <2>7. \A v \in Workers : \A h \in Groups : AtWork(v, h) =>
          /\ pc'[v] # "deferred" => h \in active'
          /\ pc'[v] = "deferred" => h \notin active' /\ (closed \/ h \in timers')
    <3>. SUFFICES ASSUME NEW v \in Workers, NEW h \in Groups, AtWork(v, h)
                  PROVE  /\ pc'[v] # "deferred" => h \in active'
                         /\ pc'[v] = "deferred" => h \notin active' /\ (closed \/ h \in timers')
      OBVIOUS
    <3>1. CASE v = w
      <4>1. h = g
        BY <3>1 DEF AtWork
      <4>. QED
        BY <2>1, <2>3, <3>1, <4>1
    <3>2. CASE v # w
      <4>1. h # g /\ pc'[v] = pc[v]
        BY <2>3, <2>6, <3>2
      <4>. QED
        BY <2>1, <4>1 DEF OneDrain
    <3>. QED
      BY <3>1, <3>2
  <2> HIDE DEF g
  <2>8. timers' \cap active' = {}
    BY <2>1 DEF OneDrain
  <2>9. \A i \in DOMAIN pool :
          /\ pool[i] \in active'
          /\ \A k \in DOMAIN pool : pool[i] = pool[k] => i = k
          /\ \A v \in Workers : ~AtWork(v, pool[i])
    BY <2>1, <2>5 DEF OneDrain
  <2>10. \A v \in Workers : \A h \in Groups : AtWork(v, h) =>
           \A u \in Workers : AtWork(u, h) => u = v
    BY DEF OneDrain
  <2>. QED
    BY <2>1, <2>4, <2>7, <2>8, <2>9, <2>10 DEF OneDrain
<1>9. ASSUME NEW w \in Workers, EndDrain(w) PROVE OneDrain'
  <2>. SUFFICES ASSUME overtakes = 0 PROVE OneDrain'
    BY <1>9 DEF EndDrain, OneDrain
  <2> DEFINE g == group[w]
  <2>1. /\ pc[w] # "idle" /\ pc' = [pc EXCEPT ![w] = "idle"]
        /\ group' = [group EXCEPT ![w] = None]
        /\ active' = active \ {g}
        /\ UNCHANGED <<timers, pool, closed, overtakes>>
    BY <1>9 DEF EndDrain
  <2>2. g \in Groups /\ AtWork(w, g)
    BY <1>0, <2>1 DEF AtWork
  <2>3. pc'[w] = "idle" /\ \A v \in Workers \ {w} : pc'[v] = pc[v] /\ group'[v] = group[v]
    BY <1>0, <2>1
  <2>4. \A v \in Workers : \A h : AtWork(v, h)' => AtWork(v, h) /\ v # w
    BY <2>3 DEF AtWork
  <2>5. \A i \in DOMAIN pool : pool[i] # g
    BY <2>2 DEF OneDrain
  <2>6. \A v \in Workers \ {w} : ~AtWork(v, g)
    BY <2>2 DEF OneDrain
  <2> HIDE DEF g
  <2>7. \A i \in DOMAIN pool :
          /\ pool[i] \in active'
          /\ \A k \in DOMAIN pool : pool[i] = pool[k] => i = k
          /\ \A v \in Workers : ~AtWork(v, pool[i])'
    BY <2>1, <2>4, <2>5 DEF OneDrain
  <2>8. \A v \in Workers : \A h \in Groups : AtWork(v, h)' =>
          /\ \A u \in Workers : AtWork(u, h)' => u = v
          /\ pc'[v] # "deferred" => h \in active'
          /\ pc'[v] = "deferred" => h \notin active' /\ (closed \/ h \in timers)
    <3>. SUFFICES ASSUME NEW v \in Workers, NEW h \in Groups, AtWork(v, h)'
                  PROVE  /\ \A u \in Workers : AtWork(u, h)' => u = v
                         /\ pc'[v] # "deferred" => h \in active'
                         /\ pc'[v] = "deferred" => h \notin active' /\ (closed \/ h \in timers)
      OBVIOUS
    <3>1. AtWork(v, h) /\ v # w /\ pc'[v] = pc[v] /\ h # g
      BY <2>3, <2>4, <2>6
    <3>. QED
      BY <2>1, <2>4, <3>1 DEF OneDrain
  <2>9. timers \cap active' = {}
    BY <2>1 DEF OneDrain
  <2>. QED
    BY <2>1, <2>7, <2>8, <2>9 DEF OneDrain
<1>. QED
  BY <1>1, <1>2, <1>3, <1>4, <1>5, <1>6, <1>7, <1>8, <1>9 DEF OtherStep, SenderStep, Exchange

\* No sender has a result in hand that was answered before.
LEMMA InHandIsNewKept ==
  ASSUME OutboxInv, DeliveryInv, OtherStep \/ \E w \in Workers : SenderStep(w)
  PROVE  InHandIsNew'
<1>. SUFFICES ASSUME overtakes' = 0, NEW v \in Workers, InFlight(v)'
              PROVE  item'[v] \notin answered'
  BY DEF InHandIsNew
<1>1. CASE OtherStep
  <2>1. UNCHANGED <<pc, item, answered>> /\ overtakes = 0
    BY <1>1, OtherStepsLeaveSenders
  <2>. QED
    BY <2>1 DEF DeliveryInv, InHandIsNew, InFlight
<1>2. ASSUME NEW w \in Workers, SenderStep(w) PROVE item'[v] \notin answered'
  <2>0. overtakes = 0
    BY <1>2, SenderStepsAreLocal
  <2>1. CASE v = w
    <3>1. CASE InFlight(w) /\ item'[w] = item[w] /\ ~Notify(w)
      <4>1. answered' = answered
        BY <1>2, <3>1, SenderStepsAreLocal
      <4>. QED
        BY <2>0, <2>1, <3>1, <4>1 DEF DeliveryInv, InHandIsNew
    <3>2. CASE /\ PickHead(w) /\ queues[group[w]] # <<>> /\ group[w] \in Groups
               /\ item'[w] = Head(queues[group[w]])
      <4>1. answered' = answered
        BY <3>2 DEF PickHead, serverVars
      <4>2. job[item'[w]] = "queued"
        BY <3>2, HeadIsOldest
      <4>. QED
        BY <2>1, <4>1, <4>2 DEF DeliveryInv, AnswersOfGone
    <3>. QED
      BY <1>2, <2>1, <3>1, <3>2, InHandAfter
  <2>2. CASE v # w
    <3>1. pc'[v] = pc[v] /\ item'[v] = item[v] /\ InFlight(v)
      BY <1>2, <2>2, SenderStepsAreLocal DEF InFlight
    <3>2. item[v] \notin answered
      BY <2>0, <3>1 DEF DeliveryInv, InHandIsNew
    <3>3. CASE Notify(w)
      <4>1. answered' = answered \cup {item[w]} /\ InFlight(w)
        BY <3>3 DEF Notify, InFlight
      <4>2. group[v] \in Groups /\ pc[v] # "idle" /\ pc[w] # "idle"
        BY <3>1, <4>1 DEF OutboxInv, SendersHold, InFlight
      <4>3. item[v] = item[w] => group[v] = group[w]
        BY <3>1, <4>1 DEF DeliveryInv, AnswersOfGone
      <4>4. group[v] # group[w]
        BY <2>0, <2>2, <4>2 DEF DeliveryInv, OneDrain, AtWork
      <4>. QED
        BY <3>1, <3>2, <4>1, <4>3, <4>4
    <3>4. CASE ~Notify(w)
      BY <1>2, <3>1, <3>2, <3>4, SenderStepsAreLocal
    <3>. QED
      BY <3>3, <3>4
  <2>. QED
    BY <2>1, <2>2
<1>. QED
  BY <1>1, <1>2

\* Every step is one of these.
LEMMA StepsAreTwoKinds == Next <=> OtherStep \/ \E w \in Workers : SenderStep(w)
BY Zenon DEF Next, Execution, Sender, OtherStep, SenderStep

\* The second invariant rests on the first.
LEMMA DeliveryKept ==
  ASSUME OutboxAssumption, OutboxInv, DeliveryInv, [Next]_vars
  PROVE  DeliveryInv'
<1>1. CASE OtherStep \/ \E w \in Workers : SenderStep(w)
  BY <1>1, AnswersOfGoneKept, HistoryKept, OneDrainKept, InHandIsNewKept DEF DeliveryInv
<1>2. CASE UNCHANGED vars
  <2>1. UNCHANGED <<pc, group, item, job, answered, order, overtakes, timers, active, pool, closed>>
    BY <1>2 DEF vars, slotVars, scheduleVars, senderVars, stateVars, serverVars
  <2>. QED
    BY <2>1 DEF DeliveryInv, AnswersOfGone, HistoryIsComplete, OneDrain, InHandIsNew, InFlight,
       AtWork
<1>. QED
  BY <1>1, <1>2, StepsAreTwoKinds

\* Nothing is at work or in hand at the start.
LEMMA DeliveryBegins == Init => DeliveryInv
BY DEF Init, DeliveryInv, AnswersOfGone, HistoryIsComplete, OneDrain, InHandIsNew, InFlight, AtWork

\* Both hold at every step.
LEMMA DeliveryHolds == Spec => [](OutboxInv /\ DeliveryInv)
<1>1. Init => DeliveryInv
  BY DeliveryBegins
<1>2. OutboxInv /\ DeliveryInv /\ [Next]_vars => DeliveryInv'
  BY DeliveryKept, OutboxAssumption
<1>. QED
  BY <1>1, <1>2, OutboxInvariant, PTL DEF Spec

(***************************************************************************)
(* While no timer fires before the drain that has armed it ends, each      *)
(* result's answer is handed over once, however often it was sent and      *)
(* whatever the outcome: _schedule_group, _defer_group and the finally     *)
(* clause of _drain keep one drain per group between them, which is what   *)
(* _finish_detail in app.py relies on.                                     *)
(***************************************************************************)
THEOREM OutboxHandsOverOnce == Spec => []HandedOverOnce
<1>1. DeliveryInv => HandedOverOnce
  BY DEF DeliveryInv, InHandIsNew, HandedOverOnce, InFlight
<1>. QED
  BY <1>1, DeliveryHolds, PTL

-----------------------------------------------------------------------------
(* The outbox implements the abstract delivery. *)

\* What is sent is due.
LEMMA OldestIsDue ==
  ASSUME OutboxInv, DeliveryInv, NEW j \in Jobs, job[j] \in {"queued", "removed"}, IsOldest(j)
  PROVE  Delivery!Due(j)
<1>1. PICK k \in DOMAIN order : order[k] = j
  BY DEF DeliveryInv, HistoryIsComplete
<1>2. \A i \in DOMAIN order : order[i] \in Jobs
  BY DEF OutboxInv, TypeOK
<1>3. \A i \in DOMAIN order :
        i < k /\ JobGroup[order[i]] = JobGroup[j] => order[i] \in JobsIn("removed")
  BY <1>1, <1>2 DEF IsOldest, JobsIn
<1>. QED
  BY <1>1, <1>3 DEF Delivery!Due

\* Every step is one of the delivery's, or leaves what it speaks of.
LEMMA StepsDeliver ==
  ASSUME OutboxInv, DeliveryInv, [Next]_vars
  PROVE  [Delivery!Next]_(Delivery!deliveryVars)
<1>. DEFINE rest == <<order, accepted, refused, dropped, answered>>
<1>0. job \in [Jobs -> {"idle", "reserved", "queued", "removed"}] /\ order \in Seq(Jobs)
  BY DEF OutboxInv, TypeOK
<1>1. ASSUME UNCHANGED rest, \A j \in Jobs : job'[j] = "removed" <=> job[j] = "removed"
      PROVE  UNCHANGED Delivery!deliveryVars
  BY <1>1 DEF Delivery!deliveryVars, JobsIn
<1>2. ASSUME NEW j \in Jobs, Enqueue(j) PROVE Delivery!Produce(j)
  <2>1. /\ job[j] = "reserved" /\ job' = [job EXCEPT ![j] = "queued"]
        /\ order' = Append(order, j) /\ UNCHANGED <<accepted, refused, dropped, answered>>
    BY <1>2 DEF Enqueue, serverVars
  <2>2. JobsIn("removed")' = JobsIn("removed")
    BY <1>0, <2>1 DEF JobsIn
  <2>3. \A i \in DOMAIN order : order[i] # j
    BY <2>1 DEF OutboxInv, OrderIsHistory
  <2>. QED
    BY <2>1, <2>2, <2>3 DEF Delivery!Produce
<1>3. ASSUME NEW j \in Jobs, ReserveSlot(j) \/ ReleaseSlot(j) PROVE UNCHANGED Delivery!deliveryVars
  BY <1>0, <1>1, <1>3 DEF ReserveSlot, ReleaseSlot, serverVars
<1>4. ASSUME \/ \E j \in Jobs : EmitBacklog(j)
             \/ \E g \in Groups : ScheduleGroup(g) \/ RetryGroup(g)
             \/ Wake \/ Halt \/ Recover \/ Close \/ EndClose
      PROVE  UNCHANGED Delivery!deliveryVars
  BY <1>1, <1>4 DEF EmitBacklog, ScheduleGroup, RetryGroup, Wake, Halt, Recover, Close, EndClose,
     slotVars, serverVars
<1>5. ASSUME NEW w \in Workers, \/ BeginDrain(w) \/ PickHead(w) \/ DeferGroup(w) \/ EndDrain(w)
                                \/ Unauthorized(w) \/ LoseExchange(w)
      PROVE  UNCHANGED Delivery!deliveryVars
  BY <1>1, <1>5 DEF BeginDrain, PickHead, DeferGroup, EndDrain, Unauthorized, LoseExchange,
     slotVars, serverVars
<1>6. ASSUME NEW w \in Workers, StoreResult(w) \/ RefuseResult(w) \/ GiveUpResult(w)
      PROVE  \/ \E j \in Jobs : Delivery!Accept(j) \/ Delivery!Refuse(j) \/ Delivery!GiveUp(j)
             \/ UNCHANGED Delivery!deliveryVars
  <2> DEFINE j == item[w]
  <2>1. j \in Jobs /\ job[j] \in {"queued", "removed"} /\ IsOldest(j)
    BY <1>6 DEF StoreResult, RefuseResult, GiveUpResult, OutboxInv, SendersHold, SentInOrder,
       InFlight
  <2>2. Delivery!Due(j)
    BY <2>1, OldestIsDue
  <2>3. JobsIn("removed")' = JobsIn("removed") /\ UNCHANGED <<order, answered>>
    BY <1>6 DEF StoreResult, RefuseResult, GiveUpResult, slotVars, JobsIn
  <2>4. CASE StoreResult(w)
    BY <2>1, <2>2, <2>3, <2>4 DEF StoreResult, Delivery!Accept
  <2>5. CASE RefuseResult(w)
    BY <2>1, <2>2, <2>3, <2>5 DEF RefuseResult, Delivery!Refuse
  <2>6. CASE GiveUpResult(w)
    <3>1. UNCHANGED <<accepted, refused>>
      BY <2>6 DEF GiveUpResult
    <3>2. dropped' = dropped \cup {j} \/ dropped' = dropped
      BY <2>6 DEF GiveUpResult
    <3>. QED
      BY <2>1, <2>2, <2>3, <3>1, <3>2 DEF Delivery!GiveUp, Delivery!deliveryVars
  <2>. QED
    BY <1>6, <2>4, <2>5, <2>6
<1>7. ASSUME NEW w \in Workers, Settle(w)
      PROVE  \E j \in Jobs : Delivery!LetGo(j)
  <2> DEFINE j == item[w]
  <2>1. /\ j \in Jobs /\ IsOldest(j) /\ job[j] \in {"queued", "removed"}
        /\ j \in accepted \cup refused \cup dropped /\ job' = [job EXCEPT ![j] = "removed"]
    BY <1>7, SettleLetsGo
  <2>2. UNCHANGED rest
    BY <1>7 DEF Settle, serverVars
  <2> HIDE DEF j
  <2>3. JobsIn("removed")' = JobsIn("removed") \cup {j}
    BY <1>0, <2>1 DEF JobsIn
  <2>4. Delivery!Due(j)
    BY <2>1, OldestIsDue
  <2>. QED
    BY <2>1, <2>2, <2>3, <2>4 DEF Delivery!LetGo
<1>8. ASSUME NEW w \in Workers, Notify(w)
      PROVE  \E j \in Jobs : Delivery!Answer(j)
  <2>1. item[w] \in Jobs /\ job[item[w]] = "removed"
    BY <1>8 DEF Notify, DeliveryInv, AnswersOfGone, OutboxInv, SendersHold, InFlight
  <2>2. JobsIn("removed")' = JobsIn("removed") /\ UNCHANGED <<order, accepted, refused, dropped>>
        /\ answered' = answered \cup {item[w]}
    BY <1>8 DEF Notify, slotVars, JobsIn
  <2>3. item[w] \in JobsIn("removed")
    BY <2>1 DEF JobsIn
  <2>. QED
    BY <2>1, <2>2, <2>3 DEF Delivery!Answer
<1>9. CASE UNCHANGED vars
  BY <1>1, <1>9 DEF vars, slotVars, serverVars
<1>10. CASE OtherStep
  BY <1>2, <1>3, <1>4, <1>10 DEF OtherStep, Delivery!Next
<1>11. CASE \E w \in Workers : SenderStep(w)
  BY <1>5, <1>6, <1>7, <1>8, <1>11 DEF SenderStep, Exchange, Delivery!Next
<1>. QED
  BY <1>9, <1>10, <1>11, StepsAreTwoKinds

(***************************************************************************)
(* To the server the outbox is one queue per group, to the execution side  *)
(* an answer for what was settled, even when drains of a group overlap:    *)
(* the head of the queue is what _drain sends, and _remove_head takes      *)
(* nothing but the item that was sent.                                     *)
(***************************************************************************)
THEOREM OutboxImplementsDelivery == Spec => ImplementsDelivery
<1>1. Init => Delivery!Init
  BY DEF Init, Delivery!Init, JobsIn
<1>2. OutboxInv /\ DeliveryInv /\ [Next]_vars => [Delivery!Next]_(Delivery!deliveryVars)
  BY StepsDeliver
<1>. QED
  BY <1>1, <1>2, DeliveryHolds, PTL DEF Spec, ImplementsDelivery, Delivery!Spec
=============================================================================
