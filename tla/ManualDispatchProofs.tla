------------------------- MODULE ManualDispatchProofs -------------------------
(***************************************************************************)
(* Proofs about ManualDispatch, for any finite numbers of manual runs and  *)
(* claims, any capacity of the outbox and any number of faults and edits.  *)
(*                                                                         *)
(* Slots are counted by the dispatches and the executions that hold one;   *)
(* a claim passes from the former to the latter once, because a token is   *)
(* granted once and the run it is for is remembered.                       *)
(***************************************************************************)
EXTENDS ManualDispatch, FiniteSetTheorems, TLAPS

\* A dispatch that was granted a claim holds one that nothing executes yet.
InHand ==
  \A m \in Manuals :
    at[m] = "granted" =>
      hand[m] \in granted /\ runOf[hand[m]] = m /\ phase[hand[m]] = "none"

\* What executes was granted.
ExecutesGranted ==
  \A c \in Claims : phase[c] # "none" => c \in granted /\ runOf[c] \in Manuals

Dispatching == {m \in Manuals : at[m] \in {"asking", "granted"}}
Executing == {c \in Claims : phase[c] \in Holding}

IInv ==
  /\ TypeOK /\ InHand /\ ExecutesGranted
  /\ SlotsMatchWork /\ MarkedWasClaimed /\ PendingIsManaged

USE DispatchAssumption

-----------------------------------------------------------------------------
(* Counting *)

\* Both counts are natural numbers.
LEMMA BothFinite ==
  /\ IsFiniteSet(Dispatching) /\ IsFiniteSet(Executing)
  /\ Cardinality(Dispatching) \in Nat /\ Cardinality(Executing) \in Nat
<1>1. Dispatching \subseteq Manuals /\ Executing \subseteq Claims
  BY DEF Dispatching, Executing
<1>2. QED
  BY <1>1, FS_Subset, FS_CardinalityType

\* One element more is one more to count.
LEMMA CountIn ==
  ASSUME NEW S, NEW x, IsFiniteSet(S), x \notin S
  PROVE  Cardinality(S \cup {x}) = Cardinality(S) + 1
BY FS_AddElement

\* One element less is one less to count.
LEMMA CountOut ==
  ASSUME NEW S, NEW x, IsFiniteSet(S), x \in S
  PROVE  Cardinality(S \ {x}) = Cardinality(S) - 1 /\ Cardinality(S) >= 1
<1>1. IsFiniteSet(S \ {x}) /\ x \notin S \ {x} /\ (S \ {x}) \cup {x} = S
  BY FS_Subset
<1>2. Cardinality(S) = Cardinality(S \ {x}) + 1
  BY <1>1, FS_AddElement
<1>3. QED
  BY <1>1, <1>2, FS_CardinalityType

\* SlotsMatchWork in terms of the two sets.
LEMMA SlotsCounted ==
  SlotsMatchWork <=> slots = Cardinality(Dispatching) + Cardinality(Executing)
BY DEF SlotsMatchWork, Dispatching, Executing

\* A claim that was not granted before.
LEMMA NextClaimIsNew ==
  ASSUME TypeOK, granted # Claims
  PROVE  NextClaim \in Claims \ granted
<1>1. \E c \in Claims : c \notin granted
  BY DEF TypeOK
<1>2. QED
  BY <1>1 DEF NextClaim

\* A fault is counted within its bound.
LEMMA FaultCounted ==
  ASSUME TypeOK, NEW kind, Fault(kind)
  PROVE  faults' \in 0 .. MaxFaults /\ edits' = edits
BY DEF TypeOK, Fault

\* A snapshot says something of every run.
LEMMA ContentIsSnapshot == TypeOK => Content \in Snapshots
BY DEF TypeOK, Content, Entry, Snapshots, Entries

\* The leases' part of TypeOK.
LeaseType ==
  /\ state \in [Manuals -> {"open", "held", "closed"}]
  /\ holder \in [Manuals -> Claims \cup {NoClaim}] /\ lapsed \in [Manuals -> BOOLEAN]
  /\ granted \subseteq Claims /\ completed \in [Manuals -> SUBSET Claims]
  /\ overridden \subseteq Manuals

\* A step of the lease protocol keeps its types.
LEMMA LeaseKeepsType ==
  ASSUME LeaseType, NEW m \in Manuals,
         \/ (\E c \in Claims : Lease!Acquire(m, c)) \/ Lease!Lapse(m) \/ Lease!Reclaim({m})
         \/ Lease!Abandon(m) \/ Lease!Override(m) \/ UNCHANGED leaseVars
  PROVE  LeaseType'
<1> USE DEF LeaseType, Lease!Acquire, Lease!Lapse, Lease!Reclaim, Lease!Abandon,
    Lease!Override, leaseVars
<1>1. state' \in [Manuals -> {"open", "held", "closed"}]
  OBVIOUS
<1>2. holder' \in [Manuals -> Claims \cup {NoClaim}]
  OBVIOUS
<1>3. lapsed' \in [Manuals -> BOOLEAN]
  OBVIOUS
<1>4. granted' \subseteq Claims /\ completed' \in [Manuals -> SUBSET Claims] /\ overridden' \subseteq Manuals
  OBVIOUS
<1>5. QED
  BY <1>1, <1>2, <1>3, <1>4

\* A claim that fails gives back the slot of its dispatch, and no more.
LEMMA ClaimFailsFreesSlot ==
  ASSUME TypeOK, SlotsMatchWork, NEW m \in Manuals, at[m] = "asking", ClaimFails(m)
  PROVE  SlotsMatchWork' /\ slots' \in 0 .. Capacity
<1>1. Dispatching' = Dispatching \ {m} /\ m \in Dispatching /\ Executing' = Executing
  BY DEF ClaimFails, Goto, Dispatching, Executing, TypeOK
<1>2. slots' = Cardinality(Dispatching') + Cardinality(Executing') /\ slots' \in 0 .. Capacity
  BY <1>1, BothFinite, CountOut, SlotsCounted DEF ClaimFails, TypeOK
<1>3. QED
  BY <1>2 DEF SlotsMatchWork, Dispatching, Executing

-----------------------------------------------------------------------------
(* The inductive step, an action at a time *)

\* A poll brings what the server lists.
LEMMA PollKeeps ==
  ASSUME IInv, Poll
  PROVE  IInv'
<1> USE DEF IInv, Poll, leaseVars, serverVars, syncVars, jobVars, dispatchVars, workVars,
    counters
<1>1. TypeOK'
  BY ContentIsSnapshot DEF TypeOK, SlotsMatchWork
<1>2. InHand'
  BY DEF InHand, TypeOK, ExecutesGranted
<1>3. ExecutesGranted'
  BY DEF ExecutesGranted, TypeOK, InHand
<1>4. SlotsMatchWork'
  BY DEF SlotsMatchWork, TypeOK, Holding
<1>5. MarkedWasClaimed'
  BY DEF MarkedWasClaimed, HasRun, TypeOK, InHand, ExecutesGranted
<1>6. PendingIsManaged'
  BY DEF PendingIsManaged, ManagedIn, TypeOK
<1>7. QED
  BY <1>1, <1>2, <1>3, <1>4, <1>5, <1>6

\* The jobs follow the plan, and marks only go.
LEMMA ApplyKeeps ==
  ASSUME IInv, Apply
  PROVE  IInv'
<1> USE DEF IInv, Apply, Removed, Added, Updated, RemoveDispatch, ClearMarks, ManagedIn,
    serverVars, syncVars, jobVars, dispatchVars, workVars, counters, leaseVars
<1>1. TypeOK'
  BY DEF TypeOK, SlotsMatchWork
<1>2. InHand'
  BY DEF InHand, TypeOK, ExecutesGranted
<1>3. ExecutesGranted'
  BY DEF ExecutesGranted, TypeOK, InHand
<1>4. SlotsMatchWork'
  BY DEF SlotsMatchWork, TypeOK, Holding
<1>5. MarkedWasClaimed'
  BY DEF MarkedWasClaimed, HasRun, TypeOK, InHand, ExecutesGranted
<1>6. PendingIsManaged'
  BY DEF PendingIsManaged, ManagedIn, TypeOK
<1>7. QED
  BY <1>1, <1>2, <1>3, <1>4, <1>5, <1>6

\* What is scheduled is in the snapshot.
LEMMA SchedulePendingKeeps ==
  ASSUME IInv, SchedulePending
  PROVE  IInv'
<1> USE DEF IInv, SchedulePending, ManagedIn, serverVars, syncVars, jobVars, dispatchVars,
    workVars, counters, leaseVars
<1>1. TypeOK'
  BY DEF TypeOK, SlotsMatchWork
<1>2. InHand'
  BY DEF InHand, TypeOK, ExecutesGranted
<1>3. ExecutesGranted'
  BY DEF ExecutesGranted, TypeOK, InHand
<1>4. SlotsMatchWork'
  BY DEF SlotsMatchWork, TypeOK, Holding
<1>5. MarkedWasClaimed'
  BY DEF MarkedWasClaimed, HasRun, TypeOK, InHand, ExecutesGranted
<1>6. PendingIsManaged'
  BY DEF PendingIsManaged, ManagedIn, TypeOK
<1>7. QED
  BY <1>1, <1>2, <1>3, <1>4, <1>5, <1>6

\* Nothing has been removed yet.
LEMMA HaltKeeps ==
  ASSUME IInv, Halt
  PROVE  IInv'
<1> USE DEF IInv, Halt, serverVars, syncVars, jobVars, dispatchVars, workVars, counters,
    leaseVars
<1>1. faults' \in 0 .. MaxFaults /\ edits' = edits
  BY FaultCounted
<1>2. TypeOK'
  BY <1>1 DEF TypeOK, SlotsMatchWork
<1>3. InHand'
  BY DEF InHand, TypeOK, ExecutesGranted
<1>4. ExecutesGranted'
  BY DEF ExecutesGranted, TypeOK, InHand
<1>5. SlotsMatchWork'
  BY DEF SlotsMatchWork, TypeOK, Holding
<1>6. MarkedWasClaimed'
  BY DEF MarkedWasClaimed, HasRun, TypeOK, InHand, ExecutesGranted
<1>7. PendingIsManaged'
  BY DEF PendingIsManaged, ManagedIn, TypeOK
<1>8. QED
  BY <1>2, <1>3, <1>4, <1>5, <1>6, <1>7

\* With the snapshot go all its jobs.
LEMMA SweepKeeps ==
  ASSUME IInv, Sweep
  PROVE  IInv'
<1> USE DEF IInv, Sweep, ManagedIn, serverVars, syncVars, jobVars, dispatchVars, workVars,
    counters, leaseVars
<1>1. TypeOK'
  BY DEF TypeOK, SlotsMatchWork
<1>2. InHand'
  BY DEF InHand, TypeOK, ExecutesGranted
<1>3. ExecutesGranted'
  BY DEF ExecutesGranted, TypeOK, InHand
<1>4. SlotsMatchWork'
  BY DEF SlotsMatchWork, TypeOK, Holding
<1>5. MarkedWasClaimed'
  BY DEF MarkedWasClaimed, HasRun, TypeOK, InHand, ExecutesGranted
<1>6. PendingIsManaged'
  BY DEF PendingIsManaged, ManagedIn, TypeOK
<1>7. QED
  BY <1>1, <1>2, <1>3, <1>4, <1>5, <1>6

\* Nothing is scheduled before the next snapshot.
LEMMA RecoverKeeps ==
  ASSUME IInv, Recover
  PROVE  IInv'
<1> USE DEF IInv, Recover, serverVars, syncVars, jobVars, dispatchVars, workVars,
    counters, leaseVars
<1>1. TypeOK'
  BY DEF TypeOK, SlotsMatchWork
<1>2. InHand'
  BY DEF InHand, TypeOK, ExecutesGranted
<1>3. ExecutesGranted'
  BY DEF ExecutesGranted, TypeOK, InHand
<1>4. SlotsMatchWork'
  BY DEF SlotsMatchWork, TypeOK, Holding
<1>5. MarkedWasClaimed'
  BY DEF MarkedWasClaimed, HasRun, TypeOK, InHand, ExecutesGranted
<1>6. PendingIsManaged'
  BY DEF PendingIsManaged, ManagedIn, TypeOK
<1>7. QED
  BY <1>1, <1>2, <1>3, <1>4, <1>5, <1>6

\* A run is marked by the dispatch that begins.
LEMMA FireKeeps ==
  ASSUME IInv, NEW m \in Manuals, Fire(m)
  PROVE  IInv'
<1> USE DEF IInv, Fire, ExecutionAllowed, Goto, ReleaseMark, serverVars, syncVars,
    jobVars, dispatchVars, workVars, counters, leaseVars
<1>1. TypeOK'
  BY DEF TypeOK, SlotsMatchWork
<1>2. InHand'
  BY DEF InHand, TypeOK, ExecutesGranted
<1>3. ExecutesGranted'
  BY DEF ExecutesGranted, TypeOK, InHand
<1>4. SlotsMatchWork'
  BY DEF SlotsMatchWork, TypeOK, Holding
<1>5. MarkedWasClaimed'
  BY DEF MarkedWasClaimed, HasRun, TypeOK, InHand, ExecutesGranted
<1>6. PendingIsManaged'
  BY DEF PendingIsManaged, ManagedIn, TypeOK
<1>7. QED
  BY <1>1, <1>2, <1>3, <1>4, <1>5, <1>6

\* One job less.
LEMMA DispatchMisfiresKeeps ==
  ASSUME IInv, NEW m \in Manuals, DispatchMisfires(m)
  PROVE  IInv'
<1> USE DEF IInv, DispatchMisfires, serverVars, syncVars, jobVars, dispatchVars, workVars,
    counters, leaseVars
<1>1. faults' \in 0 .. MaxFaults /\ edits' = edits
  BY FaultCounted
<1>2. TypeOK'
  BY <1>1 DEF TypeOK, SlotsMatchWork
<1>3. InHand'
  BY DEF InHand, TypeOK, ExecutesGranted
<1>4. ExecutesGranted'
  BY DEF ExecutesGranted, TypeOK, InHand
<1>5. SlotsMatchWork'
  BY DEF SlotsMatchWork, TypeOK, Holding
<1>6. MarkedWasClaimed'
  BY DEF MarkedWasClaimed, HasRun, TypeOK, InHand, ExecutesGranted
<1>7. PendingIsManaged'
  BY DEF PendingIsManaged, ManagedIn, TypeOK
<1>8. QED
  BY <1>2, <1>3, <1>4, <1>5, <1>6, <1>7

\* The slot is counted with the dispatch.
LEMMA PrepareKeeps ==
  ASSUME IInv, NEW m \in Manuals, Prepare(m)
  PROVE  IInv'
<1>1. SlotsMatchWork' <=> slots' = Cardinality(Dispatching') + Cardinality(Executing')
  BY DEF SlotsMatchWork, Dispatching, Executing
<1> USE DEF IInv, Prepare, Goto, ReleaseMark, ManagedIn, serverVars, syncVars, jobVars,
    dispatchVars, workVars, counters, leaseVars
<1>2. ASSUME m \in ManagedIn(snapshot), slots < Capacity PROVE SlotsMatchWork'
  <2>1. Dispatching' = Dispatching \cup {m} /\ m \notin Dispatching /\ Executing' = Executing
    BY <1>2 DEF Dispatching, Executing, TypeOK
  <2>2. slots' = Cardinality(Dispatching') + Cardinality(Executing')
    BY <1>2, <2>1, BothFinite, CountIn, SlotsCounted
  <2>3. QED
    BY <1>1, <2>2
<1>3. ASSUME ~(m \in ManagedIn(snapshot) /\ slots < Capacity) PROVE SlotsMatchWork'
  <2>1. Dispatching' = Dispatching /\ Executing' = Executing /\ slots' = slots
    BY <1>3 DEF Dispatching, Executing, TypeOK
  <2>2. QED
    BY <1>1, <2>1, SlotsCounted
<1>4. TypeOK'
  BY DEF TypeOK, SlotsMatchWork
<1>5. InHand'
  BY DEF InHand, TypeOK, ExecutesGranted
<1>6. ExecutesGranted'
  BY DEF ExecutesGranted, TypeOK, InHand
<1>7. SlotsMatchWork'
  BY <1>2, <1>3
<1>8. MarkedWasClaimed'
  BY DEF MarkedWasClaimed, HasRun, TypeOK, InHand, ExecutesGranted
<1>9. PendingIsManaged'
  BY DEF PendingIsManaged, ManagedIn, TypeOK
<1>10. QED
  BY <1>4, <1>5, <1>6, <1>7, <1>8, <1>9

\* The claim is new, so nothing executes it.
LEMMA ClaimGrantedKeeps ==
  ASSUME IInv, NEW m \in Manuals, ClaimGranted(m)
  PROVE  IInv'
<1> USE DEF IInv, ClaimGranted, Goto, ReleaseMark, Acquire, syncVars, jobVars,
    dispatchVars, workVars, counters, serverVars, leaseVars, Lease!Acquire
<1>1. TypeOK'
  BY NextClaimIsNew DEF TypeOK, SlotsMatchWork
<1>2. InHand'
  BY NextClaimIsNew DEF InHand, TypeOK, ExecutesGranted
<1>3. ExecutesGranted'
  BY NextClaimIsNew DEF ExecutesGranted, TypeOK, InHand
<1>4. SlotsMatchWork'
  BY NextClaimIsNew DEF SlotsMatchWork, TypeOK, Holding
<1>5. MarkedWasClaimed'
  BY NextClaimIsNew DEF MarkedWasClaimed, HasRun, TypeOK, InHand, ExecutesGranted
<1>6. PendingIsManaged'
  BY NextClaimIsNew DEF PendingIsManaged, ManagedIn, TypeOK
<1>7. QED
  BY <1>1, <1>2, <1>3, <1>4, <1>5, <1>6

\* Slot and mark go together.
LEMMA ClaimRefusedKeeps ==
  ASSUME IInv, NEW m \in Manuals, ClaimRefused(m)
  PROVE  IInv'
<1> USE DEF IInv, ClaimRefused, ClaimFails, serverVars, syncVars, jobVars, dispatchVars,
    workVars, counters, Goto, ReleaseMark, leaseVars
<1>1. faults' \in 0 .. MaxFaults /\ edits' = edits
  BY FaultCounted DEF TypeOK
<1>2. SlotsMatchWork' /\ slots' \in 0 .. Capacity
  BY ClaimFailsFreesSlot
<1>3. TypeOK'
  BY <1>1, <1>2 DEF TypeOK
<1>4. InHand'
  BY DEF InHand, TypeOK, ExecutesGranted
<1>5. ExecutesGranted'
  BY DEF ExecutesGranted, TypeOK, InHand
<1>6. SlotsMatchWork'
  BY <1>2
<1>7. MarkedWasClaimed'
  BY DEF MarkedWasClaimed, HasRun, TypeOK, InHand, ExecutesGranted
<1>8. PendingIsManaged'
  BY DEF PendingIsManaged, ManagedIn, TypeOK
<1>9. QED
  BY <1>3, <1>4, <1>5, <1>6, <1>7, <1>8

\* A claim that may have been granted is in no hand.
LEMMA ClaimLostKeeps ==
  ASSUME IInv, NEW m \in Manuals, ClaimLost(m)
  PROVE  IInv'
<1> USE DEF IInv, ClaimLost, Acquire, ClaimFails, leaseVars, serverVars, syncVars,
    jobVars, dispatchVars, workVars, counters, Goto, ReleaseMark, Lease!Acquire
<1>1. faults' \in 0 .. MaxFaults /\ edits' = edits
  BY FaultCounted
<1>2. SlotsMatchWork' /\ slots' \in 0 .. Capacity
  BY ClaimFailsFreesSlot
<1>3. granted' \subseteq Claims /\ runOf' \in [Claims -> Manuals \cup {NoClaim}]
  BY NextClaimIsNew DEF TypeOK, Lease!Acquire
<1>4. LeaseType'
  BY NextClaimIsNew, LeaseKeepsType DEF TypeOK, LeaseType
<1>5. TypeOK'
  BY <1>1, <1>2, <1>3, <1>4 DEF TypeOK, LeaseType
<1>6. InHand'
  BY <1>1, NextClaimIsNew DEF InHand, TypeOK, ExecutesGranted
<1>7. ExecutesGranted'
  BY <1>1, NextClaimIsNew DEF ExecutesGranted, TypeOK, InHand
<1>8. SlotsMatchWork'
  BY <1>2
<1>9. MarkedWasClaimed'
  BY <1>1, NextClaimIsNew DEF MarkedWasClaimed, HasRun, TypeOK, InHand, ExecutesGranted
<1>10. PendingIsManaged'
  BY <1>1, NextClaimIsNew DEF PendingIsManaged, ManagedIn, TypeOK
<1>11. QED
  BY <1>5, <1>6, <1>7, <1>8, <1>9, <1>10

\* The slot passes from the dispatch to the execution.
LEMMA StartRunKeeps ==
  ASSUME IInv, NEW m \in Manuals, StartRun(m)
  PROVE  IInv'
<1>1. SlotsMatchWork' <=> slots' = Cardinality(Dispatching') + Cardinality(Executing')
  BY DEF SlotsMatchWork, Dispatching, Executing
<1> USE DEF IInv, StartRun, Goto, ReleaseMark, serverVars, syncVars, jobVars,
    dispatchVars, workVars, counters, leaseVars
<1>2. hand[m] \in Claims /\ phase[hand[m]] = "none"
  BY DEF TypeOK, InHand
<1>3. Dispatching' = Dispatching \ {m} /\ m \in Dispatching
  BY DEF Dispatching, TypeOK
<1>4. Executing' = Executing \cup {hand[m]} /\ hand[m] \notin Executing
  BY <1>2 DEF Executing, TypeOK, Holding
<1>5. slots' = Cardinality(Dispatching') + Cardinality(Executing')
  <2>1. Cardinality(Dispatching') = Cardinality(Dispatching) - 1
    BY <1>3, BothFinite, CountOut
  <2>2. Cardinality(Executing') = Cardinality(Executing) + 1
    BY <1>4, BothFinite, CountIn
  <2>3. slots' = slots
    OBVIOUS
  <2>4. QED
    BY <2>1, <2>2, <2>3, BothFinite, SlotsCounted
<1>6. TypeOK'
  <2>1. PICK p \in {"job", "result"} : phase' = [phase EXCEPT ![hand[m]] = p]
    OBVIOUS
  <2>2. phase' \in [Claims -> {"none", "job", "result", "answered", "over", "misfired"}]
    BY <2>1 DEF TypeOK
  <2>3. QED
    BY <2>2 DEF TypeOK, SlotsMatchWork
<1>7. InHand'
  BY DEF InHand, TypeOK, ExecutesGranted
<1>8. ExecutesGranted'
  BY DEF ExecutesGranted, TypeOK, InHand
<1>9. SlotsMatchWork'
  BY <1>1, <1>5
<1>10. MarkedWasClaimed'
  BY DEF MarkedWasClaimed, HasRun, TypeOK, InHand, ExecutesGranted
<1>11. PendingIsManaged'
  BY DEF PendingIsManaged, ManagedIn, TypeOK
<1>12. QED
  BY <1>6, <1>7, <1>8, <1>9, <1>10, <1>11

\* The slot passes from the execution to its result.
LEMMA ExecuteKeeps ==
  ASSUME IInv, NEW c \in Claims, Execute(c)
  PROVE  IInv'
<1> USE DEF IInv, Execute, Advance, serverVars, syncVars, jobVars, dispatchVars, workVars,
    counters, leaseVars
<1>1. TypeOK'
  BY DEF TypeOK, SlotsMatchWork
<1>2. InHand'
  BY DEF InHand, TypeOK, ExecutesGranted
<1>3. ExecutesGranted'
  BY DEF ExecutesGranted, TypeOK, InHand
<1>4. SlotsMatchWork'
  BY DEF SlotsMatchWork, TypeOK, Holding
<1>5. MarkedWasClaimed'
  BY DEF MarkedWasClaimed, HasRun, TypeOK, InHand, ExecutesGranted
<1>6. PendingIsManaged'
  BY DEF PendingIsManaged, ManagedIn, TypeOK
<1>7. QED
  BY <1>1, <1>2, <1>3, <1>4, <1>5, <1>6

\* The slot stays with a task that never runs.
LEMMA TaskMisfiresKeeps ==
  ASSUME IInv, NEW c \in Claims, TaskMisfires(c)
  PROVE  IInv'
<1> USE DEF IInv, TaskMisfires, Advance, serverVars, syncVars, jobVars, dispatchVars,
    workVars, counters, leaseVars
<1>1. faults' \in 0 .. MaxFaults /\ edits' = edits
  BY FaultCounted
<1>2. TypeOK'
  BY <1>1 DEF TypeOK, SlotsMatchWork
<1>3. InHand'
  BY DEF InHand, TypeOK, ExecutesGranted
<1>4. ExecutesGranted'
  BY DEF ExecutesGranted, TypeOK, InHand
<1>5. SlotsMatchWork'
  BY DEF SlotsMatchWork, TypeOK, Holding
<1>6. MarkedWasClaimed'
  BY DEF MarkedWasClaimed, HasRun, TypeOK, InHand, ExecutesGranted
<1>7. PendingIsManaged'
  BY DEF PendingIsManaged, ManagedIn, TypeOK
<1>8. QED
  BY <1>2, <1>3, <1>4, <1>5, <1>6, <1>7

\* The slot stays until the answer is handled.
LEMMA SendResultKeeps ==
  ASSUME IInv, NEW c \in Claims, SendResult(c)
  PROVE  IInv'
<1>1. SlotsMatchWork' <=> slots' = Cardinality(Dispatching') + Cardinality(Executing')
  BY DEF SlotsMatchWork, Dispatching, Executing
<1> USE DEF IInv, SendResult, Advance, leaseVars, serverVars, syncVars, jobVars,
    dispatchVars, workVars, counters, Lease!Complete
<1>2. Dispatching' = Dispatching /\ Executing' = Executing /\ slots' = slots
  BY DEF Dispatching, Executing, TypeOK, Holding
<1>3. TypeOK'
  BY DEF TypeOK, SlotsMatchWork
<1>4. InHand'
  BY DEF InHand, TypeOK, ExecutesGranted
<1>5. ExecutesGranted'
  BY DEF ExecutesGranted, TypeOK, InHand
<1>6. SlotsMatchWork'
  BY <1>1, <1>2, SlotsCounted
<1>7. MarkedWasClaimed'
  BY DEF MarkedWasClaimed, HasRun, TypeOK, InHand, ExecutesGranted
<1>8. PendingIsManaged'
  BY DEF PendingIsManaged, ManagedIn, TypeOK
<1>9. QED
  BY <1>3, <1>4, <1>5, <1>6, <1>7, <1>8

\* Giving a result up is an answer that the server knows nothing of.
LEMMA GiveUpResultKeeps ==
  ASSUME IInv, NEW c \in Claims, GiveUpResult(c)
  PROVE  IInv'
<1>1. SlotsMatchWork' <=> slots' = Cardinality(Dispatching') + Cardinality(Executing')
  BY DEF SlotsMatchWork, Dispatching, Executing
<1> USE DEF IInv, GiveUpResult, Advance, leaseVars, serverVars, syncVars, jobVars,
    dispatchVars, workVars, counters
<1>2. Dispatching' = Dispatching /\ Executing' = Executing /\ slots' = slots
  BY DEF Dispatching, Executing, TypeOK, Holding
<1>3. TypeOK'
  BY DEF TypeOK, SlotsMatchWork
<1>4. InHand' /\ ExecutesGranted'
  BY DEF InHand, TypeOK, ExecutesGranted
<1>5. SlotsMatchWork'
  BY <1>1, <1>2, SlotsCounted
<1>6. MarkedWasClaimed' /\ PendingIsManaged'
  BY DEF MarkedWasClaimed, HasRun, TypeOK, InHand, ExecutesGranted, PendingIsManaged,
     ManagedIn
<1>7. QED
  BY <1>3, <1>4, <1>5, <1>6

\* The slot of an execution is freed once.
LEMMA FinishResultKeeps ==
  ASSUME IInv, NEW c \in Claims, FinishResult(c)
  PROVE  IInv'
<1>1. SlotsMatchWork' <=> slots' = Cardinality(Dispatching') + Cardinality(Executing')
  BY DEF SlotsMatchWork, Dispatching, Executing
<1> USE DEF IInv, FinishResult, Advance, serverVars, syncVars, jobVars, dispatchVars,
    workVars, counters, leaseVars
<1>2. Dispatching' = Dispatching /\ Executing' = Executing \ {c} /\ c \in Executing
  BY DEF Dispatching, Executing, TypeOK, Holding
<1>3. slots' = Cardinality(Dispatching') + Cardinality(Executing') /\ slots' \in 0 .. Capacity
  BY <1>2, BothFinite, CountOut, SlotsCounted DEF TypeOK
<1>4. phase' \in [Claims -> {"none", "job", "result", "answered", "over", "misfired"}]
         /\ context' \in [Manuals -> Claims \cup {NoClaim}]
  BY DEF TypeOK
<1>5. TypeOK'
  BY <1>3, <1>4 DEF TypeOK
<1>6. InHand'
  BY DEF InHand, TypeOK, ExecutesGranted
<1>7. ExecutesGranted'
  BY DEF ExecutesGranted, TypeOK, InHand
<1>8. SlotsMatchWork'
  BY <1>1, <1>3
<1>9. MarkedWasClaimed'
  BY DEF MarkedWasClaimed, HasRun, TypeOK, InHand, ExecutesGranted
<1>10. PendingIsManaged'
  BY DEF PendingIsManaged, ManagedIn, TypeOK
<1>11. QED
  BY <1>5, <1>6, <1>7, <1>8, <1>9, <1>10

\* The server's clock touches the leases only.
LEMMA ClockKeeps ==
  ASSUME IInv, NEW m \in Manuals, Clock(m)
  PROVE  IInv'
<1> USE DEF IInv, Clock, OutsideAgent, syncVars, jobVars, dispatchVars, workVars,
    counters, serverVars, leaseVars
<1>1. LeaseType'
  BY LeaseKeepsType DEF TypeOK, LeaseType
<1>2. TypeOK'
  BY <1>1 DEF TypeOK, LeaseType
<1>3. InHand'
  BY DEF InHand, TypeOK, ExecutesGranted, Lease!Lapse, Lease!Reclaim
<1>4. ExecutesGranted'
  BY DEF ExecutesGranted, TypeOK, InHand, Lease!Lapse, Lease!Reclaim
<1>5. SlotsMatchWork'
  BY DEF SlotsMatchWork, TypeOK, Holding
<1>6. MarkedWasClaimed'
  BY DEF MarkedWasClaimed, HasRun, TypeOK, InHand, ExecutesGranted
<1>7. PendingIsManaged'
  BY DEF PendingIsManaged, ManagedIn, TypeOK
<1>8. QED
  BY <1>2, <1>3, <1>4, <1>5, <1>6, <1>7

\* So do the forms for manual runs, and what is listed.
LEMMA EditRunKeeps ==
  ASSUME IInv, NEW m \in Manuals, EditRun(m)
  PROVE  IInv'
<1> USE DEF IInv, EditRun, OutsideAgent, Edit, leaseVars, serverVars, syncVars, jobVars,
    dispatchVars, workVars, counters
<1>1. LeaseType'
  BY LeaseKeepsType DEF TypeOK, LeaseType
<1>2. listed' \in [Manuals -> {"yes", "shelved", "hidden"}] /\ edits' \in 0 .. MaxEdits
  BY DEF TypeOK
<1>3. TypeOK'
  BY <1>1, <1>2 DEF TypeOK, LeaseType
<1>4. InHand'
  BY DEF InHand, TypeOK, ExecutesGranted, Lease!Abandon, Lease!Override
<1>5. ExecutesGranted'
  BY DEF ExecutesGranted, TypeOK, InHand, Lease!Abandon, Lease!Override
<1>6. SlotsMatchWork'
  BY DEF SlotsMatchWork, TypeOK, Holding
<1>7. MarkedWasClaimed'
  BY DEF MarkedWasClaimed, HasRun, TypeOK, InHand, ExecutesGranted
<1>8. PendingIsManaged'
  BY DEF PendingIsManaged, ManagedIn, TypeOK
<1>9. QED
  BY <1>3, <1>4, <1>5, <1>6, <1>7, <1>8

\* Schedules change what is listed.
LEMMA EditScheduleKeeps ==
  ASSUME IInv, NEW m \in Manuals, EditSchedule(m)
  PROVE  IInv'
<1> USE DEF IInv, EditSchedule, OutsideAgent, Edit, leaseVars, serverVars, syncVars,
    jobVars, dispatchVars, workVars, counters
<1>1. TypeOK'
  BY DEF TypeOK, SlotsMatchWork
<1>2. InHand'
  BY DEF InHand, TypeOK, ExecutesGranted
<1>3. ExecutesGranted'
  BY DEF ExecutesGranted, TypeOK, InHand
<1>4. SlotsMatchWork'
  BY DEF SlotsMatchWork, TypeOK, Holding
<1>5. MarkedWasClaimed'
  BY DEF MarkedWasClaimed, HasRun, TypeOK, InHand, ExecutesGranted
<1>6. PendingIsManaged'
  BY DEF PendingIsManaged, ManagedIn, TypeOK
<1>7. QED
  BY <1>1, <1>2, <1>3, <1>4, <1>5, <1>6

\* The rest of the content is not about manual runs.
LEMMA EditOtherKeeps ==
  ASSUME IInv, EditOther
  PROVE  IInv'
<1> USE DEF IInv, EditOther, OutsideAgent, leaseVars, serverVars, syncVars, jobVars,
    dispatchVars, workVars, counters
<1>1. TypeOK'
  BY DEF TypeOK, SlotsMatchWork
<1>2. InHand'
  BY DEF InHand, TypeOK, ExecutesGranted
<1>3. ExecutesGranted'
  BY DEF ExecutesGranted, TypeOK, InHand
<1>4. SlotsMatchWork'
  BY DEF SlotsMatchWork, TypeOK, Holding
<1>5. MarkedWasClaimed'
  BY DEF MarkedWasClaimed, HasRun, TypeOK, InHand, ExecutesGranted
<1>6. PendingIsManaged'
  BY DEF PendingIsManaged, ManagedIn, TypeOK
<1>7. QED
  BY <1>1, <1>2, <1>3, <1>4, <1>5, <1>6

-----------------------------------------------------------------------------
(* The invariant and what it says *)

\* At the start nothing is claimed, dispatched or executed.
LEMMA InitInvariant == Init => IInv
<1> SUFFICES ASSUME Init PROVE IInv
  OBVIOUS
<1> USE DEF Init, Lease!Init
<1>1. TypeOK
  <2>1. LeaseType
    BY DEF LeaseType
  <2>2. faults \in 0 .. MaxFaults /\ edits \in 0 .. MaxEdits /\ slots \in 0 .. Capacity
    OBVIOUS
  <2>3. /\ at \in [Manuals -> {"idle"}] /\ hand \in [Manuals -> {NoClaim}]
        /\ context \in [Manuals -> {NoClaim}] /\ listed \in [Manuals -> {"yes"}]
        /\ phase \in [Claims -> {"none"}] /\ runOf \in [Claims -> {NoClaim}]
    OBVIOUS
  <2>4. QED
    BY <2>1, <2>2, <2>3 DEF TypeOK, LeaseType
<1>2. SlotsMatchWork
  <2>1. Dispatching = {} /\ Executing = {}
    BY DEF Dispatching, Executing, Holding
  <2>2. QED
    BY <2>1, SlotsCounted, FS_EmptySet
<1>3. InHand /\ ExecutesGranted /\ MarkedWasClaimed /\ PendingIsManaged
  BY DEF InHand, ExecutesGranted, MarkedWasClaimed, PendingIsManaged, ManagedIn
<1>4. QED
  BY <1>1, <1>2, <1>3 DEF IInv

\* A stuttering step changes nothing the invariant is about.
LEMMA StutterKeeps == IInv /\ UNCHANGED vars => IInv'
BY DEF vars, leaseVars, serverVars, syncVars, jobVars, dispatchVars, workVars, counters,
  IInv, TypeOK, InHand, ExecutesGranted, SlotsMatchWork, MarkedWasClaimed, HasRun,
  PendingIsManaged, ManagedIn

\* Every step keeps the invariant.
LEMMA NextKeeps == IInv /\ [Next]_vars => IInv'
<1> SUFFICES ASSUME IInv, [Next]_vars PROVE IInv'
  OBVIOUS
<1>1. CASE Poll \/ Apply \/ SchedulePending \/ Halt \/ Sweep \/ Recover
  BY <1>1, PollKeeps, ApplyKeeps, SchedulePendingKeeps, HaltKeeps, SweepKeeps, RecoverKeeps
<1>2. ASSUME NEW m \in Manuals, Fire(m) \/ DispatchMisfires(m) \/ Dispatch(m) PROVE IInv'
  BY <1>2, FireKeeps, DispatchMisfiresKeeps, PrepareKeeps, ClaimGrantedKeeps,
     ClaimRefusedKeeps, ClaimLostKeeps, StartRunKeeps
  DEF Dispatch
<1>3. ASSUME NEW c \in Claims, Work(c) \/ GiveUpResult(c) \/ TaskMisfires(c) PROVE IInv'
  BY <1>3, ExecuteKeeps, TaskMisfiresKeeps, SendResultKeeps, GiveUpResultKeeps,
     FinishResultKeeps
  DEF Work
<1>4. ASSUME NEW m \in Manuals, Clock(m) \/ EditRun(m) \/ EditSchedule(m) PROVE IInv'
  BY <1>4, ClockKeeps, EditRunKeeps, EditScheduleKeeps
<1>5. CASE EditOther
  BY <1>5, EditOtherKeeps
<1>6. CASE UNCHANGED vars
  BY <1>6, StutterKeeps
<1>7. QED
  BY <1>1, <1>2, <1>3, <1>4, <1>5, <1>6 DEF Next

(***************************************************************************)
(* The inductive invariant holds in every state.                           *)
(***************************************************************************)
THEOREM DispatchInvariant == Spec => []IInv
BY InitInvariant, NextKeeps, PTL DEF Spec

(***************************************************************************)
(* The server, the scheduler, the dispatches and the executions keep their *)
(* types: the outbox never takes more slots than it has (outbox.py:251).   *)
(***************************************************************************)
THEOREM DispatchTypeCorrect == Spec => []TypeOK
BY DispatchInvariant, PTL DEF IInv

(***************************************************************************)
(* No slot leaks, whatever becomes of a claim (app.py:303-337).            *)
(***************************************************************************)
THEOREM DispatchSlotsMatchWork == Spec => []SlotsMatchWork
BY DispatchInvariant, PTL DEF IInv

(***************************************************************************)
(* A run that was never claimed is not marked once its dispatch has ended  *)
(* (scheduler_adapter.py:98-105).                                          *)
(***************************************************************************)
THEOREM DispatchMarkedWasClaimed == Spec => []MarkedWasClaimed
BY DispatchInvariant, PTL DEF IInv

(***************************************************************************)
(* Only runs of the current snapshot have a dispatch job                   *)
(* (sync_coordinator.py:273-279, 328-332).                                 *)
(***************************************************************************)
THEOREM DispatchPendingIsManaged == Spec => []PendingIsManaged
BY DispatchInvariant, PTL DEF IInv
=============================================================================
