--------------------------- MODULE AgentSyncProofs ---------------------------
(***************************************************************************)
(* Theorems about AgentSync, for any jobs, contents, senders and numbers   *)
(* of faults: its types, and that the registered jobs are those of the     *)
(* current snapshot.                                                       *)
(***************************************************************************)
EXTENDS AgentSync, TLAPS

Content == [Keys -> Versions \cup {Absent}]

LEMMA ListingFacts ==
  /\ NoSnapshot \notin Content /\ Nothing \in Content /\ Listings \subseteq Content
  /\ Snapshots = Content \cup {NoSnapshot}
  /\ \A s \in Snapshots : ListedIn(s) \in Content
BY SyncAssumption DEF Content, Nothing, Snapshots, ListedIn

LEMMA InitHolds == Init => SyncInv
<1> SUFFICES ASSUME Init PROVE SyncInv
  OBVIOUS
<1>1. TypeOK
  <2>1. content \in Content /\ content \in Listings /\ Nothing \in Content
    BY ListingFacts DEF Init
  <2>2. NoCall \in [at : {"none", "mutate", "publish", "sweep", "mark"}, previous : States,
                    change : FailClosed \cup {"token", "active", "applied"}]
    BY DEF NoCall, States
  <2>3. 0 \in 0 .. MaxFaults
    BY SyncAssumption
  <2> QED
    BY <2>1, <2>2, <2>3 DEF Init, TypeOK, Content, Snapshots
<1>2. LocksHeld /\ AnswersGot /\ PlanUnderWay
  BY SyncAssumption DEF Init, LocksHeld, AnswersGot, PlanUnderWay
<1>3. JobsMatchSnapshot
  BY SyncAssumption DEF Init, JobsMatchSnapshot, Matching, ListedIn
<1> QED
  BY <1>1, <1>2, <1>3 DEF SyncInv

-----------------------------------------------------------------------------
(* Calls of the state manager *)

\* The call of a thread's own is all that its steps in the manager touch there.
LEMMA BeginTyped ==
  ASSUME TypeOK, NEW t \in Threads, NEW c \in FailClosed \cup {"token", "active", "applied"},
         Begin(t, c)
  PROVE  call' \in [Threads -> [at : {"none", "mutate", "publish", "sweep", "mark"},
                                previous : States,
                                change : FailClosed \cup {"token", "active", "applied"}]]
BY DEF TypeOK, Begin, State, States

LEMMA MutateStep == ASSUME SyncInv, NEW t \in Threads, Mutate(t) PROVE SyncInv'
<1>1. TypeOK'
  BY DEF SyncInv, TypeOK, Mutate, Cleared, serverVars, syncVars, planVars
<1>2. "restore" \in reasons => "restore" \in reasons'
  BY DEF Mutate, Cleared
<1>3. call[t].change = "restore" => "restore" \in reasons'
  BY DEF Mutate, FailClosed
<1>4. LocksHeld' /\ AnswersGot'
  BY DEF SyncInv, Mutate, LocksHeld, AnswersGot, syncVars, planVars
<1>5. Matching => Matching'
  BY <1>2 DEF Mutate, Matching, syncVars
<1>6. PlanUnderWay' /\ JobsMatchSnapshot'
  <2>1. call'["snapshot"] = call["snapshot"] \/ t = "snapshot"
    BY SyncAssumption DEF SyncInv, TypeOK, Mutate
  <2>2. pc["snapshot"] \in {"mutating", "restoring"} => t # "snapshot"
    BY DEF SyncInv, PlanUnderWay, Mutate, NoCall
  <2>3. pc["snapshot"] = "release" =>
          Matching' \/ (call'["snapshot"].at = "mutate" /\ call'["snapshot"].change = "restore")
    BY <1>3, <1>5, <2>1 DEF SyncInv, PlanUnderWay, Matching
  <2> QED
    BY <1>2, <1>5, <2>1, <2>2, <2>3
       DEF SyncInv, Mutate, PlanUnderWay, JobsMatchSnapshot, syncVars, planVars
<1> QED
  BY <1>1, <1>4, <1>6 DEF SyncInv

LEMMA PublishStep == ASSUME SyncInv, NEW t \in Threads, Publish(t) PROVE SyncInv'
<1>1. TypeOK'
  BY DEF SyncInv, TypeOK, Publish, NoCall, States, FailClosed, serverVars, stateVars,
         syncVars, planVars
<1>2. LocksHeld' /\ AnswersGot' /\ JobsMatchSnapshot'
  BY DEF SyncInv, Publish, LocksHeld, AnswersGot, JobsMatchSnapshot, Matching, stateVars,
         syncVars, planVars
<1>3. PlanUnderWay'
  <2>1. call'["snapshot"] = call["snapshot"] \/ t = "snapshot"
    BY SyncAssumption DEF SyncInv, TypeOK, Publish
  <2> QED
    BY <2>1 DEF SyncInv, Publish, PlanUnderWay, Matching, NoCall, stateVars, syncVars, planVars
<1> QED
  BY <1>1, <1>2, <1>3 DEF SyncInv

\* The listener finds no plan under way: it has the lock, or is called by the
\* thread that has it and is done with the plan's jobs.
LEMMA SweepStep == ASSUME SyncInv, NEW t \in Threads, Sweep(t) PROVE SyncInv'
<1>1. TypeOK'
  BY ListingFacts DEF SyncInv, TypeOK, Sweep, Content, Snapshots, serverVars, stateVars,
                      planVars
<1>2. LocksHeld' /\ AnswersGot'
  BY DEF SyncInv, Sweep, LocksHeld, AnswersGot, planVars
<1>3. Matching'
  BY DEF Sweep, Matching, ListedIn, Nothing
<1>4. pc["snapshot"] \notin {"mutating", "restoring"}
  <2>1. CASE t = "snapshot"
    BY <2>1 DEF SyncInv, PlanUnderWay, Sweep, NoCall
  <2>2. CASE t # "snapshot"
    BY <2>2, SyncAssumption DEF SyncInv, TypeOK, LocksHeld, Sweep, MayTake
  <2> QED
    BY <2>1, <2>2
<1> QED
  BY <1>1, <1>2, <1>3, <1>4 DEF SyncInv, Sweep, PlanUnderWay, JobsMatchSnapshot

LEMMA MarkStep == ASSUME SyncInv, NEW t \in Threads, Mark(t) PROVE SyncInv'
<1>1. TypeOK'
  BY DEF SyncInv, TypeOK, Mark, NoCall, States, FailClosed, serverVars, stateVars, syncVars,
         planVars
<1>2. LocksHeld' /\ AnswersGot' /\ JobsMatchSnapshot'
  BY DEF SyncInv, Mark, LocksHeld, AnswersGot, JobsMatchSnapshot, Matching, stateVars,
         syncVars, planVars
<1>3. PlanUnderWay'
  <2>1. call'["snapshot"] = call["snapshot"] \/ t = "snapshot"
    BY SyncAssumption DEF SyncInv, TypeOK, Mark
  <2> QED
    BY <2>1 DEF SyncInv, Mark, PlanUnderWay, Matching, NoCall, stateVars, syncVars, planVars
<1> QED
  BY <1>1, <1>2, <1>3 DEF SyncInv

-----------------------------------------------------------------------------
(* Cycles of the channels and senders *)

LEMMA FaultTyped ==
  ASSUME TypeOK, NEW kind, Fault(kind) \/ NoFault
  PROVE  faults' \in 0 .. MaxFaults
BY SyncAssumption DEF TypeOK, Fault, NoFault

\* A step of a cycle that leaves jobs, locks and plan alone, takes the thread
\* neither into nor out of a plan and keeps answers and listings.
Outside(t) ==
  /\ pc[t] \in {"idle", "ask", "sent", "handle"} /\ call[t] = NoCall
  /\ pc' \in [Threads -> {"idle", "ask", "sent", "handle", "apply", "locked", "mutating",
                          "restoring", "release"}]
  /\ pc'[t] \in {"idle", "ask", "sent", "handle"}
  /\ \A s \in Threads \ {t} : pc'[s] = pc[s] /\ call'[s] = call[s]
  /\ UNCHANGED <<reasons, syncVars, old, before, todo>>
  /\ pc["snapshot"] = "mutating" => UNCHANGED target

LEMMA OutsideStep ==
  ASSUME SyncInv, NEW t \in Threads, Outside(t)
  PROVE  LocksHeld' /\ PlanUnderWay' /\ JobsMatchSnapshot'
<1>1. \/ pc'["snapshot"] = pc["snapshot"] /\ call'["snapshot"] = call["snapshot"]
      \/ /\ pc["snapshot"] \notin {"locked", "mutating", "restoring", "release"}
         /\ pc'["snapshot"] \notin {"locked", "mutating", "restoring", "release"}
  BY SyncAssumption DEF Outside
<1>2. LocksHeld'
  BY <1>1 DEF SyncInv, LocksHeld, Outside, syncVars
<1>3. PlanUnderWay'
  <2>1. CASE pc["snapshot"] \in {"mutating", "restoring", "release"}
    <3>1. pc'["snapshot"] = pc["snapshot"] /\ call'["snapshot"] = call["snapshot"]
      BY <1>1, <2>1
    <3> QED
      BY <3>1 DEF SyncInv, PlanUnderWay, Matching, Outside, syncVars
  <2>2. CASE pc["snapshot"] \notin {"mutating", "restoring", "release"}
    <3>1. pc'["snapshot"] \notin {"mutating", "restoring", "release"}
      BY <1>1, <2>2
    <3> QED
      BY <3>1 DEF PlanUnderWay
  <2> QED
    BY <2>1, <2>2
<1>4. JobsMatchSnapshot'
  BY DEF SyncInv, JobsMatchSnapshot, Matching, Outside, syncVars
<1> QED
  BY <1>2, <1>3, <1>4

LEMMA TokenStep == ASSUME SyncInv, NEW t \in Threads, Token(t) PROVE SyncInv'
<1>1. TypeOK'
  <2>1. faults' \in 0 .. MaxFaults
    BY FaultTyped DEF SyncInv, Token
  <2>2. \E c \in FailClosed \cup {"token"} : Begin(t, c)
    BY DEF Token, FailClosed
  <2>3. pc' = pc \/ pc' = [pc EXCEPT ![t] = "ask"]
    BY DEF Token, Goto
  <2> QED
    BY <2>1, <2>2, <2>3, BeginTyped
       DEF SyncInv, TypeOK, Token, serverVars, stateVars, syncVars, planVars
<1>2. Outside(t)
  BY DEF SyncInv, TypeOK, Token, At, Goto, Begin, Outside, stateVars, planVars
<1>3. AnswersGot'
  BY SyncAssumption DEF SyncInv, TypeOK, AnswersGot, Token, At, Goto, planVars
<1> QED
  BY <1>1, <1>2, <1>3, OutsideStep DEF SyncInv

LEMMA AskStep == ASSUME SyncInv, NEW t \in Threads, Ask(t) PROVE SyncInv'
<1>1. TypeOK'
  BY DEF SyncInv, TypeOK, Ask, Goto, Snapshots, serverVars, stateVars, syncVars
<1>2. Outside(t)
  BY DEF SyncInv, TypeOK, Ask, At, Goto, Outside, stateVars
<1>3. AnswersGot'
  BY SyncAssumption DEF SyncInv, TypeOK, AnswersGot, Ask, At, Goto
<1> QED
  BY <1>1, <1>2, <1>3, OutsideStep DEF SyncInv

\* Only the snapshot channel is told a listing, and then it gets one.
LEMMA AnswerStep == ASSUME SyncInv, NEW t \in Threads, Answer(t) PROVE SyncInv'
<1>1. PICK a \in {"active", "stored", "revoked", "invalid", "same", "listing"} :
        Answers(t, a) /\ (a = "listing" => t = "snapshot")
  BY DEF Answer, Welcome
<1>2. TypeOK'
  <2>1. answer' \in [Threads -> {"none", "active", "stored", "revoked", "invalid", "same",
                                 "listing"}]
    BY <1>1 DEF SyncInv, TypeOK, Answers
  <2>2. target' \in Snapshots /\ current' \in Snapshots
    BY <1>1, ListingFacts DEF SyncInv, TypeOK, Answers
  <2>3. faults' \in 0 .. MaxFaults
    BY FaultTyped DEF SyncInv, Answer
  <2> QED
    BY <2>1, <2>2, <2>3 DEF SyncInv, TypeOK, Answer, Goto, serverVars, stateVars, syncVars
<1>3. Outside(t)
  <2>1. pc["snapshot"] = "mutating" => target' = target
    BY <1>1 DEF Answer, Answers, At
  <2> QED
    BY <2>1 DEF SyncInv, TypeOK, Answer, At, Goto, Outside, stateVars
<1>4. AnswersGot'
  <2>1. CASE t = "snapshot"
    BY <1>1, <2>1 DEF SyncInv, TypeOK, AnswersGot, Answer, Answers, At, Goto
  <2>2. CASE t # "snapshot"
    BY <1>1, <2>2, SyncAssumption
       DEF SyncInv, TypeOK, AnswersGot, Answer, Answers, At, Goto
  <2> QED
    BY <2>1, <2>2
<1> QED
  BY <1>2, <1>3, <1>4, OutsideStep DEF SyncInv

LEMMA LoseStep == ASSUME SyncInv, NEW t \in Threads, Lose(t) PROVE SyncInv'
<1>1. TypeOK'
  <2>1. faults' \in 0 .. MaxFaults
    BY FaultTyped DEF SyncInv, Lose
  <2> QED
    BY <2>1 DEF SyncInv, TypeOK, Lose, Goto, Snapshots, serverVars, stateVars, syncVars
<1>2. Outside(t)
  BY DEF SyncInv, TypeOK, Lose, At, Goto, Outside, stateVars
<1>3. AnswersGot'
  BY SyncAssumption DEF SyncInv, TypeOK, AnswersGot, Lose, At, Goto
<1> QED
  BY <1>1, <1>2, <1>3, OutsideStep DEF SyncInv

LEMMA HandleStep == ASSUME SyncInv, NEW t \in Threads, Handle(t) PROVE SyncInv'
<1>1. answer[t] \in {"active", "stored", "revoked", "invalid", "same"}
  BY DEF SyncInv, TypeOK, AnswersGot, Handle, At
<1>2. answer[t] # "stored" => Tells(answer[t]) \in FailClosed \cup {"token", "active", "applied"}
  BY <1>1 DEF Tells, FailClosed
<1>3. TypeOK'
  BY <1>2, BeginTyped DEF SyncInv, TypeOK, Handle, Goto, serverVars, stateVars, syncVars,
                          planVars
<1>4. Outside(t)
  BY DEF SyncInv, TypeOK, Handle, At, Goto, Begin, Outside, stateVars, planVars
<1>5. AnswersGot'
  BY SyncAssumption DEF SyncInv, TypeOK, AnswersGot, Handle, At, Goto, planVars
<1> QED
  BY <1>3, <1>4, <1>5, OutsideStep DEF SyncInv

-----------------------------------------------------------------------------
(* The plan of the snapshot channel *)

\* The snapshot channel moves to a label of apply_snapshot.
LEMMA MovesTyped ==
  ASSUME TypeOK, NEW l \in {"idle", "apply", "locked", "mutating", "restoring", "release"},
         Goto("snapshot", l)
  PROVE  /\ pc' \in [Threads -> {"idle", "ask", "sent", "handle", "apply", "locked",
                                 "mutating", "restoring", "release"}]
         /\ pc'["snapshot"] = l
         /\ \A t \in Threads : pc'[t] = "handle" => pc[t] = "handle" /\ t # "snapshot"
BY SyncAssumption DEF TypeOK, Goto

LEMMA EndPollTyped ==
  ASSUME TypeOK, EndPoll
  PROVE  /\ pc' \in [Threads -> {"idle", "ask", "sent", "handle", "apply", "locked",
                                 "mutating", "restoring", "release"}]
         /\ pc'["snapshot"] = "idle"
         /\ \A t \in Threads :
              pc'[t] = "handle" => pc[t] = "handle" /\ answer'[t] = answer[t]
         /\ answer' \in [Threads -> {"none", "active", "stored", "revoked", "invalid", "same",
                                     "listing"}]
         /\ target' \in Snapshots /\ old' \in Snapshots
         /\ before' \in [Keys -> Versions \cup {Absent}] /\ todo' \subseteq Keys
<1>1. Goto("snapshot", "idle")
  BY DEF EndPoll
<1> QED
  BY <1>1, MovesTyped, ListingFacts, SyncAssumption DEF EndPoll, TypeOK, Content, Snapshots

LEMMA HandleListingStep == ASSUME SyncInv, HandleListing PROVE SyncInv'
<1>1. CASE Goto("snapshot", "apply") /\ NoFault /\ UNCHANGED <<call, answer, target, old, before, todo>>
  <2>1. TypeOK'
    BY <1>1, MovesTyped
       DEF SyncInv, TypeOK, HandleListing, NoFault, serverVars, stateVars, syncVars
  <2>2. LocksHeld' /\ AnswersGot'
    BY <1>1, MovesTyped
       DEF SyncInv, LocksHeld, AnswersGot, HandleListing, Snap, At, syncVars, serverVars
  <2>3. PlanUnderWay' /\ JobsMatchSnapshot'
    BY <1>1, MovesTyped
       DEF SyncInv, PlanUnderWay, JobsMatchSnapshot, Matching, HandleListing, syncVars,
           stateVars
  <2> QED
    BY <2>1, <2>2, <2>3 DEF SyncInv
<1>2. CASE Fault("identity") /\ Begin("snapshot", "needs_enrollment") /\ EndPoll
  <2>1. TypeOK'
    <3>1. faults' \in 0 .. MaxFaults
      BY <1>2, FaultTyped DEF SyncInv
    <3>2. call' \in [Threads -> [at : {"none", "mutate", "publish", "sweep", "mark"},
                                 previous : States,
                                 change : FailClosed \cup {"token", "active", "applied"}]]
      BY <1>2, BeginTyped, SyncAssumption DEF SyncInv, FailClosed
    <3> QED
      BY <1>2, <3>1, <3>2, EndPollTyped
         DEF SyncInv, TypeOK, HandleListing, serverVars, stateVars, syncVars
  <2>2. LocksHeld' /\ AnswersGot'
    BY <1>2, EndPollTyped
       DEF SyncInv, LocksHeld, AnswersGot, HandleListing, Snap, At, syncVars
  <2>3. PlanUnderWay' /\ JobsMatchSnapshot'
    BY <1>2, EndPollTyped
       DEF SyncInv, PlanUnderWay, JobsMatchSnapshot, Matching, HandleListing, syncVars,
           stateVars
  <2> QED
    BY <2>1, <2>2, <2>3 DEF SyncInv
<1> QED
  BY <1>1, <1>2 DEF HandleListing

LEMMA LockExecutionStep == ASSUME SyncInv, LockExecution PROVE SyncInv'
<1>1. Goto("snapshot", "locked")
  BY DEF LockExecution
<1>2. TypeOK'
  BY <1>1, MovesTyped DEF SyncInv, TypeOK, LockExecution, serverVars, stateVars
<1>3. LocksHeld' /\ AnswersGot'
  BY <1>1, MovesTyped, SyncAssumption
     DEF SyncInv, LocksHeld, AnswersGot, LockExecution, Snap, At
<1>4. PlanUnderWay' /\ JobsMatchSnapshot'
  BY <1>1, MovesTyped
     DEF SyncInv, PlanUnderWay, JobsMatchSnapshot, Matching, LockExecution, stateVars
<1> QED
  BY <1>2, <1>3, <1>4 DEF SyncInv

\* A plan that is applied starts from jobs that match its old snapshot.
LEMMA LockApplyStep == ASSUME SyncInv, LockApply PROVE SyncInv'
<1>0. Matching
  BY DEF SyncInv, LockApply, JobsMatchSnapshot
<1>1. CASE snapshot = old
  <2>1. /\ applyLock' = "snapshot" /\ before' = jobs /\ todo' = Plan
        /\ Goto("snapshot", "mutating")
        /\ UNCHANGED <<executionLock, answer, target, old>>
    BY <1>1 DEF LockApply
  <2>2. target \in Content
    BY ListingFacts DEF SyncInv, AnswersGot, LockApply, Snap, At
  <2>3. TypeOK'
    BY <2>1, MovesTyped DEF SyncInv, TypeOK, LockApply, Plan, serverVars, stateVars
  <2>4. LocksHeld' /\ AnswersGot'
    BY <2>1, MovesTyped DEF SyncInv, LocksHeld, AnswersGot, LockApply, Snap, At
  <2>5. JobsMatchSnapshot'
    BY <2>1, SyncAssumption DEF JobsMatchSnapshot
  <2>6. jobs = ListedIn(old) =>
          jobs = [k \in Keys |-> IF k \in Plan THEN ListedIn(old)[k] ELSE target[k]]
    BY ListingFacts DEF SyncInv, TypeOK, Plan, Content
  <2>7. PlanUnderWay'
    <3>1. jobs' = jobs /\ target' = target /\ old' = old /\ reasons' = reasons
          /\ snapshot' = snapshot /\ call' = call /\ call["snapshot"] = NoCall
      BY <2>1 DEF LockApply, Snap, At, stateVars
    <3>2. \/ jobs' = [k \in Keys |-> IF k \in todo' THEN ListedIn(old')[k] ELSE target'[k]]
          \/ "restore" \in reasons'
      BY <1>0, <1>1, <2>1, <2>6, <3>1 DEF Matching
    <3>3. before' = ListedIn(old') \/ "restore" \in reasons'
      BY <1>0, <1>1, <2>1, <3>1 DEF Matching
    <3>4. pc'["snapshot"] = "mutating"
      BY <2>1, MovesTyped DEF SyncInv
    <3> QED
      BY <1>1, <3>1, <3>2, <3>3, <3>4 DEF PlanUnderWay
  <2> QED
    BY <2>3, <2>4, <2>5, <2>7 DEF SyncInv
<1>2. CASE snapshot # old
  <2>1. executionLock' = Nobody /\ EndPoll /\ UNCHANGED applyLock
    BY <1>2 DEF LockApply
  <2>2. TypeOK'
    BY <2>1, EndPollTyped DEF SyncInv, TypeOK, LockApply, serverVars, stateVars
  <2>3. LocksHeld' /\ AnswersGot'
    BY <2>1, EndPollTyped, SyncAssumption
       DEF SyncInv, LocksHeld, AnswersGot, LockApply, Snap, At
  <2>4. PlanUnderWay' /\ JobsMatchSnapshot'
    BY <2>1, EndPollTyped
       DEF SyncInv, PlanUnderWay, JobsMatchSnapshot, Matching, LockApply, stateVars
  <2> QED
    BY <2>2, <2>3, <2>4 DEF SyncInv
<1> QED
  BY <1>1, <1>2

LEMMA MutateJobStep ==
  ASSUME SyncInv, NEW k \in Keys, MutateJob(k) PROVE SyncInv'
<1>1. target \in Content
  BY ListingFacts DEF SyncInv, AnswersGot, MutateJob, Snap, At
<1>2. TypeOK'
  BY <1>1 DEF SyncInv, TypeOK, MutateJob, Content, serverVars, stateVars
<1>3. LocksHeld' /\ AnswersGot' /\ JobsMatchSnapshot'
  BY SyncAssumption
     DEF SyncInv, LocksHeld, AnswersGot, JobsMatchSnapshot, MutateJob, Snap, At
<1>4. ASSUME jobs = [i \in Keys |-> IF i \in todo THEN ListedIn(old)[i] ELSE target[i]]
      PROVE  jobs' = [i \in Keys |-> IF i \in todo' THEN ListedIn(old)[i] ELSE target[i]]
  BY <1>4 DEF MutateJob
<1>5. PlanUnderWay'
  <2>1. /\ pc' = pc /\ call' = call /\ snapshot' = snapshot /\ old' = old
        /\ before' = before /\ reasons' = reasons /\ target' = target
        /\ pc["snapshot"] = "mutating"
    BY DEF MutateJob, Snap, At, stateVars
  <2> QED
    BY <1>4, <2>1 DEF SyncInv, PlanUnderWay
<1> QED
  BY <1>2, <1>3, <1>5 DEF SyncInv

LEMMA MutationFailsStep ==
  ASSUME SyncInv, NEW k \in Keys, MutationFails(k) PROVE SyncInv'
<1>1. target \in Content
  BY ListingFacts DEF SyncInv, AnswersGot, MutationFails, Snap, At
<1>2. Goto("snapshot", "restoring")
  BY DEF MutationFails
<1>3. TypeOK'
  <2>1. faults' \in 0 .. MaxFaults
    BY FaultTyped DEF SyncInv, MutationFails
  <2>2. jobs' \in [Keys -> Versions \cup {Absent}]
    BY <1>1 DEF SyncInv, TypeOK, MutationFails, Content
  <2> QED
    BY <1>2, <2>1, <2>2, MovesTyped DEF SyncInv, TypeOK, MutationFails, serverVars, stateVars
<1>4. LocksHeld' /\ AnswersGot' /\ JobsMatchSnapshot'
  BY <1>2, MovesTyped, SyncAssumption
     DEF SyncInv, LocksHeld, AnswersGot, JobsMatchSnapshot, MutationFails, Snap, At
<1>5. PlanUnderWay'
  BY <1>2, MovesTyped DEF SyncInv, PlanUnderWay, MutationFails, Snap, At, stateVars
<1> QED
  BY <1>3, <1>4, <1>5 DEF SyncInv

\* The compensation puts back what matches the old snapshot, or says it could not.
LEMMA RestoreStep == ASSUME SyncInv, Restore PROVE SyncInv'
<1>1. Goto("snapshot", "release")
  BY DEF Restore
<1>2. LocksHeld' /\ AnswersGot' /\ JobsMatchSnapshot'
  BY <1>1, MovesTyped, SyncAssumption
     DEF SyncInv, LocksHeld, AnswersGot, JobsMatchSnapshot, Restore, Snap, At, planVars
<1>3. CASE jobs' = before /\ NoFault /\ UNCHANGED call
  <2>1. TypeOK'
    BY <1>1, <1>3, MovesTyped
       DEF SyncInv, TypeOK, Restore, NoFault, serverVars, stateVars, planVars
  <2>2. PlanUnderWay'
    BY <1>1, <1>3, MovesTyped
       DEF SyncInv, PlanUnderWay, Matching, Restore, Snap, At, stateVars
  <2> QED
    BY <1>2, <2>1, <2>2 DEF SyncInv
<1>4. CASE Fault("restore") /\ jobs' = Nothing /\ Begin("snapshot", "restore")
  <2>1. TypeOK'
    <3>1. faults' \in 0 .. MaxFaults
      BY <1>4, FaultTyped DEF SyncInv
    <3>2. call' \in [Threads -> [at : {"none", "mutate", "publish", "sweep", "mark"},
                                 previous : States,
                                 change : FailClosed \cup {"token", "active", "applied"}]]
      BY <1>4, BeginTyped, SyncAssumption DEF SyncInv, FailClosed
    <3>3. jobs' \in [Keys -> Versions \cup {Absent}]
      BY <1>4, ListingFacts DEF Content
    <3> QED
      BY <1>1, <3>1, <3>2, <3>3, MovesTyped
         DEF SyncInv, TypeOK, Restore, serverVars, stateVars, planVars
  <2>2. call'["snapshot"].at = "mutate" /\ call'["snapshot"].change = "restore"
    BY <1>4, SyncAssumption DEF SyncInv, TypeOK, Begin
  <2>3. PlanUnderWay'
    BY <1>1, <2>2, MovesTyped DEF SyncInv, PlanUnderWay
  <2> QED
    BY <1>2, <2>1, <2>3 DEF SyncInv
<1> QED
  BY <1>3, <1>4 DEF Restore

LEMMA CommitStep == ASSUME SyncInv, Commit PROVE SyncInv'
<1>1. Goto("snapshot", "release") /\ Begin("snapshot", "applied")
  BY DEF Commit
<1>2. target \in Listings /\ target \in Content
  BY ListingFacts DEF SyncInv, AnswersGot, Commit, Snap, At
<1>3. TypeOK'
  <2>1. call' \in [Threads -> [at : {"none", "mutate", "publish", "sweep", "mark"},
                               previous : States,
                               change : FailClosed \cup {"token", "active", "applied"}]]
    BY <1>1, BeginTyped, SyncAssumption DEF SyncInv
  <2> QED
    BY <1>1, <1>2, <2>1, MovesTyped, ListingFacts
       DEF SyncInv, TypeOK, Commit, serverVars, stateVars, planVars
<1>4. LocksHeld' /\ AnswersGot' /\ JobsMatchSnapshot'
  BY <1>1, MovesTyped, SyncAssumption
     DEF SyncInv, LocksHeld, AnswersGot, JobsMatchSnapshot, Commit, Snap, At, planVars
<1>5. Matching'
  <2>1. jobs = [k \in Keys |-> target[k]] \/ "restore" \in reasons
    BY DEF SyncInv, PlanUnderWay, Commit, Snap, At
  <2>2. jobs = target \/ "restore" \in reasons
    BY <1>2, <2>1 DEF Content
  <2> QED
    BY <1>2, <2>2, ListingFacts DEF Commit, Matching, ListedIn, stateVars
<1>6. PlanUnderWay'
  BY <1>1, <1>5, MovesTyped DEF SyncInv, PlanUnderWay
<1> QED
  BY <1>3, <1>4, <1>6 DEF SyncInv

LEMMA ReleaseStep == ASSUME SyncInv, Release PROVE SyncInv'
<1>1. EndPoll /\ executionLock' = Nobody /\ applyLock' = Nobody
  BY DEF Release
<1>2. Matching
  BY DEF SyncInv, PlanUnderWay, Release, Snap, At, NoCall
<1>3. TypeOK'
  BY <1>1, EndPollTyped DEF SyncInv, TypeOK, Release, serverVars, stateVars
<1>4. LocksHeld' /\ AnswersGot'
  BY <1>1, EndPollTyped, SyncAssumption DEF SyncInv, LocksHeld, AnswersGot
<1>5. PlanUnderWay' /\ JobsMatchSnapshot'
  BY <1>1, <1>2, EndPollTyped
     DEF SyncInv, PlanUnderWay, JobsMatchSnapshot, Matching, Release, stateVars
<1> QED
  BY <1>3, <1>4, <1>5 DEF SyncInv

-----------------------------------------------------------------------------
(* Triggers and the dashboard; every step *)

LEMMA StartContextStep == ASSUME SyncInv, StartContext PROVE SyncInv'
BY DEF SyncInv, TypeOK, LocksHeld, AnswersGot, PlanUnderWay, JobsMatchSnapshot, Matching,
       StartContext, serverVars, stateVars, syncVars, planVars

LEMMA DashboardStep ==
  ASSUME SyncInv, EditSchedules \/ ToggleDevice PROVE SyncInv'
BY DEF SyncInv, TypeOK, LocksHeld, AnswersGot, PlanUnderWay, JobsMatchSnapshot, Matching,
       EditSchedules, ToggleDevice, stateVars, syncVars, planVars

LEMMA StepHolds == SyncInv /\ [Next]_vars => SyncInv'
<1> SUFFICES ASSUME SyncInv, [Next]_vars PROVE SyncInv'
  OBVIOUS
<1>1. ASSUME NEW t \in Threads, StateManagerCall(t) PROVE SyncInv'
  BY <1>1, MutateStep, PublishStep, SweepStep, MarkStep DEF StateManagerCall
<1>2. ASSUME NEW t \in Threads, Token(t) \/ Ask(t) \/ Answer(t) \/ Lose(t) \/ Handle(t)
      PROVE  SyncInv'
  BY <1>2, TokenStep, AskStep, AnswerStep, LoseStep, HandleStep
<1>3. CASE Apply
  BY <1>3, HandleListingStep, LockExecutionStep, LockApplyStep, MutateJobStep,
     MutationFailsStep, RestoreStep, CommitStep, ReleaseStep DEF Apply
<1>4. CASE StartContext \/ EditSchedules \/ ToggleDevice
  BY <1>4, StartContextStep, DashboardStep
<1>5. CASE UNCHANGED vars
  BY <1>5 DEF SyncInv, TypeOK, LocksHeld, AnswersGot, PlanUnderWay, JobsMatchSnapshot,
              Matching, vars, serverVars, stateVars, syncVars, planVars
<1> QED
  BY <1>1, <1>2, <1>3, <1>4, <1>5 DEF Next, Thread

\* The inductive invariant: what the locks, the answers and a plan that is under
\* way say about the jobs at every step of apply_snapshot (app.py:124-161).
THEOREM SyncInvariant == Spec => []SyncInv
<1>1. Init => SyncInv
  BY InitHolds
<1>2. SyncInv /\ [Next]_vars => SyncInv'
  BY StepHolds
<1> QED
  BY <1>1, <1>2, PTL DEF Spec

\* The agent's state, locks and jobs keep their types.
THEOREM SyncTypeCorrect == Spec => []TypeOK
<1>1. SyncInv => TypeOK
  BY DEF SyncInv
<1> QED
  BY <1>1, SyncInvariant, PTL

\* Whenever no plan is being applied, the jobs are those that the current snapshot
\* lists, unless a compensation has failed (sync_coordinator.py:328-371).
THEOREM SyncJobsMatchSnapshot == Spec => []JobsMatchSnapshot
<1>1. SyncInv => JobsMatchSnapshot
  BY DEF SyncInv
<1> QED
  BY <1>1, SyncInvariant, PTL
=============================================================================
