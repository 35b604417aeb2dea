------------------------ MODULE GroupExecutionProofs ------------------------
(***************************************************************************)
(* Proofs about GroupExecution, for any finite set of details in any       *)
(* sequences, any number of contexts and any number of faults of any kind. *)
(*                                                                         *)
(* At any time at most one sequence is under way: the one whose details    *)
(* the call of execute_next_task is about to start, or the one the entry   *)
(* of task_completion_status is for.  All before it are acknowledged, all  *)
(* after it untouched.  A sequence whose scheduling failed has no entry,   *)
(* and its context goes nowhere from there.  So the group implements the   *)
(* abstract GroupRuns.                                                     *)
(***************************************************************************)
EXTENDS GroupExecution, FiniteSetTheorems, SequenceTheorems,
        WellFoundedInduction, TLAPS

Started == {"scheduled", "running", "missed"} \cup Finished
Over == {"acked", "rejected"}

\* Details of the context that have begun and have no answer yet.
Outstanding(c) == {d \in Details : phase[c][d] \in Started}

\* TypeOK but for the range of slots.
WorkTypes ==
  /\ context \in 0 .. MaxContexts
  /\ busy \in BOOLEAN /\ stop \in BOOLEAN
  /\ excluded \subseteq Details /\ awaited \subseteq Details
  /\ open \subseteq {SequenceOf[d] : d \in Details}
  /\ next \in [at : {"none", "reserve", "schedule", "giveup"}, tasks : SUBSET Details,
               held : 0 .. Cardinality(Details)]
  /\ phase \in [Contexts -> [Details -> Phases]]
  /\ slots \in Int
  /\ queue \in [Contexts -> Seq(Details)]
  /\ reply \in [Contexts -> [at : {"none", "sent", "finish", "call"}, what : Answers]]

OtherTypes ==
  /\ logged \subseteq Contexts \X Details /\ stoppers \subseteq logged
  /\ serverGroup \in {"active", "error"} /\ edited \in BOOLEAN
  /\ snapshot \in {"none", "without", "with"}
  /\ registered \in BOOLEAN /\ trigger \in BOOLEAN
  /\ halted \in BOOLEAN /\ valid \in BOOLEAN
  /\ listener \in {"idle", "remove", "mark"}
  /\ faults \in 0 .. MaxFaults

Types == WorkTypes /\ OtherTypes

\* Contexts that have not begun are blank.
Future ==
  \A c \in Contexts : c > context =>
    (\A d \in Details : phase[c][d] = "idle") /\ queue[c] = <<>> /\ reply[c] = NoReply

\* A queue holds details that have finished, each once; an answer is of its head.
QueuesHoldFinished ==
  \A c \in Contexts :
    /\ \A i \in 1 .. Len(queue[c]) : phase[c][queue[c][i]] \in Finished
    /\ \A i, j \in 1 .. Len(queue[c]) : i # j => queue[c][i] # queue[c][j]
    /\ reply[c].at \in {"sent", "finish"} => queue[c] # <<>>

\* A refusal or an error stop that was handled has marked the context.
RefusalStops ==
  /\ \A c \in Contexts : reply[c].at = "finish" /\ StopsContext(reply[c].what) => stop
  /\ context > 0 => \A d \in Details : phase[context][d] = "rejected" => stop

\* Only details that have run are taken out.
ExcludedHasRun ==
  \A d \in excluded : context > 0 /\ phase[context][d] \in Finished \cup Over

\* What is not running waits for nothing.
Resting ==
  ~busy => /\ next = NoCall /\ awaited = {} /\ open = {}
           /\ context > 0 => Outstanding(context) = {}

\* A call before its sequence has its entry.
Calling ==
  next.at \in {"reserve", "giveup"} =>
    /\ busy /\ context > 0
    /\ awaited = {} /\ open = {} /\ Outstanding(context) = {}

Reserving ==
  next.at = "reserve" =>
    /\ next.tasks # {} /\ next.held <= Cardinality(next.tasks)
    /\ \A d \in next.tasks :
         /\ next.tasks = InSequence(SequenceOf[d])
         /\ \A e \in Details :
              phase[context][e] = IF SequenceOf[e] < SequenceOf[d] THEN "acked" ELSE "idle"

\* ... and after.
Scheduling ==
  next.at = "schedule" =>
    /\ next.tasks # {} /\ next.tasks \subseteq awaited
    /\ \A d \in next.tasks :
         phase[context][d] = "idle" /\ next.held = Cardinality(InSequence(SequenceOf[d]))

AtRest ==
  /\ next.at = "none" => next = NoCall
  /\ next.at = "giveup" => next = [NoCall EXCEPT !.at = "giveup"]

\* The details still to be scheduled.
ToCome == IF next.at = "schedule" THEN next.tasks ELSE {}

\* The sequence under way.
Waiting ==
  /\ awaited = {} => open = {}
  /\ awaited # {} => busy /\ context > 0 /\ awaited = Outstanding(context) \cup ToCome
  /\ \A d \in awaited :
       /\ open = {SequenceOf[d]}
       /\ awaited \subseteq InSequence(SequenceOf[d])
       /\ \A e \in Details :
            /\ SequenceOf[e] < SequenceOf[d] => phase[context][e] = "acked"
            /\ SequenceOf[e] > SequenceOf[d] => phase[context][e] = "idle"
            /\ SequenceOf[e] = SequenceOf[d] => e \in awaited \/ phase[context][e] \in Over

Order ==
  /\ Types /\ SequenceBarrier /\ ContextsDoNotOverlap
  /\ Future /\ QueuesHoldFinished /\ RefusalStops /\ ExcludedHasRun
  /\ Resting /\ Calling /\ Reserving /\ Scheduling /\ AtRest /\ Waiting

USE GroupAssumption

-----------------------------------------------------------------------------
(* Lemmas about the operators *)

\* First picks the least: there is one, as < is well-founded on Nat.
LEMMA FirstIsLeast ==
  ASSUME NEW S \in SUBSET {SequenceOf[d] : d \in Details}, S # {}
  PROVE  First(S) \in S /\ \A r \in S : First(S) <= r
<1>1. S \subseteq Nat
  OBVIOUS
<1>2. PICK s \in S : \A r \in S : ~(<<r, s>> \in OpToRel(<, Nat))
  BY <1>1, WFMin, NatLessThanWellFounded
<1>3. \A r \in S : s <= r
  <2> SUFFICES ASSUME NEW r \in S, r < s PROVE FALSE
    BY <1>1
  <2>1. <<r, s>> \in OpToRel(<, Nat)
    BY <1>1, Zenon DEF OpToRel
  <2>2. QED
    BY <1>2, <2>1
<1>4. QED
  BY <1>3 DEF First

\* The first sequence of all.
LEMMA FirstOfAll ==
  LET s == First({SequenceOf[d] : d \in Details})
  IN /\ s \in Nat /\ InSequence(s) # {}
     /\ \A e \in Details : SequenceOf[e] >= s
<1> DEFINE S == {SequenceOf[d] : d \in Details}
           s == First(S)
<1>1. S # {} /\ S \in SUBSET {SequenceOf[d] : d \in Details}
  OBVIOUS
<1>2. s \in S /\ \A r \in S : s <= r
  BY <1>1, FirstIsLeast
<1> HIDE DEF s
<1>3. s \in Nat /\ InSequence(s) # {} /\ \A e \in Details : SequenceOf[e] >= s
  BY <1>2 DEF InSequence
<1>4. QED
  BY <1>3 DEF s

\* The next sequence after one.
LEMMA FirstAfter ==
  ASSUME NEW s \in Nat, After(s) # {}
  PROVE  /\ First(After(s)) \in Nat /\ First(After(s)) > s
         /\ InSequence(First(After(s))) # {}
         /\ \A e \in Details : SequenceOf[e] > s => SequenceOf[e] >= First(After(s))
<1>1. After(s) \in SUBSET {SequenceOf[d] : d \in Details}
  BY DEF After
<1>2. First(After(s)) \in After(s) /\ \A r \in After(s) : First(After(s)) <= r
  BY <1>1, FirstIsLeast
<1>3. QED
  BY <1>2 DEF After, InSequence

\* A fault is counted within its bound.
LEMMA FaultCounted ==
  ASSUME Types, NEW kind, Fault(kind)
  PROVE  faults' \in 0 .. MaxFaults
BY DEF Types, OtherTypes, Fault

-----------------------------------------------------------------------------
(* Steps that leave the context's work alone *)

coreVars == <<context, busy, open, awaited, next, phase, queue>>

\* They need only keep the types, the marks and the answers in order.
LEMMA CoreKept ==
  ASSUME Order, Types', UNCHANGED coreVars, stop => stop',
         \A d \in excluded' : d \in excluded \/ (context > 0 /\ phase[context][d] \in Finished),
         \A c \in Contexts :
           /\ c > context => reply'[c] = reply[c]
           /\ reply'[c].at \in {"sent", "finish"} => queue[c] # <<>>
           /\ reply'[c].at = "finish" /\ StopsContext(reply'[c].what) => stop'
  PROVE  Order'
<1> USE DEF coreVars
<1>1. SequenceBarrier' /\ ContextsDoNotOverlap'
  BY DEF Order, SequenceBarrier, ContextsDoNotOverlap, Unfinished
<1>2. Future' /\ QueuesHoldFinished'
  BY DEF Order, Future, QueuesHoldFinished
<1>3. RefusalStops' /\ ExcludedHasRun'
  BY DEF Order, RefusalStops, ExcludedHasRun, Types, WorkTypes
<1>4. Resting' /\ Calling' /\ Reserving' /\ Scheduling' /\ AtRest' /\ Waiting'
  BY DEF Order, Resting, Calling, Reserving, Scheduling, AtRest, Waiting, ToCome, Outstanding
<1>5. QED
  BY <1>1, <1>2, <1>3, <1>4 DEF Order

\* Steps of the scheduler, the snapshots, the dashboard and the operating state.
LEMMA OutsideKeeps ==
  ASSUME Order,
         TriggerFires \/ (StartGroup /\ ~MayStart) \/ Outside
  PROVE  Order'
<1>0. WorkTypes /\ OtherTypes
  BY DEF Order, Types
<1>1. /\ UNCHANGED <<context, busy, excluded, open, awaited, next, phase, slots, queue, reply>>
      /\ stop' \in BOOLEAN /\ (stop => stop')
  BY <1>0 DEF WorkTypes, TriggerFires, StartGroup, Outside, ReactivateGroup, EditGroup,
     ApplySnapshot, Halt, RemoveAllManaged, MarkStopped, Recover,
     contextVars, workVars, serverVars, syncVars
<1>2. WorkTypes'
  BY <1>0, <1>1 DEF WorkTypes
<1>3. OtherTypes'
  <2> USE <1>0 DEF OtherTypes, serverVars, syncVars
  <2>1. CASE TriggerFires
    BY <2>1 DEF TriggerFires
  <2>2. CASE StartGroup
    BY <2>2 DEF StartGroup
  <2>3. CASE ReactivateGroup
    BY <2>3 DEF ReactivateGroup
  <2>4. CASE EditGroup
    BY <2>4 DEF EditGroup
  <2>5. CASE ApplySnapshot
    BY <2>5 DEF ApplySnapshot, Listing, Changed
  <2>6. CASE Halt
    BY <2>6 DEF Halt
  <2>7. CASE RemoveAllManaged
    BY <2>7 DEF RemoveAllManaged
  <2>8. CASE MarkStopped
    BY <2>8 DEF MarkStopped
  <2>9. CASE Recover
    BY <2>9 DEF Recover
  <2>10. QED
    BY <2>1, <2>2, <2>3, <2>4, <2>5, <2>6, <2>7, <2>8, <2>9 DEF Outside
<1>4. \A o \in Contexts :
        /\ reply[o].at \in {"sent", "finish"} => queue[o] # <<>>
        /\ reply[o].at = "finish" /\ StopsContext(reply[o].what) => stop
  BY DEF Order, QueuesHoldFinished, RefusalStops
<1>5. Types' /\ UNCHANGED coreVars /\ UNCHANGED reply
  BY <1>1, <1>2, <1>3 DEF Types, coreVars
<1>6. \A o \in Contexts :
        /\ o > context => reply'[o] = reply[o]
        /\ reply'[o].at \in {"sent", "finish"} => queue[o] # <<>>
        /\ reply'[o].at = "finish" /\ StopsContext(reply'[o].what) => stop'
  BY <1>1, <1>4
<1>7. QED
  BY <1>1, <1>5, <1>6, CoreKept

\* The head of a queue is of the context that runs, and has finished.
LEMMA HeadFinished ==
  ASSUME Order, NEW c \in Contexts, queue[c] # <<>>
  PROVE  /\ Head(queue[c]) \in Details /\ Head(queue[c]) = queue[c][1]
         /\ phase[c][Head(queue[c])] \in Finished
         /\ c = context /\ context > 0
<1>1. queue[c] \in Seq(Details)
  BY DEF Order, Types, WorkTypes, OtherTypes
<1>2. Len(queue[c]) \in Nat /\ Len(queue[c]) >= 1 /\ Head(queue[c]) = queue[c][1]
      /\ Head(queue[c]) \in Details
  BY <1>1
<1>3. phase[c][queue[c][1]] \in Finished
  BY <1>2 DEF Order, QueuesHoldFinished
<1>4. Unfinished(c)
  BY <1>2, <1>3 DEF Unfinished
<1>5. QED
  BY <1>2, <1>3, <1>4 DEF Order, ContextsDoNotOverlap, Contexts

\* Steps of the delivery that only change one answer; the rest is CoreKept's.
LEMMA AnswerKept ==
  ASSUME Order, Types', UNCHANGED coreVars, NEW c \in Contexts,
         c <= context, \A o \in Contexts : o # c => reply'[o] = reply[o],
         reply'[c].at \in {"sent", "finish"} => queue[c] # <<>>,
         reply'[c].at = "finish" /\ StopsContext(reply'[c].what) => stop',
         stop => stop',
         \A d \in excluded' : d \in excluded \/ (context > 0 /\ phase[context][d] \in Finished)
  PROVE  Order'
<1>1. context \in Int /\ c \in Int
  BY DEF Order, Types, WorkTypes, OtherTypes, Contexts
<1>2. \A o \in Contexts : o > context => reply'[o] = reply[o]
  BY <1>1 DEF Contexts
<1>3. \A o \in Contexts : reply'[o].at \in {"sent", "finish"} => queue[o] # <<>>
  BY DEF Order, QueuesHoldFinished
<1>4. \A o \in Contexts : reply'[o].at = "finish" /\ StopsContext(reply'[o].what) => stop'
  BY DEF Order, RefusalStops
<1>5. QED
  BY <1>2, <1>3, <1>4, CoreKept

\* What the server does with the head of a queue.
LEMMA StoreResultKeeps ==
  ASSUME Order, NEW c \in Contexts, StoreResult(c)
  PROVE  Order'
<1>1. queue[c] # <<>> /\ Head(queue[c]) \in Details /\ c = context
  BY HeadFinished DEF StoreResult, Sending
<1>2. Types'
  BY <1>1 DEF Order, Types, WorkTypes, OtherTypes, StoreResult, StopGroup, Answers, contextVars, syncVars
<1>3. UNCHANGED coreVars /\ UNCHANGED <<stop, excluded>>
  BY DEF coreVars, StoreResult, contextVars
<1>4. c <= context
  BY <1>1 DEF Order, Types, WorkTypes
<1>5. reply'[c].at = "sent" /\ \A o \in Contexts : o # c => reply'[o] = reply[o]
  BY DEF Order, Types, WorkTypes, OtherTypes, StoreResult
<1>6. QED
  BY <1>1, <1>2, <1>3, <1>4, <1>5, AnswerKept

LEMMA RefuseResultKeeps ==
  ASSUME Order, NEW c \in Contexts, RefuseResult(c) \/ GiveUpResult(c)
  PROVE  Order'
<1>1. queue[c] # <<>> /\ c = context
  BY HeadFinished DEF RefuseResult, GiveUpResult, Sending, Order, QueuesHoldFinished
<1>2. Types'
  <2>1. faults' \in 0 .. MaxFaults
    BY GroupAssumption DEF Order, Types, OtherTypes, RefuseResult, GiveUpResult, Fault
  <2>2. WorkTypes'
    <3>1. Refused(c) /\ UNCHANGED <<context, busy, stop, excluded, open, awaited, next, phase,
                                    slots, queue>>
      BY DEF RefuseResult, GiveUpResult, contextVars
    <3>2. [at |-> "sent", what |-> "refused"]
            \in [at : {"none", "sent", "finish", "call"}, what : Answers]
      BY DEF Answers
    <3>3. reply' \in [Contexts -> [at : {"none", "sent", "finish", "call"}, what : Answers]]
      BY <3>1, <3>2 DEF Order, Types, WorkTypes, Refused
    <3>4. QED
      BY <3>1, <3>3 DEF Order, Types, WorkTypes
  <2>3. OtherTypes'
    BY <2>1 DEF Order, Types, OtherTypes, RefuseResult, GiveUpResult, syncVars, serverVars
  <2>4. QED
    BY <2>2, <2>3 DEF Types
<1>3. UNCHANGED coreVars /\ UNCHANGED <<stop, excluded>>
  BY DEF coreVars, RefuseResult, GiveUpResult, contextVars
<1>4. c <= context
  BY <1>1 DEF Order, Types, WorkTypes
<1>5. reply'[c].at = "sent" /\ \A o \in Contexts : o # c => reply'[o] = reply[o]
  BY DEF Order, Types, WorkTypes, OtherTypes, RefuseResult, GiveUpResult, Refused
<1>6. QED
  BY <1>1, <1>2, <1>3, <1>4, <1>5, AnswerKept

LEMMA LoseReplyKeeps ==
  ASSUME Order, NEW c \in Contexts, LoseReply(c)
  PROVE  Order'
<1>1. queue[c] # <<>>
  BY DEF Order, QueuesHoldFinished, LoseReply
<1>2. c = context
  BY <1>1, HeadFinished
<1>3. NoReply \in [at : {"none", "sent", "finish", "call"}, what : Answers] /\ NoReply.at = "none"
  BY DEF NoReply, Answers
<1>4. Types'
  <2>1. faults' \in 0 .. MaxFaults
    BY FaultCounted DEF Order, LoseReply
  <2>2. reply' \in [Contexts -> [at : {"none", "sent", "finish", "call"}, what : Answers]]
    BY <1>3 DEF Order, Types, WorkTypes, OtherTypes, LoseReply
  <2>3. QED
    BY <2>1, <2>2 DEF Order, Types, WorkTypes, OtherTypes, LoseReply, contextVars, syncVars, serverVars
<1>5. UNCHANGED coreVars /\ UNCHANGED <<stop, excluded>>
  BY DEF coreVars, LoseReply, contextVars
<1>6. c <= context
  BY <1>2 DEF Order, Types, WorkTypes, OtherTypes
<1>7. reply'[c].at = "none" /\ \A o \in Contexts : o # c => reply'[o] = reply[o]
  BY <1>3 DEF Order, Types, WorkTypes, OtherTypes, LoseReply
<1>8. QED
  BY <1>4, <1>5, <1>6, <1>7, AnswerKept

\* An answer is applied to the marks of the context.
LEMMA HandleAnswerKeeps ==
  ASSUME Order, NEW c \in Contexts, HandleAnswer(c)
  PROVE  Order'
<1> DEFINE d == Head(queue[c])
<1>1. queue[c] # <<>>
  BY DEF Order, HandleAnswer, QueuesHoldFinished
<1>2. d \in Details /\ phase[c][d] \in Finished /\ c = context /\ context > 0
  BY <1>1, HeadFinished
<1>3. Types'
  <2>1. reply' \in [Contexts -> [at : {"none", "sent", "finish", "call"}, what : Answers]]
    BY DEF Order, Types, WorkTypes, OtherTypes, HandleAnswer
  <2>2. excluded' \subseteq Details /\ stop' \in BOOLEAN /\ registered' \in BOOLEAN
    BY <1>2 DEF Order, Types, WorkTypes, OtherTypes, HandleAnswer, StopsContext
  <2>3. WorkTypes'
    BY <2>1, <2>2 DEF Order, Types, WorkTypes, HandleAnswer
  <2>4. OtherTypes'
    BY <2>2 DEF Order, Types, OtherTypes, HandleAnswer, serverVars
  <2>5. QED
    BY <2>3, <2>4 DEF Types
<1>4. UNCHANGED coreVars /\ (stop => stop')
  BY DEF coreVars, HandleAnswer
<1>5. /\ StopsContext(reply'[c].what) => stop'
      /\ \A o \in Contexts : o # c => reply'[o] = reply[o]
  BY DEF Order, Types, WorkTypes, OtherTypes, HandleAnswer, StopsContext
<1>6. \A e \in excluded' : e \in excluded \/ (context > 0 /\ phase[context][e] \in Finished)
  BY <1>1, <1>2 DEF HandleAnswer
<1>7. c <= context
  BY <1>2 DEF Order, Types, WorkTypes, OtherTypes
<1>8. QED
  BY <1>1, <1>3, <1>4, <1>5, <1>6, <1>7, AnswerKept

-----------------------------------------------------------------------------
(* A context begins *)

LEMMA StartGroupKeeps ==
  ASSUME Order, StartGroup, MayStart
  PROVE  Order'
<1> DEFINE s == First({SequenceOf[d] : d \in Details})
<1>1. s \in Nat /\ InSequence(s) # {} /\ \A e \in Details : SequenceOf[e] >= s
  BY FirstOfAll
<1> HIDE DEF s
<1>2. InSequence(s) \subseteq Details
  BY DEF InSequence
<1>3. /\ context' = context + 1 /\ busy' /\ ~stop'
      /\ excluded' = {} /\ open' = {} /\ awaited' = {}
      /\ next' = [at |-> "reserve", tasks |-> InSequence(s), held |-> 0]
      /\ UNCHANGED <<phase, slots, queue, reply, logged, stoppers, serverGroup, edited, snapshot,
                     registered, halted, valid, listener, faults>>
      /\ trigger' = FALSE /\ context < MaxContexts /\ ~busy
  BY <1>1 DEF StartGroup, MayStart, Call, workVars, serverVars, syncVars, s
<1>4. context \in Nat /\ context' \in Contexts
  BY <1>3 DEF Order, Types, WorkTypes, Contexts
<1>5. context > 0 => context \in Contexts
  BY DEF Order, Types, WorkTypes, Contexts
<1>6. \A c \in Contexts : Outstanding(c) = {}
  BY <1>3, <1>4, <1>5 DEF Order, Resting, ContextsDoNotOverlap, Unfinished, Outstanding, Started,
     Contexts
<1>7. \A c \in Contexts : queue[c] = <<>> /\ reply[c].at \notin {"sent", "finish"}
  <2> SUFFICES ASSUME NEW c \in Contexts
               PROVE  queue[c] = <<>> /\ reply[c].at \notin {"sent", "finish"}
    OBVIOUS
  <2>1. CASE queue[c] # <<>>
    BY <2>1, HeadFinished, <1>6 DEF Outstanding, Started
  <2>2. QED
    BY <2>1 DEF Order, QueuesHoldFinished
<1>8. \A d \in Details : phase[context + 1][d] = "idle"
  BY <1>3, <1>4 DEF Order, Future
<1>9. Types'
  <2>1. 0 \in 0 .. Cardinality(Details)
    BY FS_CardinalityType
  <2>2. WorkTypes'
    <3>1. next' \in [at : {"none", "reserve", "schedule", "giveup"}, tasks : SUBSET Details,
                     held : 0 .. Cardinality(Details)]
      BY <1>2, <1>3, <2>1
    <3>2. context' \in 0 .. MaxContexts
      BY <1>4 DEF Contexts
    <3>3. /\ busy' \in BOOLEAN /\ stop' \in BOOLEAN
          /\ excluded' \subseteq Details /\ awaited' \subseteq Details
          /\ open' \subseteq {SequenceOf[d] : d \in Details}
      BY <1>3 DEF StartGroup, MayStart
    <3>4. QED
      BY <1>3, <3>1, <3>2, <3>3 DEF Order, Types, WorkTypes
  <2>3. OtherTypes'
    BY <1>3 DEF Order, Types, OtherTypes
  <2>4. QED
    BY <2>2, <2>3 DEF Types
<1>10. SequenceBarrier' /\ ContextsDoNotOverlap'
  BY <1>3, <1>6 DEF Order, SequenceBarrier, ContextsDoNotOverlap, Unfinished, Outstanding, Started
<1>11. Future' /\ QueuesHoldFinished'
  BY <1>3, <1>4 DEF Order, Future, QueuesHoldFinished, Contexts
<1>12. RefusalStops' /\ ExcludedHasRun'
  BY <1>3, <1>4, <1>7, <1>8 DEF RefusalStops, ExcludedHasRun
<1>13. Resting' /\ Scheduling' /\ AtRest' /\ Waiting'
  BY <1>3, <1>4 DEF Resting, Scheduling, AtRest, Waiting, NoCall
<1>14. Outstanding(context)' = {}
  BY <1>3, <1>8 DEF Outstanding, Started, Finished
<1>15. Calling'
  BY <1>3, <1>4, <1>14 DEF Calling
<1>16. Reserving'
  <2>1. Cardinality(InSequence(s)) \in Nat
    BY <1>2, FS_Subset, FS_CardinalityType
  <2>2. \A d \in InSequence(s) : SequenceOf[d] = s
    BY DEF InSequence
  <2>3. \A e \in Details : ~(SequenceOf[e] < s)
    BY <1>1
  <2>4. QED
    BY <1>1, <1>3, <1>8, <2>1, <2>2, <2>3 DEF Reserving
<1>17. QED
  BY <1>9, <1>10, <1>11, <1>12, <1>13, <1>15, <1>16 DEF Order

-----------------------------------------------------------------------------
(* execute_next_task *)

LEMMA ReserveSlotKeeps ==
  ASSUME Order, ReserveSlot
  PROVE  Order'
<1>1. /\ next.at = "reserve" /\ next.held < Cardinality(next.tasks)
      /\ next' = [next EXCEPT !.held = @ + 1]
      /\ slots' = slots + 1
      /\ UNCHANGED <<context, busy, stop, excluded, open, awaited, phase, queue, reply>>
      /\ UNCHANGED <<logged, stoppers, serverGroup, edited, snapshot, registered, halted, valid,
                     listener, trigger, faults>>
  BY DEF ReserveSlot, contextVars, serverVars, syncVars
<1>2. next \in [at : {"none", "reserve", "schedule", "giveup"}, tasks : SUBSET Details,
                held : 0 .. Cardinality(Details)]
  BY DEF Order, Types, WorkTypes
<1>3. /\ Cardinality(next.tasks) <= Cardinality(Details)
      /\ Cardinality(next.tasks) \in Nat /\ Cardinality(Details) \in Nat
  BY <1>2, FS_Subset, FS_CardinalityType
<1>4. /\ next'.at = "reserve" /\ next'.tasks = next.tasks /\ next'.held = next.held + 1
      /\ next' \in [at : {"none", "reserve", "schedule", "giveup"}, tasks : SUBSET Details,
                    held : 0 .. Cardinality(Details)]
  BY <1>1, <1>2, <1>3
<1>5. Types'
  <2>1. WorkTypes'
    <3>1. slots' \in Int
      BY <1>1 DEF Order, Types, WorkTypes
    <3>2. QED
      BY <1>1, <1>4, <3>1 DEF Order, Types, WorkTypes
  <2>2. OtherTypes'
    BY <1>1 DEF Order, Types, OtherTypes
  <2>3. QED
    BY <2>1, <2>2 DEF Types
<1>6. SequenceBarrier' /\ ContextsDoNotOverlap' /\ Future' /\ QueuesHoldFinished'
  BY <1>1 DEF Order, SequenceBarrier, ContextsDoNotOverlap, Unfinished, Future, QueuesHoldFinished
<1>7. RefusalStops' /\ ExcludedHasRun'
  BY <1>1 DEF Order, RefusalStops, ExcludedHasRun
<1>8. Resting' /\ Calling' /\ Scheduling' /\ AtRest'
  BY <1>1, <1>4 DEF Order, Resting, Calling, Scheduling, AtRest, Outstanding
<1>9. Reserving'
  BY <1>1, <1>2, <1>3, <1>4 DEF Order, Reserving
<1>10. Waiting'
  BY <1>1, <1>4 DEF Order, Waiting, Calling
<1>11. QED
  BY <1>5, <1>6, <1>7, <1>8, <1>9, <1>10 DEF Order

LEMMA SlotRefusedKeeps ==
  ASSUME Order, SlotRefused
  PROVE  Order'
<1>1. /\ next.at = "reserve"
      /\ next' = [at |-> "giveup", tasks |-> {}, held |-> 0]
      /\ slots' = slots - next.held /\ stop'
      /\ UNCHANGED <<context, busy, excluded, open, awaited, phase, queue, reply>>
      /\ UNCHANGED <<logged, stoppers, serverGroup, edited, snapshot, registered, halted, valid,
                     listener, trigger, faults>>
  BY DEF SlotRefused, NoCall, serverVars, syncVars
<1>2. Types'
  <2>1. next.held \in Int /\ 0 \in 0 .. Cardinality(Details)
    BY FS_CardinalityType DEF Order, Types, WorkTypes
  <2>2. stop' \in BOOLEAN
    BY DEF SlotRefused
  <2>3. WorkTypes'
    BY <1>1, <2>1, <2>2 DEF Order, Types, WorkTypes
  <2>4. OtherTypes'
    BY <1>1 DEF Order, Types, OtherTypes
  <2>5. QED
    BY <2>3, <2>4 DEF Types
<1>3. SequenceBarrier' /\ ContextsDoNotOverlap' /\ Future' /\ QueuesHoldFinished'
  BY <1>1 DEF Order, SequenceBarrier, ContextsDoNotOverlap, Unfinished, Future, QueuesHoldFinished
<1>4. RefusalStops' /\ ExcludedHasRun'
  BY <1>1 DEF Order, RefusalStops, ExcludedHasRun
<1>5. Resting' /\ Calling' /\ Reserving' /\ Scheduling' /\ AtRest'
  <2>1. Resting' /\ Calling'
    BY <1>1 DEF Order, Resting, Calling, Outstanding
  <2>2. next' = [NoCall EXCEPT !.at = "giveup"]
    <3>1. next' = [at |-> "giveup", tasks |-> {}, held |-> 0]
      BY <1>1
    <3>2. QED
      BY <3>1 DEF NoCall
  <2>3. next'.at = "giveup"
    BY <1>1
  <2>4. Reserving' /\ Scheduling' /\ AtRest'
    BY <2>2, <2>3 DEF Reserving, Scheduling, AtRest
  <2>5. QED
    BY <2>1, <2>4
<1>6. Waiting'
  BY <1>1 DEF Order, Waiting, Calling
<1>7. QED
  BY <1>2, <1>3, <1>4, <1>5, <1>6 DEF Order

LEMMA GiveUpKeeps ==
  ASSUME Order, GiveUp
  PROVE  Order'
<1>1. /\ next.at = "giveup" /\ next' = NoCall /\ busy' = FALSE
      /\ UNCHANGED <<context, stop, excluded, open, awaited, phase, slots, queue, reply>>
      /\ UNCHANGED <<logged, stoppers, serverGroup, edited, snapshot, registered, halted, valid,
                     listener, trigger, faults>>
  BY DEF GiveUp, workVars, serverVars, syncVars
<1>2. Types'
  <2>1. 0 \in 0 .. Cardinality(Details)
    BY FS_CardinalityType
  <2>2. WorkTypes'
    BY <1>1, <2>1 DEF Order, Types, WorkTypes, NoCall
  <2>3. OtherTypes'
    BY <1>1 DEF Order, Types, OtherTypes
  <2>4. QED
    BY <2>2, <2>3 DEF Types
<1>3. SequenceBarrier' /\ ContextsDoNotOverlap' /\ Future' /\ QueuesHoldFinished'
  BY <1>1 DEF Order, SequenceBarrier, ContextsDoNotOverlap, Unfinished, Future, QueuesHoldFinished
<1>4. RefusalStops' /\ ExcludedHasRun'
  BY <1>1 DEF Order, RefusalStops, ExcludedHasRun
<1>5. awaited = {} /\ open = {} /\ (context > 0 => Outstanding(context) = {})
  BY <1>1 DEF Order, Calling
<1>6. Resting' /\ Calling' /\ Reserving' /\ Scheduling' /\ AtRest' /\ Waiting'
  BY <1>1, <1>5 DEF Resting, Calling, Reserving, Scheduling, AtRest, Waiting, Outstanding, NoCall
<1>7. QED
  BY <1>2, <1>3, <1>4, <1>6 DEF Order

\* The call whose sequence is about to get its entry, or has it.
LEMMA SequenceOfCall ==
  ASSUME Order, next.at \in {"reserve", "schedule"}, NEW d \in next.tasks
  PROVE  /\ context \in Contexts /\ context > 0 /\ busy
         /\ d \in Details /\ phase[context][d] = "idle"
         /\ next.tasks \subseteq InSequence(SequenceOf[d])
         /\ \A e \in Details : SequenceOf[e] < SequenceOf[d] => phase[context][e] = "acked"
         /\ \A e \in Details : SequenceOf[e] > SequenceOf[d] => phase[context][e] = "idle"
<1>1. d \in Details /\ next.tasks \subseteq Details /\ context \in 0 .. MaxContexts
  BY DEF Order, Types, WorkTypes
<1>2. CASE next.at = "reserve"
  <2>1. ~(SequenceOf[d] < SequenceOf[d])
    BY <1>1
  <2>2. \A e \in Details : SequenceOf[e] > SequenceOf[d] => ~(SequenceOf[e] < SequenceOf[d])
    BY <1>1
  <2>3. QED
    BY <1>1, <1>2, <2>1, <2>2 DEF Order, Calling, Reserving, Contexts
<1>3. CASE next.at = "schedule"
  BY <1>1, <1>3 DEF Order, Scheduling, Waiting, Contexts
<1>4. QED
  BY <1>2, <1>3

LEMMA OpenSequenceKeeps ==
  ASSUME Order, OpenSequence
  PROVE  Order'
<1>1. /\ next.at = "reserve" /\ next.held = Cardinality(next.tasks)
      /\ next' = [next EXCEPT !.at = "schedule"]
      /\ open' = open \cup {SequenceOf[d] : d \in next.tasks}
      /\ awaited' = awaited \cup next.tasks
      /\ UNCHANGED <<context, busy, stop, excluded, phase, slots, queue, reply>>
      /\ UNCHANGED <<logged, stoppers, serverGroup, edited, snapshot, registered, halted, valid,
                     listener, trigger, faults>>
  BY DEF OpenSequence, workVars, serverVars, syncVars
<1>2. next \in [at : {"none", "reserve", "schedule", "giveup"}, tasks : SUBSET Details,
                held : 0 .. Cardinality(Details)]
  BY DEF Order, Types, WorkTypes
<1>3. /\ next'.at = "schedule" /\ next'.tasks = next.tasks /\ next'.held = next.held
      /\ next' \in [at : {"none", "reserve", "schedule", "giveup"}, tasks : SUBSET Details,
                    held : 0 .. Cardinality(Details)]
  BY <1>1, <1>2
<1>4. /\ busy /\ context > 0 /\ awaited = {} /\ open = {} /\ Outstanding(context) = {}
      /\ next.tasks # {}
  BY <1>1 DEF Order, Calling, Reserving
<1>5. awaited' = next.tasks /\ open' = {SequenceOf[d] : d \in next.tasks}
  BY <1>1, <1>4
<1>6. \A d \in next.tasks : next.tasks = InSequence(SequenceOf[d])
  BY <1>1 DEF Order, Reserving
<1>7. Types'
  <2>1. WorkTypes'
    BY <1>1, <1>2, <1>3, <1>5 DEF Order, Types, WorkTypes
  <2>2. OtherTypes'
    BY <1>1 DEF Order, Types, OtherTypes
  <2>3. QED
    BY <2>1, <2>2 DEF Types
<1>8. SequenceBarrier' /\ ContextsDoNotOverlap' /\ Future' /\ QueuesHoldFinished'
  BY <1>1 DEF Order, SequenceBarrier, ContextsDoNotOverlap, Unfinished, Future, QueuesHoldFinished
<1>9. RefusalStops' /\ ExcludedHasRun'
  BY <1>1 DEF Order, RefusalStops, ExcludedHasRun
<1>10. Resting' /\ Calling' /\ Reserving' /\ AtRest'
  BY <1>1, <1>3, <1>4 DEF Resting, Calling, Reserving, AtRest
<1>11. Scheduling'
  BY <1>1, <1>3, <1>4, <1>5, <1>6, SequenceOfCall DEF Scheduling
<1>12. Waiting'
  <2>1. ToCome' = next.tasks /\ Outstanding(context)' = {}
    BY <1>1, <1>3, <1>4 DEF ToCome, Outstanding
  <2>2. ASSUME NEW d \in next.tasks
        PROVE  /\ open' = {SequenceOf[d]}
               /\ next.tasks \subseteq InSequence(SequenceOf[d])
               /\ \A e \in Details : SequenceOf[e] = SequenceOf[d] => e \in next.tasks
    BY <1>5, <1>6 DEF InSequence
  <2>3. ASSUME NEW d \in next.tasks, NEW e \in Details
        PROVE  /\ SequenceOf[e] < SequenceOf[d] => phase[context][e] = "acked"
               /\ SequenceOf[e] > SequenceOf[d] => phase[context][e] = "idle"
    BY <1>1, SequenceOfCall
  <2>4. QED
    BY <1>1, <1>4, <1>5, <2>1, <2>2, <2>3 DEF Waiting
<1>13. QED
  BY <1>7, <1>8, <1>9, <1>10, <1>11, <1>12 DEF Order

LEMMA ScheduleDetailKeeps ==
  ASSUME Order, NEW d \in Details, ScheduleDetail(d)
  PROVE  Order'
<1>1. /\ next.at = "schedule" /\ d \in next.tasks
      /\ next' = IF next.tasks = {d} THEN NoCall ELSE [next EXCEPT !.tasks = @ \ {d}]
      /\ phase' = [phase EXCEPT ![context][d] = "scheduled"]
      /\ UNCHANGED <<context, busy, stop, excluded, open, awaited, slots, queue, reply>>
      /\ UNCHANGED <<logged, stoppers, serverGroup, edited, snapshot, registered, halted, valid,
                     listener, trigger, faults>>
  BY DEF ScheduleDetail, SetPhase, contextVars, serverVars, syncVars
<1>2. /\ next \in [at : {"none", "reserve", "schedule", "giveup"}, tasks : SUBSET Details,
                   held : 0 .. Cardinality(Details)]
      /\ phase \in [Contexts -> [Details -> Phases]] /\ context \in Nat
  BY DEF Order, Types, WorkTypes
<1>3. /\ context \in Contexts /\ context > 0 /\ busy /\ phase[context][d] = "idle"
      /\ \A e \in Details : SequenceOf[e] < SequenceOf[d] => phase[context][e] = "acked"
      /\ \A e \in Details : SequenceOf[e] > SequenceOf[d] => phase[context][e] = "idle"
  BY <1>1, SequenceOfCall
<1>4. /\ phase'[context][d] = "scheduled"
      /\ \A e \in Details : e # d => phase'[context][e] = phase[context][e]
      /\ \A c \in Contexts : c # context => phase'[c] = phase[c]
      /\ phase' \in [Contexts -> [Details -> Phases]]
  BY <1>1, <1>2, <1>3 DEF Phases
<1>5. /\ next' \in [at : {"none", "reserve", "schedule", "giveup"}, tasks : SUBSET Details,
                    held : 0 .. Cardinality(Details)]
      /\ next'.at \in {"none", "schedule"} /\ (next'.at = "none" => next' = NoCall)
      /\ next'.at = "schedule" => /\ next'.tasks = next.tasks \ {d} /\ next'.tasks # {}
                                  /\ next'.held = next.held
      /\ next'.at = "none" => next.tasks = {d}
  <2>1. 0 \in 0 .. Cardinality(Details)
    BY FS_CardinalityType
  <2>2. CASE next.tasks = {d}
    BY <1>1, <1>2, <2>1, <2>2 DEF NoCall
  <2>3. CASE next.tasks # {d}
    BY <1>1, <1>2, <2>3
  <2>4. QED
    BY <2>2, <2>3
<1>6. Types'
  <2>1. WorkTypes'
    BY <1>1, <1>4, <1>5 DEF Order, Types, WorkTypes
  <2>2. OtherTypes'
    BY <1>1 DEF Order, Types, OtherTypes
  <2>3. QED
    BY <2>1, <2>2 DEF Types
<1>7. SequenceBarrier'
  <2> SUFFICES ASSUME NEW c \in Contexts, NEW f \in Details, NEW e \in Details,
                      SequenceOf[e] < SequenceOf[f], phase'[c][f] # "idle"
               PROVE  phase'[c][e] = "acked"
    BY DEF SequenceBarrier
  <2>1. CASE c # context
    BY <1>4, <2>1 DEF Order, SequenceBarrier
  <2>2. CASE c = context /\ f = d
    BY <1>3, <1>4, <2>2
  <2>3. CASE c = context /\ f # d
    <3>1. phase[c][e] = "acked"
      BY <1>4, <2>3 DEF Order, SequenceBarrier
    <3>2. QED
      BY <1>3, <1>4, <2>3, <3>1
  <2>4. QED
    BY <2>1, <2>2, <2>3
<1>8. ContextsDoNotOverlap' /\ Future'
  <2>1. ContextsDoNotOverlap'
    BY <1>1, <1>4 DEF Order, ContextsDoNotOverlap, Unfinished
  <2>2. Future'
    BY <1>1, <1>2, <1>4 DEF Order, Future, Contexts
  <2>3. QED
    BY <2>1, <2>2
<1>9. QueuesHoldFinished'
  <2>1. ASSUME NEW c \in Contexts, NEW i \in 1 .. Len(queue[c])
        PROVE  phase'[c][queue[c][i]] \in Finished
    <3>1. queue[c][i] \in Details /\ phase[c][queue[c][i]] \in Finished
      BY <2>1 DEF Order, Types, WorkTypes, QueuesHoldFinished
    <3>2. QED
      BY <1>3, <1>4, <3>1 DEF Finished
  <2>2. QED
    BY <1>1, <2>1 DEF Order, QueuesHoldFinished
<1>10. RefusalStops' /\ ExcludedHasRun'
  <2>1. RefusalStops'
    BY <1>1, <1>3, <1>4 DEF Order, RefusalStops
  <2>2. ExcludedHasRun'
    BY <1>1, <1>3, <1>4 DEF Order, Types, WorkTypes, ExcludedHasRun, Finished, Over
  <2>3. QED
    BY <2>1, <2>2
<1>11. Resting' /\ Calling' /\ Reserving' /\ AtRest'
  BY <1>1, <1>3, <1>5 DEF Resting, Calling, Reserving, AtRest
<1>12. Scheduling'
  BY <1>1, <1>2, <1>4, <1>5 DEF Order, Scheduling
<1>13. Waiting'
  <2>1. Outstanding(context)' = Outstanding(context) \cup {d}
    BY <1>1, <1>4 DEF Outstanding, Started
  <2>2. ToCome' = ToCome \ {d} /\ d \in ToCome
    BY <1>1, <1>5 DEF ToCome
  <2>3. d \in awaited
    BY <1>1 DEF Order, Scheduling
  <2>4. awaited' = (Outstanding(context) \cup ToCome)'
    BY <1>1, <2>1, <2>2, <2>3 DEF Order, Waiting
  <2>5. ASSUME NEW f \in awaited, NEW e \in Details
        PROVE  /\ SequenceOf[e] < SequenceOf[f] => phase'[context][e] = "acked"
               /\ SequenceOf[e] > SequenceOf[f] => phase'[context][e] = "idle"
               /\ SequenceOf[e] = SequenceOf[f] => e \in awaited \/ phase'[context][e] \in Over
    <3>1. SequenceOf[f] = SequenceOf[d] /\ SequenceOf[d] \in Nat
      BY <2>3, <2>5 DEF Order, Waiting, InSequence
    <3>2. QED
      BY <1>3, <1>4, <2>3, <3>1 DEF Order, Waiting
  <2>6. QED
    BY <1>1, <1>3, <2>3, <2>4, <2>5 DEF Order, Waiting
<1>14. QED
  BY <1>6, <1>7, <1>8, <1>9, <1>10, <1>11, <1>12, <1>13 DEF Order

LEMMA ScheduleFailsKeeps ==
  ASSUME Order, ScheduleFails
  PROVE  Order'
<1> DEFINE f == CHOOSE d \in next.tasks : TRUE
           s == SequenceOf[f]
<1>1. f \in next.tasks /\ next.at = "schedule"
  BY DEF Order, Scheduling, ScheduleFails
<1>2. /\ next' = NoCall
      /\ phase' = [phase EXCEPT ![context] = [d \in Details |->
                     IF SequenceOf[d] = s /\ @[d] = "scheduled" THEN "idle" ELSE @[d]]]
      /\ slots' = slots - next.held
      /\ open' = open \ {s} /\ awaited' = awaited \ InSequence(s) /\ stop' = TRUE
      /\ UNCHANGED <<context, busy, excluded, queue, reply>>
      /\ UNCHANGED <<logged, stoppers, serverGroup, edited, snapshot, registered, halted, valid,
                     listener, trigger>>
  BY DEF ScheduleFails, serverVars, syncVars
<1> HIDE DEF f
<1>3. context \in Contexts /\ context > 0 /\ busy /\ f \in Details
  BY <1>1, SequenceOfCall
<1>4. f \in awaited /\ open = {s} /\ awaited \subseteq InSequence(s)
  BY <1>1 DEF Order, Scheduling, Waiting
<1>5. open' = {} /\ awaited' = {}
  BY <1>2, <1>4
<1> HIDE DEF s
<1>6. \A d \in Details :
        /\ phase[context][d] # "scheduled" => phase'[context][d] = phase[context][d]
        /\ phase[context][d] = "scheduled" => phase'[context][d] \in {"scheduled", "idle"}
  BY <1>2, <1>3 DEF Order, Types, WorkTypes
<1>7. \A c \in Contexts : c # context => phase'[c] = phase[c]
  BY <1>2 DEF Order, Types, WorkTypes
<1>8. Types'
  <2>1. next.held \in Int /\ NoCall \in [at : {"none", "reserve", "schedule", "giveup"},
                                         tasks : SUBSET Details, held : 0 .. Cardinality(Details)]
    BY FS_CardinalityType DEF Order, Types, WorkTypes, NoCall
  <2>2. phase' \in [Contexts -> [Details -> Phases]]
    <3>1. phase \in [Contexts -> [Details -> Phases]]
      BY DEF Order, Types, WorkTypes
    <3>2. [d \in Details |-> IF SequenceOf[d] = s /\ phase[context][d] = "scheduled"
                             THEN "idle" ELSE phase[context][d]] \in [Details -> Phases]
      BY <1>3, <3>1 DEF Phases
    <3>3. QED
      BY <1>2, <1>3, <3>1, <3>2
  <2>3. WorkTypes'
    BY <1>2, <1>5, <2>1, <2>2 DEF Order, Types, WorkTypes
  <2>4. OtherTypes'
    BY <1>2, FaultCounted DEF Order, Types, OtherTypes, ScheduleFails
  <2>5. QED
    BY <2>3, <2>4 DEF Types
<1>9. SequenceBarrier'
  <2> SUFFICES ASSUME NEW c \in Contexts, NEW d \in Details, NEW e \in Details,
                      SequenceOf[e] < SequenceOf[d], phase'[c][d] # "idle"
               PROVE  phase'[c][e] = "acked"
    BY DEF SequenceBarrier
  <2>1. phase[c][d] # "idle"
    BY <1>6, <1>7
  <2>2. phase[c][e] = "acked"
    BY <2>1 DEF Order, SequenceBarrier
  <2>3. QED
    BY <1>6, <1>7, <2>2
<1>10. ContextsDoNotOverlap'
  BY <1>2, <1>7 DEF Order, ContextsDoNotOverlap, Unfinished
<1>11. Future'
  BY <1>2, <1>3, <1>7 DEF Order, Types, WorkTypes, Future, Contexts
<1>12. QueuesHoldFinished'
  <2>1. ASSUME NEW c \in Contexts, NEW i \in 1 .. Len(queue[c])
        PROVE  phase'[c][queue[c][i]] \in Finished
    <3>1. queue[c][i] \in Details /\ phase[c][queue[c][i]] \in Finished
      BY <2>1 DEF Order, Types, WorkTypes, QueuesHoldFinished
    <3>2. QED
      BY <1>6, <1>7, <3>1 DEF Finished
  <2>2. QED
    BY <1>2, <2>1 DEF Order, QueuesHoldFinished
<1>13. RefusalStops' /\ ExcludedHasRun'
  <2>1. ExcludedHasRun'
    BY <1>2, <1>6 DEF Order, Types, WorkTypes, ExcludedHasRun, Finished, Over
  <2>2. QED
    BY <1>2, <2>1 DEF RefusalStops
<1>14. Resting' /\ Calling' /\ Reserving' /\ Scheduling' /\ AtRest' /\ Waiting'
  BY <1>2, <1>3, <1>5 DEF Resting, Calling, Reserving, Scheduling, AtRest, Waiting, NoCall
<1>15. QED
  BY <1>8, <1>9, <1>10, <1>11, <1>12, <1>13, <1>14 DEF Order

-----------------------------------------------------------------------------
(* Tasks *)

\* A detail goes from one phase before its answer to another.
LEMMA StartedKept ==
  ASSUME Order, NEW c \in Contexts, NEW d \in Details, NEW p \in Started,
         phase[c][d] \in Started,
         phase' = [phase EXCEPT ![c][d] = p],
         busy' \in BOOLEAN, busy => busy',
         UNCHANGED <<context, stop, excluded, open, awaited, next, reply>>
  PROVE  /\ c = context /\ busy
         /\ phase'[c][d] = p
         /\ \A o \in Contexts : \A e \in Details :
              o # c \/ e # d => phase'[o][e] = phase[o][e]
         /\ phase' \in [Contexts -> [Details -> Phases]]
         /\ SequenceBarrier' /\ ContextsDoNotOverlap' /\ RefusalStops'
         /\ Resting' /\ Calling' /\ Reserving' /\ Scheduling' /\ AtRest' /\ Waiting'
<1>1. Unfinished(c) /\ d \in Outstanding(c)
  BY DEF Unfinished, Outstanding, Started
<1>2. c = context /\ context > 0 /\ context \in Int
  BY <1>1 DEF Order, ContextsDoNotOverlap, Contexts
<1>3. busy
  BY <1>1, <1>2 DEF Order, Resting
<1>4. p \in Phases
  BY DEF Started, Phases
<1>5. /\ phase'[c][d] = p
      /\ \A o \in Contexts : \A e \in Details : o # c \/ e # d => phase'[o][e] = phase[o][e]
      /\ phase' \in [Contexts -> [Details -> Phases]]
  BY <1>4 DEF Order, Types, WorkTypes
<1>6. \A o \in Contexts : \A e \in Details :
        /\ phase'[o][e] \in Started <=> phase[o][e] \in Started
        /\ \A q \in {"idle", "acked", "rejected"} : phase'[o][e] = q <=> phase[o][e] = q
  BY <1>5 DEF Started, Finished
<1>7. SequenceBarrier'
  BY <1>6 DEF Order, SequenceBarrier
<1>8. ContextsDoNotOverlap'
  <2>1. ASSUME NEW o \in Contexts PROVE Unfinished(o)' <=> Unfinished(o)
    BY <1>6 DEF Unfinished, Started
  <2>2. QED
    BY <2>1 DEF Order, ContextsDoNotOverlap
<1>9. Outstanding(context)' = Outstanding(context)
  BY <1>2, <1>6 DEF Outstanding
<1>10. RefusalStops'
  BY <1>2, <1>6 DEF Order, RefusalStops
<1>11. Resting' /\ Calling'
  BY <1>2, <1>3, <1>9 DEF Order, Resting, Calling
<1>12. Reserving'
  <2>1. next.at # "reserve"
    BY <1>1, <1>2 DEF Order, Calling
  <2>2. QED
    BY <2>1 DEF Reserving
<1>13. Scheduling' /\ AtRest'
  <2>1. next.at = "schedule" => next.tasks \subseteq Details
    BY DEF Order, Types, WorkTypes
  <2>2. QED
    BY <1>2, <1>6, <2>1 DEF Order, Scheduling, AtRest
<1>14. Waiting'
  <2>1. ToCome' = ToCome
    BY DEF ToCome
  <2>2. \A e \in Details : phase'[context][e] \in Over <=> phase[context][e] \in Over
    BY <1>2, <1>6 DEF Over
  <2>3. QED
    BY <1>2, <1>3, <1>6, <1>9, <2>1, <2>2 DEF Order, Waiting
<1>15. QED
  BY <1>2, <1>3, <1>5, <1>7, <1>8, <1>10, <1>11, <1>12, <1>13, <1>14

LEMMA JobStartsKeeps ==
  ASSUME Order, NEW c \in Contexts, NEW d \in Details, JobFires(c, d) \/ JobMisfires(c, d)
  PROVE  Order'
<1>1. /\ phase[c][d] = "scheduled"
      /\ \E p \in {"running", "missed"} : phase' = [phase EXCEPT ![c][d] = p]
      /\ busy' \in BOOLEAN /\ (busy => busy')
      /\ UNCHANGED <<context, stop, excluded, open, awaited, next, slots, queue, reply>>
      /\ UNCHANGED <<logged, stoppers, serverGroup, edited, snapshot, registered, halted, valid,
                     listener, trigger>>
  BY DEF Order, Types, WorkTypes, JobFires, JobMisfires, SetPhase, contextVars, serverVars,
     syncVars
<1>2. PICK p \in {"running", "missed"} : phase' = [phase EXCEPT ![c][d] = p]
  BY <1>1
<1>3. p \in Started /\ phase[c][d] \in Started
  BY <1>1 DEF Started
<1>4. /\ c = context
      /\ phase'[c][d] = p
      /\ \A o \in Contexts : \A e \in Details : o # c \/ e # d => phase'[o][e] = phase[o][e]
      /\ phase' \in [Contexts -> [Details -> Phases]]
  BY <1>1, <1>2, <1>3, StartedKept
<1>5. /\ SequenceBarrier' /\ ContextsDoNotOverlap' /\ RefusalStops'
      /\ Resting' /\ Calling' /\ Reserving' /\ Scheduling' /\ AtRest' /\ Waiting'
  BY <1>1, <1>2, <1>3, StartedKept
<1>6. Types'
  <2>1. WorkTypes'
    BY <1>1, <1>4 DEF Order, Types, WorkTypes
  <2>2. faults' \in 0 .. MaxFaults
    BY FaultCounted DEF Order, Types, OtherTypes, JobFires, JobMisfires
  <2>3. OtherTypes'
    BY <1>1, <2>2 DEF Order, Types, OtherTypes
  <2>4. QED
    BY <2>1, <2>3 DEF Types
<1>7. Future'
  BY <1>1, <1>4 DEF Order, Types, WorkTypes, Future, Contexts
<1>8. QueuesHoldFinished'
  <2>1. ASSUME NEW o \in Contexts, NEW i \in 1 .. Len(queue[o])
        PROVE  phase'[o][queue[o][i]] \in Finished
    <3>1. queue[o][i] \in Details /\ phase[o][queue[o][i]] \in Finished
      BY <2>1 DEF Order, Types, WorkTypes, QueuesHoldFinished
    <3>2. QED
      BY <1>1, <1>4, <3>1 DEF Finished
  <2>2. QED
    BY <1>1, <2>1 DEF Order, QueuesHoldFinished
<1>9. ExcludedHasRun'
  BY <1>1, <1>4 DEF Order, Types, WorkTypes, ExcludedHasRun, Finished, Over
<1>10. QED
  BY <1>5, <1>6, <1>7, <1>8, <1>9 DEF Order

LEMMA FinishTaskKeeps ==
  ASSUME Order, NEW c \in Contexts, NEW d \in Details, FinishTask(c, d)
  PROVE  Order'
<1>1. /\ phase[c][d] = "running"
      /\ \E p \in Finished : phase' = [phase EXCEPT ![c][d] = p]
      /\ slots' = slots - 1
      /\ queue' = [queue EXCEPT ![c] = Append(@, d)]
      /\ UNCHANGED <<context, busy, stop, excluded, open, awaited, next, reply>>
      /\ UNCHANGED <<logged, stoppers, serverGroup, edited, snapshot, registered, halted, valid,
                     listener, trigger, faults>>
  BY DEF FinishTask, SetPhase, contextVars, serverVars, syncVars
<1>2. PICK p \in Finished : phase' = [phase EXCEPT ![c][d] = p]
  BY <1>1
<1>3. p \in Started /\ phase[c][d] \in Started /\ busy' \in BOOLEAN
  BY <1>1 DEF Started, Order, Types, WorkTypes
<1>4. /\ c = context
      /\ phase'[c][d] = p
      /\ \A o \in Contexts : \A e \in Details : o # c \/ e # d => phase'[o][e] = phase[o][e]
      /\ phase' \in [Contexts -> [Details -> Phases]]
  BY <1>1, <1>2, <1>3, StartedKept
<1>5. /\ SequenceBarrier' /\ ContextsDoNotOverlap' /\ RefusalStops'
      /\ Resting' /\ Calling' /\ Reserving' /\ Scheduling' /\ AtRest' /\ Waiting'
  BY <1>1, <1>2, <1>3, StartedKept
<1>6. queue \in [Contexts -> Seq(Details)] /\ queue[c] \in Seq(Details)
  BY DEF Order, Types, WorkTypes
<1>7. /\ queue'[c] = Append(queue[c], d) /\ queue' \in [Contexts -> Seq(Details)]
      /\ \A o \in Contexts : o # c => queue'[o] = queue[o]
  BY <1>1, <1>6
<1>8. Types'
  <2>1. WorkTypes'
    BY <1>1, <1>4, <1>7 DEF Order, Types, WorkTypes
  <2>2. OtherTypes'
    BY <1>1 DEF Order, Types, OtherTypes
  <2>3. QED
    BY <2>1, <2>2 DEF Types
<1>9. Future'
  BY <1>1, <1>4, <1>7 DEF Order, Types, WorkTypes, Future, Contexts
<1>10. QueuesHoldFinished'
  <2> DEFINE n == Len(queue[c])
  <2>1. n \in Nat /\ Len(queue'[c]) = n + 1 /\ queue'[c][n + 1] = d
        /\ \A i \in 1 .. n : queue'[c][i] = queue[c][i] /\ queue[c][i] \in Details
    BY <1>6, <1>7
  <2>2. \A i \in 1 .. n : queue[c][i] # d /\ phase[c][queue[c][i]] \in Finished
    BY <1>1 DEF Order, QueuesHoldFinished, Finished
  <2> HIDE DEF n
  <2>3. \A i \in 1 .. Len(queue'[c]) : phase'[c][queue'[c][i]] \in Finished
    <3> SUFFICES ASSUME NEW i \in 1 .. n + 1 PROVE phase'[c][queue'[c][i]] \in Finished
      BY <2>1
    <3>1. CASE i = n + 1
      BY <1>4, <2>1, <3>1
    <3>2. CASE i # n + 1
      <4>1. i \in 1 .. n
        BY <2>1, <3>2
      <4>2. queue'[c][i] = queue[c][i] /\ queue[c][i] \in Details
        BY <2>1, <4>1
      <4>3. queue[c][i] # d /\ phase[c][queue[c][i]] \in Finished
        BY <2>2, <4>1
      <4>4. QED
        BY <1>4, <4>2, <4>3
    <3>3. QED
      BY <3>1, <3>2
  <2>4. \A i, j \in 1 .. Len(queue'[c]) : i # j => queue'[c][i] # queue'[c][j]
    <3> SUFFICES ASSUME NEW i \in 1 .. n + 1, NEW j \in 1 .. n + 1, i # j
                 PROVE  queue'[c][i] # queue'[c][j]
      BY <2>1
    <3>1. \A k, l \in 1 .. n : k # l => queue[c][k] # queue[c][l]
      BY DEF Order, QueuesHoldFinished, n
    <3>2. (i = n + 1 \/ i \in 1 .. n) /\ (j = n + 1 \/ j \in 1 .. n)
      BY <2>1
    <3>3. QED
      BY <2>1, <2>2, <3>1, <3>2
  <2>5. queue'[c] # <<>>
    BY <1>6, <1>7
  <2>6. \A o \in Contexts : o # c => \A i \in 1 .. Len(queue[o]) : queue[o][i] \in Details
    BY <1>6
  <2>7. QED
    BY <1>1, <1>4, <1>7, <2>3, <2>4, <2>5, <2>6 DEF Order, QueuesHoldFinished
<1>11. ExcludedHasRun'
  BY <1>1, <1>2, <1>4 DEF Order, Types, WorkTypes, ExcludedHasRun, Finished, Over
<1>12. QED
  BY <1>5, <1>8, <1>9, <1>10, <1>11 DEF Order

-----------------------------------------------------------------------------
(* The barrier *)

\* While an answer is finished its sequence is under way, or its scheduling has
\* failed and there is no entry at all.
LEMMA SequenceAtFinish ==
  ASSUME Order, NEW c \in Contexts, reply[c].at = "finish",
         NEW d, d = Head(queue[c])
  PROVE  /\ d \in Details /\ SequenceOf[d] \in Nat /\ phase[c][d] \in Finished
         /\ c = context /\ context > 0 /\ busy /\ queue[c] # <<>>
         /\ next.at \in {"none", "schedule"} /\ (next.at = "none" => next = NoCall)
         /\ d \notin ToCome
         /\ \/ awaited = {} /\ open = {} /\ next = NoCall
            \/ /\ d \in awaited /\ open = {SequenceOf[d]}
               /\ awaited \cap InSequence(SequenceOf[d]) = awaited
         /\ awaited = {d} => next = NoCall
         /\ SequenceOver(d) <=> awaited = {d}
<1>1. queue[c] # <<>>
  BY DEF Order, QueuesHoldFinished
<1>2. d \in Details /\ phase[c][d] \in Finished /\ c = context /\ context > 0
  BY <1>1, HeadFinished
<1>3. d \in Outstanding(context)
  BY <1>2 DEF Outstanding, Started
<1>4. busy /\ next.at \notin {"reserve", "giveup"}
  BY <1>2, <1>3 DEF Order, Resting, Calling
<1>5. next.at \in {"none", "schedule"} /\ (next.at = "none" => next = NoCall)
  BY <1>4 DEF Order, Types, WorkTypes, AtRest
<1>6. d \notin ToCome
  BY <1>2 DEF Order, Scheduling, ToCome, Finished
<1>7. awaited = {} => open = {} /\ next = NoCall
  BY <1>5 DEF Order, Waiting, Scheduling
<1>8. awaited # {} => /\ d \in awaited /\ open = {SequenceOf[d]}
                      /\ awaited \cap InSequence(SequenceOf[d]) = awaited
  BY <1>3 DEF Order, Waiting
<1>9. awaited = {d} => next = NoCall
  BY <1>5, <1>6 DEF Order, Scheduling, ToCome
<1>10. SequenceOver(d) <=> awaited = {d}
  BY <1>7, <1>8 DEF SequenceOver
<1>11. QED
  BY <1>1, <1>2, <1>4, <1>5, <1>6, <1>7, <1>8, <1>9, <1>10

LEMMA FinishDetailKeeps ==
  ASSUME Order, NEW c \in Contexts, FinishDetail(c)
  PROVE  Order'
<1> DEFINE d == Head(queue[c])
           p == IF reply[c].what = "refused" THEN "rejected" ELSE "acked"
<1>1. /\ reply[c].at = "finish"
      /\ reply' = [reply EXCEPT ![c] =
                     IF Continues(c, d) THEN [NoReply EXCEPT !.at = "call"] ELSE NoReply]
      /\ queue' = [queue EXCEPT ![c] = Tail(@)]
      /\ phase' = [phase EXCEPT ![c][d] = p]
      /\ open' = (IF SequenceOver(d) THEN open \ {SequenceOf[d]} ELSE open)
      /\ awaited' = (IF SequenceOf[d] \in open THEN awaited \ {d} ELSE awaited)
      /\ busy' = (busy /\ ~ContextOver(c, d))
      /\ UNCHANGED <<context, stop, excluded, slots>>
      /\ UNCHANGED <<logged, stoppers, serverGroup, edited, snapshot, registered, halted, valid,
                     listener, trigger, faults>>
      /\ IF Continues(c, d) THEN Call(First(After(SequenceOf[d]))) ELSE UNCHANGED next
  BY DEF FinishDetail, SetPhase, serverVars, syncVars
<1> HIDE DEF d
<1>2. /\ d \in Details /\ SequenceOf[d] \in Nat /\ phase[c][d] \in Finished
      /\ c = context /\ context > 0 /\ busy /\ queue[c] # <<>>
      /\ next.at \in {"none", "schedule"} /\ (next.at = "none" => next = NoCall)
      /\ d \notin ToCome
      /\ \/ awaited = {} /\ open = {} /\ next = NoCall
         \/ /\ d \in awaited /\ open = {SequenceOf[d]}
            /\ awaited \cap InSequence(SequenceOf[d]) = awaited
      /\ awaited = {d} => next = NoCall
      /\ SequenceOver(d) <=> awaited = {d}
  BY <1>1, SequenceAtFinish DEF d
<1>3. p \in Over /\ p \in Phases
  BY DEF Over, Phases
<1>4. /\ phase'[c][d] = p
      /\ \A o \in Contexts : \A e \in Details : o # c \/ e # d => phase'[o][e] = phase[o][e]
      /\ phase' \in [Contexts -> [Details -> Phases]]
  BY <1>1, <1>2, <1>3 DEF Order, Types, WorkTypes
<1>5. /\ queue[c] \in Seq(Details) /\ queue'[c] = Tail(queue[c])
      /\ queue' \in [Contexts -> Seq(Details)]
      /\ \A o \in Contexts : o # c => queue'[o] = queue[o]
  BY <1>1, <1>2 DEF Order, Types, WorkTypes
<1>6. /\ reply'[c].at \in {"none", "call"}
      /\ reply' \in [Contexts -> [at : {"none", "sent", "finish", "call"}, what : Answers]]
      /\ \A o \in Contexts : o # c => reply'[o] = reply[o]
  <2>1. NoReply \in [at : {"none", "sent", "finish", "call"}, what : Answers]
        /\ [NoReply EXCEPT !.at = "call"] \in [at : {"none", "sent", "finish", "call"}, what : Answers]
        /\ NoReply.at = "none" /\ [NoReply EXCEPT !.at = "call"].at = "call"
    BY DEF NoReply, Answers
  <2>2. QED
    BY <1>1, <2>1 DEF Order, Types, WorkTypes
<1>7. SequenceBarrier'
  <2> SUFFICES ASSUME NEW o \in Contexts, NEW f \in Details, NEW e \in Details,
                      SequenceOf[e] < SequenceOf[f], phase'[o][f] # "idle"
               PROVE  phase'[o][e] = "acked"
    BY DEF SequenceBarrier
  <2>1. phase[o][f] # "idle"
    BY <1>2, <1>4 DEF Finished
  <2>2. phase[o][e] = "acked"
    BY <2>1 DEF Order, SequenceBarrier
  <2>3. QED
    BY <1>2, <1>4, <2>2 DEF Finished
<1>8. ContextsDoNotOverlap'
  <2>1. ASSUME NEW o \in Contexts, Unfinished(o)' PROVE Unfinished(o)
    BY <1>3, <1>4, <2>1 DEF Unfinished, Over, Finished
  <2>2. QED
    BY <1>1, <2>1 DEF Order, ContextsDoNotOverlap
<1>9. Future'
  <2>1. ASSUME NEW o \in Contexts, o > context'
        PROVE  o # c /\ o > context
    BY <1>1, <1>2, <2>1 DEF Contexts
  <2>2. QED
    BY <1>1, <1>4, <1>5, <1>6, <2>1 DEF Order, Future
<1>10. QueuesHoldFinished'
  <2> DEFINE n == Len(queue[c])
  <2>1. /\ n \in Nat /\ n >= 1 /\ Len(queue'[c]) = n - 1 /\ d = queue[c][1]
        /\ \A i \in 1 .. n - 1 : queue'[c][i] = queue[c][i + 1]
        /\ \A i \in 1 .. n : queue[c][i] \in Details
    BY <1>2, <1>5 DEF d
  <2>2. /\ \A i \in 1 .. n : phase[c][queue[c][i]] \in Finished
        /\ \A i, j \in 1 .. n : i # j => queue[c][i] # queue[c][j]
    BY DEF Order, QueuesHoldFinished
  <2> HIDE DEF n
  <2>3. ASSUME NEW i \in 1 .. n - 1
        PROVE  phase'[c][queue'[c][i]] \in Finished
    <3>1. i + 1 \in 1 .. n /\ 1 \in 1 .. n /\ i + 1 # 1
      BY <2>1
    <3>2. queue'[c][i] = queue[c][i + 1] /\ queue[c][i + 1] \in Details /\ queue[c][i + 1] # d
      BY <2>1, <2>2, <3>1
    <3>3. phase[c][queue[c][i + 1]] \in Finished
      BY <2>2, <3>1
    <3>4. QED
      BY <1>4, <3>2, <3>3
  <2>4. ASSUME NEW i \in 1 .. n - 1, NEW j \in 1 .. n - 1, i # j
        PROVE  queue'[c][i] # queue'[c][j]
    <3>1. i + 1 \in 1 .. n /\ j + 1 \in 1 .. n /\ i + 1 # j + 1
      BY <2>1, <2>4
    <3>2. QED
      BY <2>1, <2>2, <3>1
  <2>5. ASSUME NEW o \in Contexts, o # c
        PROVE  /\ \A i \in 1 .. Len(queue'[o]) : phase'[o][queue'[o][i]] \in Finished
               /\ \A i, j \in 1 .. Len(queue'[o]) : i # j => queue'[o][i] # queue'[o][j]
               /\ reply'[o].at \in {"sent", "finish"} => queue'[o] # <<>>
    <3>1. \A i \in 1 .. Len(queue[o]) : queue[o][i] \in Details
      BY DEF Order, Types, WorkTypes
    <3>2. queue'[o] = queue[o] /\ reply'[o] = reply[o]
          /\ \A e \in Details : phase'[o][e] = phase[o][e]
      BY <1>4, <1>5, <1>6, <2>5
    <3>3. /\ \A i \in 1 .. Len(queue[o]) : phase[o][queue[o][i]] \in Finished
          /\ \A i, j \in 1 .. Len(queue[o]) : i # j => queue[o][i] # queue[o][j]
          /\ reply[o].at \in {"sent", "finish"} => queue[o] # <<>>
      BY DEF Order, QueuesHoldFinished
    <3>4. \A i \in 1 .. Len(queue[o]) : phase'[o][queue[o][i]] \in Finished
      BY <3>1, <3>2, <3>3
    <3>5. QED
      BY <3>2, <3>3, <3>4
  <2>6. /\ \A i \in 1 .. Len(queue'[c]) : phase'[c][queue'[c][i]] \in Finished
        /\ \A i, j \in 1 .. Len(queue'[c]) : i # j => queue'[c][i] # queue'[c][j]
        /\ reply'[c].at \notin {"sent", "finish"}
    BY <1>6, <2>1, <2>3, <2>4
  <2>7. QED
    BY <2>5, <2>6 DEF QueuesHoldFinished
<1>11. RefusalStops'
  <2>1. p = "rejected" => stop
    BY <1>1 DEF Order, RefusalStops, StopsContext
  <2>2. QED
    BY <1>1, <1>2, <1>4, <1>6, <2>1 DEF Order, RefusalStops
<1>12. ExcludedHasRun'
  BY <1>1, <1>2, <1>3, <1>4 DEF Order, Types, WorkTypes, ExcludedHasRun
<1>13. Outstanding(context)' = Outstanding(context) \ {d}
  BY <1>1, <1>2, <1>3, <1>4 DEF Outstanding, Started, Over, Finished
<1>14. ASSUME next' \in [at : {"none", "reserve", "schedule", "giveup"}, tasks : SUBSET Details,
                         held : 0 .. Cardinality(Details)]
       PROVE  Types'
  <2>1. open' \subseteq open /\ awaited' \subseteq awaited /\ busy' \in BOOLEAN
    BY <1>1
  <2>2. WorkTypes'
    BY <1>1, <1>4, <1>5, <1>6, <1>14, <2>1 DEF Order, Types, WorkTypes
  <2>3. OtherTypes'
    BY <1>1 DEF Order, Types, OtherTypes
  <2>4. QED
    BY <2>2, <2>3 DEF Types
<1>15. next \in [at : {"none", "reserve", "schedule", "giveup"}, tasks : SUBSET Details,
                 held : 0 .. Cardinality(Details)]
  BY DEF Order, Types, WorkTypes
<1> DEFINE Rest == /\ Types' /\ Resting' /\ Calling' /\ Reserving' /\ Scheduling' /\ AtRest'
                   /\ Waiting'
\* The sequence goes on, or its scheduling had failed.
<1>16. ASSUME awaited # {d} PROVE Rest
  <2>1. ~SequenceOver(d) /\ ~Continues(c, d) /\ ~ContextOver(c, d)
    BY <1>2, <1>16 DEF Continues, ContextOver
  <2>2. /\ open' = open /\ awaited' = awaited \ {d} /\ next' = next /\ busy'
    BY <1>1, <1>2, <2>1
  <2>3. Types'
    BY <1>14, <1>15, <2>2
  <2>4. Resting' /\ Calling' /\ Reserving' /\ AtRest'
    BY <1>2, <2>2 DEF Order, Resting, Calling, Reserving, AtRest
  <2>5. Scheduling'
    BY <1>1, <1>2, <1>4, <1>15, <2>2 DEF Order, Scheduling, ToCome
  <2>6. Waiting'
    <3>1. CASE awaited = {}
      BY <1>2, <2>2, <3>1 DEF Waiting
    <3>2. CASE awaited # {}
      <4>1. d \in awaited /\ awaited' # {}
        BY <1>2, <1>16, <2>2, <3>2
      <4>2. ToCome' = ToCome
        BY <2>2 DEF ToCome
      <4>3. awaited' = (Outstanding(context) \cup ToCome)'
        BY <1>2, <1>13, <2>2, <3>2, <4>2 DEF Order, Waiting
      <4>4. ASSUME NEW f \in awaited', NEW e \in Details
            PROVE  /\ SequenceOf[e] < SequenceOf[f] => phase'[context][e] = "acked"
                   /\ SequenceOf[e] > SequenceOf[f] => phase'[context][e] = "idle"
                   /\ SequenceOf[e] = SequenceOf[f] => e \in awaited' \/ phase'[context][e] \in Over
        <5>1. f \in awaited /\ SequenceOf[f] = SequenceOf[d]
          BY <1>2, <2>2, <4>1, <4>4 DEF Order, Waiting, InSequence
        <5>2. CASE e = d
          BY <1>2, <1>3, <1>4, <5>1, <5>2
        <5>3. CASE e # d
          BY <1>2, <1>4, <2>2, <5>1, <5>3 DEF Order, Waiting
        <5>4. QED
          BY <5>2, <5>3
      <4>5. QED
        BY <1>1, <1>2, <2>2, <4>1, <4>3, <4>4 DEF Order, Waiting
    <3>3. QED
      BY <3>1, <3>2
  <2>7. QED
    BY <2>3, <2>4, <2>5, <2>6
\* The sequence is over, and the context with it or not.
<1>17. ASSUME awaited = {d} PROVE Rest
  <2>1. SequenceOver(d) /\ open = {SequenceOf[d]} /\ next = NoCall
    BY <1>2, <1>17
  <2>2. open' = {} /\ awaited' = {}
    BY <1>1, <1>17, <2>1
  <2>3. Outstanding(context)' = {}
    <3>1. Outstanding(context) \subseteq awaited
      BY <1>17 DEF Order, Waiting
    <3>2. QED
      BY <1>13, <1>17, <3>1
  <2>4. CASE Continues(c, d)
    <3> DEFINE s == SequenceOf[d]
               t == First(After(s))
    <3>1. /\ t \in Nat /\ t > s /\ InSequence(t) # {}
          /\ \A e \in Details : SequenceOf[e] > s => SequenceOf[e] >= t
      BY <1>2, <2>4, FirstAfter DEF Continues
    <3>2. busy' /\ Call(t)
      BY <1>1, <1>2, <2>4 DEF ContextOver
    <3> HIDE DEF t
    <3>3. /\ ~stop /\ p = "acked"
      BY <2>4 DEF Continues
    <3>4. \A e \in Details : phase'[context][e] = IF SequenceOf[e] < t THEN "acked" ELSE "idle"
      <4> SUFFICES ASSUME NEW e \in Details
                   PROVE  phase'[context][e] = IF SequenceOf[e] < t THEN "acked" ELSE "idle"
        OBVIOUS
      <4>1. /\ SequenceOf[e] < s => phase[context][e] = "acked"
            /\ SequenceOf[e] > s => phase[context][e] = "idle"
            /\ SequenceOf[e] = s => e = d \/ phase[context][e] \in Over
        BY <1>17 DEF Order, Waiting
      <4>2. phase[context][e] # "rejected"
        BY <1>2, <3>3 DEF Order, RefusalStops
      <4>3. SequenceOf[e] \in Nat
        OBVIOUS
      <4>4. CASE e = d
        BY <1>2, <1>4, <3>1, <3>3, <4>4
      <4>5. CASE e # d
        <5>1. phase'[context][e] = phase[context][e]
          BY <1>2, <1>4, <4>5
        <5>2. CASE SequenceOf[e] <= s
          BY <1>2, <3>1, <4>1, <4>2, <4>3, <4>5, <5>1, <5>2 DEF Over
        <5>3. CASE SequenceOf[e] > s
          <6>1. SequenceOf[e] >= t
            BY <3>1, <5>3
          <6>2. QED
            BY <1>2, <3>1, <4>1, <4>3, <5>1, <5>3, <6>1
        <5>4. QED
          BY <1>2, <4>3, <5>2, <5>3
      <4>6. QED
        BY <4>4, <4>5
    <3>5. InSequence(t) \ excluded' = InSequence(t)
      <4>1. ASSUME NEW e \in InSequence(t) PROVE e \notin excluded
        <5>1. e \in Details /\ ~(SequenceOf[e] < t)
          BY <3>1, <4>1 DEF InSequence
        <5>2. phase'[context][e] = "idle" /\ e # d
          BY <1>2, <1>4, <3>1, <3>3, <3>4, <5>1
        <5>3. phase[context][e] = "idle"
          BY <1>2, <1>4, <5>1, <5>2
        <5>4. QED
          BY <5>3 DEF Order, ExcludedHasRun, Finished, Over
      <4>2. QED
        BY <1>1, <4>1
    <3>6. next' = [at |-> "reserve", tasks |-> InSequence(t), held |-> 0]
      BY <3>1, <3>2, <3>5 DEF Call
    <3>7. InSequence(t) \subseteq Details /\ \A e \in InSequence(t) : SequenceOf[e] = t
      BY DEF InSequence
    <3>8. Cardinality(InSequence(t)) \in Nat /\ Cardinality(Details) \in Nat
      BY <3>7, FS_Subset, FS_CardinalityType
    <3>9. Types'
      BY <1>14, <3>6, <3>7, <3>8
    <3>10. Resting' /\ Scheduling' /\ AtRest' /\ Waiting'
      BY <2>2, <3>2, <3>6 DEF Resting, Scheduling, AtRest, Waiting
    <3>11. Calling'
      BY <1>1, <1>2, <2>2, <2>3, <3>2 DEF Calling
    <3>12. Reserving'
      BY <1>1, <3>1, <3>4, <3>6, <3>7, <3>8 DEF Reserving
    <3>13. QED
      BY <3>9, <3>10, <3>11, <3>12
  <2>5. CASE ~Continues(c, d)
    <3>1. ContextOver(c, d)
      BY <2>1, <2>5 DEF ContextOver
    <3>2. ~busy' /\ next' = NoCall
      BY <1>1, <2>1, <2>5, <3>1
    <3>3. Types'
      BY <1>14, <1>15, <2>1, <3>2
    <3>4. Resting' /\ Calling' /\ Reserving' /\ Scheduling' /\ AtRest' /\ Waiting'
      BY <1>1, <2>2, <2>3, <3>2
         DEF Resting, Calling, Reserving, Scheduling, AtRest, Waiting, NoCall
    <3>5. QED
      BY <3>3, <3>4
  <2>6. QED
    BY <2>4, <2>5
<1>18. Rest
  BY <1>16, <1>17
<1>19. QED
  BY <1>7, <1>8, <1>9, <1>10, <1>11, <1>12, <1>18 DEF Order

-----------------------------------------------------------------------------
(* The theorems *)

LEMMA InitOrder == Init => Order
<1> SUFFICES ASSUME Init PROVE Order
  OBVIOUS
<1> USE DEF Init
<1>1. 0 \in 0 .. Cardinality(Details) /\ NoReply \in [at : {"none", "sent", "finish", "call"}, what : Answers]
  BY FS_CardinalityType DEF NoReply, Answers
<1>2. WorkTypes
  <2>1. next \in [at : {"none", "reserve", "schedule", "giveup"}, tasks : SUBSET Details,
                  held : 0 .. Cardinality(Details)]
    BY <1>1 DEF NoCall
  <2>2. phase \in [Contexts -> [Details -> Phases]]
    BY DEF Phases
  <2>3. /\ queue \in [Contexts -> Seq(Details)]
        /\ reply \in [Contexts -> [at : {"none", "sent", "finish", "call"}, what : Answers]]
    BY <1>1
  <2>4. /\ context \in 0 .. MaxContexts /\ busy \in BOOLEAN /\ stop \in BOOLEAN
        /\ excluded \subseteq Details /\ awaited \subseteq Details
        /\ open \subseteq {SequenceOf[d] : d \in Details} /\ slots \in Int
    <3>1. context = 0 /\ slots = 0 /\ busy = FALSE /\ stop = FALSE
          /\ excluded = {} /\ awaited = {} /\ open = {}
      OBVIOUS
    <3> HIDE DEF Init
    <3>2. context \in 0 .. MaxContexts /\ slots \in Int
      BY <3>1
    <3>3. excluded \subseteq Details /\ awaited \subseteq Details
          /\ open \subseteq {SequenceOf[d] : d \in Details}
      BY <3>1
    <3>4. busy \in BOOLEAN /\ stop \in BOOLEAN
      BY <3>1
    <3>5. QED
      BY <3>2, <3>3, <3>4
  <2> HIDE DEF Init
  <2>5. QED
    BY <2>1, <2>2, <2>3, <2>4 DEF WorkTypes
<1>3. Types
  <2>1. /\ logged \subseteq Contexts \X Details /\ stoppers \subseteq logged
        /\ faults \in 0 .. MaxFaults
    OBVIOUS
  <2>2. /\ serverGroup \in {"active", "error"} /\ edited \in BOOLEAN
        /\ snapshot \in {"none", "without", "with"}
        /\ registered \in BOOLEAN /\ trigger \in BOOLEAN
        /\ halted \in BOOLEAN /\ valid \in BOOLEAN
        /\ listener \in {"idle", "remove", "mark"}
    OBVIOUS
  <2> HIDE DEF Init
  <2>3. QED
    BY <1>2, <2>1, <2>2 DEF Types, OtherTypes
<1>4. \A c \in Contexts : c > 0 /\ \A d \in Details : phase[c][d] = "idle"
  BY DEF Contexts
<1>5. SequenceBarrier /\ ContextsDoNotOverlap /\ Future /\ QueuesHoldFinished
  BY <1>4 DEF SequenceBarrier, ContextsDoNotOverlap, Unfinished, Finished, Future,
     QueuesHoldFinished, NoReply
<1>6. RefusalStops /\ ExcludedHasRun /\ Resting /\ Calling /\ Reserving /\ Scheduling /\ AtRest
      /\ Waiting
  BY DEF RefusalStops, ExcludedHasRun, Resting, Calling, Reserving, Scheduling, AtRest, Waiting,
     NoReply, NoCall
<1>7. QED
  BY <1>3, <1>5, <1>6 DEF Order

LEMMA NextKeepsOrder == Order /\ [Next]_vars => Order'
<1> SUFFICES ASSUME Order, [Next]_vars PROVE Order'
  OBVIOUS
<1>1. CASE TriggerFires \/ StartGroup \/ Outside
  BY <1>1, OutsideKeeps, StartGroupKeeps
<1>2. CASE NextSequence
  BY <1>2, ReserveSlotKeeps, SlotRefusedKeeps, GiveUpKeeps, OpenSequenceKeeps,
     ScheduleDetailKeeps, ScheduleFailsKeeps DEF NextSequence
<1>3. ASSUME NEW c \in Contexts, Task(c) PROVE Order'
  BY <1>3, JobStartsKeeps, FinishTaskKeeps DEF Task
<1>4. ASSUME NEW c \in Contexts, Delivery(c) PROVE Order'
  BY <1>4, StoreResultKeeps, RefuseResultKeeps, LoseReplyKeeps, HandleAnswerKeeps,
     FinishDetailKeeps DEF Delivery
<1>5. CASE UNCHANGED vars
  <2>1. UNCHANGED coreVars /\ UNCHANGED <<stop, excluded, reply>>
    BY <1>5 DEF vars, coreVars, contextVars, workVars
  <2>2. Types'
    <3>1. WorkTypes'
      BY <1>5, <2>1 DEF Order, Types, WorkTypes, vars, coreVars, workVars
    <3>2. OtherTypes'
      BY <1>5 DEF Order, Types, OtherTypes, vars, serverVars, syncVars
    <3>3. QED
      BY <3>1, <3>2 DEF Types
  <2>3. QED
    BY <2>1, <2>2, CoreKept DEF Order, QueuesHoldFinished, RefusalStops
<1>6. QED
  BY <1>1, <1>2, <1>3, <1>4, <1>5 DEF Next

(***************************************************************************)
(* In every reachable state one sequence at most is under way, all before  *)
(* it are acknowledged and all after it untouched (app.py, the entries of  *)
(* task_completion_status and the marks of group_execution_status).        *)
(***************************************************************************)
THEOREM GroupOrder == Spec => []Order
<1>1. Init => Order
  BY InitOrder
<1>2. Order /\ [Next]_vars => Order'
  BY NextKeepsOrder
<1>3. QED
  BY <1>1, <1>2, PTL DEF Spec

(***************************************************************************)
(* The sequence ACK barrier holds for every group, whatever faults happen  *)
(* (_finish_detail and execute_next_task).                                 *)
(***************************************************************************)
THEOREM GroupSequenceBarrier == Spec => []SequenceBarrier
<1>1. Order => SequenceBarrier
  BY DEF Order
<1>2. QED
  BY <1>1, GroupOrder, PTL

(***************************************************************************)
(* The contexts of a group never overlap, whatever faults happen: the mark *)
(* running_tasks suffices (start_group_execution).                         *)
(***************************************************************************)
THEOREM GroupContextsDoNotOverlap == Spec => []ContextsDoNotOverlap
<1>1. Order => ContextsDoNotOverlap
  BY DEF Order
<1>2. QED
  BY <1>1, GroupOrder, PTL

\* Of two neighbouring states: no phase goes back.
PhasesAdvance ==
  \A c \in Contexts, d \in Details :
    /\ phase[c][d] \notin {"idle", "scheduled"} => phase'[c][d] \notin {"idle", "scheduled"}
    /\ phase[c][d] \in {"acked", "rejected"} => phase'[c][d] = phase[c][d]

\* One detail moves on from a phase that may be left.
LEMMA OneAdvances ==
  ASSUME Order, NEW c \in Contexts, NEW d \in Details, NEW p, SetPhase(c, d, p),
         \/ phase[c][d] \in {"idle", "scheduled"}
         \/ phase[c][d] \notin Over /\ p \notin {"idle", "scheduled"}
  PROVE  PhasesAdvance
<1>1. /\ phase \in [Contexts -> [Details -> Phases]]
      /\ phase' = [phase EXCEPT ![c][d] = p]
  BY DEF Order, Types, WorkTypes, SetPhase
<1>2. \A o \in Contexts, e \in Details :
        phase'[o][e] = IF o = c /\ e = d THEN p ELSE phase[o][e]
  BY <1>1
<1>. QED
  BY <1>2 DEF PhasesAdvance, Over

\* Every step moves phases on, or leaves them alone.
LEMMA StepsAdvance ==
  ASSUME Order, [Next]_vars
  PROVE  PhasesAdvance
<1>1. ASSUME UNCHANGED phase PROVE PhasesAdvance
  BY <1>1 DEF PhasesAdvance
<1>2. CASE TriggerFires \/ StartGroup \/ Outside \/ UNCHANGED vars
  BY <1>1, <1>2 DEF TriggerFires, StartGroup, Outside, ReactivateGroup, EditGroup, ApplySnapshot,
     Halt, RemoveAllManaged, MarkStopped, Recover, workVars, vars
<1>3. CASE ReserveSlot \/ SlotRefused \/ GiveUp \/ OpenSequence
  BY <1>1, <1>3 DEF ReserveSlot, SlotRefused, GiveUp, OpenSequence, workVars
<1>4. ASSUME NEW d \in Details, ScheduleDetail(d) PROVE PhasesAdvance
  <2>1. next.at = "schedule" /\ d \in next.tasks /\ SetPhase(context, d, "scheduled")
    BY <1>4 DEF ScheduleDetail
  <2>2. context \in Contexts /\ phase[context][d] = "idle"
    BY <2>1, SequenceOfCall
  <2>. QED
    BY <2>1, <2>2, OneAdvances
<1>5. CASE ScheduleFails
  <2>1. phase \in [Contexts -> [Details -> Phases]]
    BY DEF Order, Types, WorkTypes
  <2>2. \E s : phase' = [phase EXCEPT ![context] = [d \in Details |->
                         IF SequenceOf[d] = s /\ @[d] = "scheduled" THEN "idle" ELSE @[d]]]
    BY <1>5 DEF ScheduleFails
  <2>3. \A c \in Contexts, d \in Details :
          phase'[c][d] = phase[c][d] \/ (phase[c][d] = "scheduled" /\ phase'[c][d] = "idle")
    BY <2>1, <2>2
  <2>. QED
    BY <2>3 DEF PhasesAdvance
<1>6. ASSUME NEW c \in Contexts, Task(c) PROVE PhasesAdvance
  <2>1. PICK d \in Details : JobFires(c, d) \/ JobMisfires(c, d) \/ FinishTask(c, d)
    BY <1>6 DEF Task
  <2>2. CASE JobFires(c, d) \/ JobMisfires(c, d)
    BY <2>2, OneAdvances DEF JobFires, JobMisfires
  <2>3. CASE FinishTask(c, d)
    <3>1. PICK code \in Finished : phase[c][d] = "running" /\ SetPhase(c, d, code)
      BY <2>3 DEF FinishTask
    <3>. QED
      BY <3>1, OneAdvances DEF Finished, Over
  <2>. QED
    BY <2>1, <2>2, <2>3
<1>7. ASSUME NEW c \in Contexts, Delivery(c) PROVE PhasesAdvance
  <2>1. CASE StoreResult(c) \/ RefuseResult(c) \/ GiveUpResult(c) \/ LoseReply(c)
           \/ HandleAnswer(c)
    BY <1>1, <2>1 DEF StoreResult, RefuseResult, GiveUpResult, LoseReply, HandleAnswer
  <2>2. CASE FinishDetail(c)
    <3>1. queue[c] # <<>>
      BY <2>2 DEF FinishDetail, Order, QueuesHoldFinished
    <3>2. Head(queue[c]) \in Details /\ phase[c][Head(queue[c])] \in Finished
      BY <3>1, HeadFinished
    <3>3. \E p \in Over : SetPhase(c, Head(queue[c]), p)
      BY <2>2 DEF FinishDetail, Over
    <3>. QED
      BY <3>2, <3>3, OneAdvances DEF Finished, Over
  <2>. QED
    BY <1>7, <2>1, <2>2 DEF Delivery
<1>. QED
  BY <1>2, <1>3, <1>4, <1>5, <1>6, <1>7 DEF Next, NextSequence

(***************************************************************************)
(* A context runs a detail once, under any faults: execute_next_task never *)
(* comes to the details of a sequence again, since those it is called for  *)
(* are untouched, and _finish_detail handles the answer of a detail that   *)
(* has ended and has none yet.                                             *)
(***************************************************************************)
THEOREM GroupRunsOnce == Spec => RunsOnce
<1>1. Order /\ [Next]_vars => [PhasesAdvance]_vars
  BY StepsAdvance
<1>2. PhasesAdvance <=>
        \A c \in Contexts, d \in Details :
          /\ phase[c][d] \notin {"idle", "scheduled"} =>
               phase'[c][d] \notin {"idle", "scheduled"}
          /\ phase[c][d] \in {"acked", "rejected"} => phase'[c][d] = phase[c][d]
  BY DEF PhasesAdvance
<1>. QED
  BY <1>1, <1>2, GroupOrder, PTL DEF Spec, RunsOnce

-----------------------------------------------------------------------------
(* The group implements the abstract GroupRuns. *)

\* The mapping at any phases, context, call and entries.
StageOf(f) == [c \in Contexts |-> [d \in Details |->
                 IF f[c][d] \in Finished THEN "finished" ELSE f[c][d]]]
AtEnd(n, o) == n.at = "giveup" \/ (n.at = "none" /\ o = {})
EndedOf(k, n, o) == {c \in 1 .. k : c < k \/ AtEnd(n, o)}

\* The mapping, spelt with these.
LEMMA MappingIs ==
  /\ Runs!runVars = <<context, EndedOf(context, next, open), StageOf(phase)>>
  /\ (Runs!runVars)' = <<context', EndedOf(context', next', open'), StageOf(phase')>>
BY DEF Runs!runVars, EndedOf, AtEnd, Ended, StageOf

\* A step that neither touches phases nor ends the context is invisible.
LEMMA Invisible ==
  ASSUME UNCHANGED <<context, phase>>, AtEnd(next', open') <=> AtEnd(next, open)
  PROVE  UNCHANGED Runs!runVars
<1>1. EndedOf(context', next', open') = EndedOf(context, next, open)
  BY DEF EndedOf
<1>. QED
  BY <1>1, MappingIs

\* The ends of a context, one by one.
LEMMA EndedSet ==
  ASSUME NEW k \in Nat, k > 0, NEW n, NEW o
  PROVE  /\ k \in EndedOf(k, n, o) <=> AtEnd(n, o)
         /\ AtEnd(n, o) => EndedOf(k, n, o) = 1 .. k
         /\ ~AtEnd(n, o) => EndedOf(k, n, o) = 1 .. (k - 1)
         /\ 1 .. (k - 1) \cup {k} = 1 .. k
BY DEF EndedOf

\* What is mapped has the same phase but for the outcome.
LEMMA StagesAre ==
  ASSUME Order, NEW c \in Contexts, NEW d \in Details
  PROVE  /\ StageOf(phase)[c][d] = IF phase[c][d] \in Finished THEN "finished" ELSE phase[c][d]
         /\ \A p \in Phases \ Finished : StageOf(phase)[c][d] = p <=> phase[c][d] = p
BY DEF StageOf, Finished, Phases

\* A change of one phase is a change of one stage.
LEMMA StageMoves ==
  ASSUME Order, NEW c \in Contexts, NEW d \in Details, NEW p, SetPhase(c, d, p)
  PROVE  StageOf(phase') =
           [StageOf(phase) EXCEPT ![c][d] = IF p \in Finished THEN "finished" ELSE p]
<1>1. /\ phase \in [Contexts -> [Details -> Phases]]
      /\ phase' = [phase EXCEPT ![c][d] = p]
  BY DEF Order, Types, WorkTypes, SetPhase
<1>2. \A o \in Contexts, e \in Details :
        phase'[o][e] = IF o = c /\ e = d THEN p ELSE phase[o][e]
  BY <1>1
<1> DEFINE q == IF p \in Finished THEN "finished" ELSE p
           S == [StageOf(phase) EXCEPT ![c][d] = q]
<1>3. \A o \in Contexts, e \in Details :
        S[o][e] = IF o = c /\ e = d THEN q ELSE StageOf(phase)[o][e]
  BY DEF StageOf
<1>4. S = [o \in Contexts |-> [e \in Details |-> S[o][e]]]
  BY DEF StageOf
<1> HIDE DEF S
<1>5. \A o \in Contexts, e \in Details : S[o][e] = StageOf(phase')[o][e]
  BY <1>2, <1>3 DEF StageOf
<1>6. StageOf(phase') = [o \in Contexts |-> [e \in Details |-> StageOf(phase')[o][e]]]
  BY DEF StageOf
<1>7. S = StageOf(phase')
  BY <1>4, <1>5, <1>6
<1>. QED
  BY <1>7 DEF S

\* A context is settled when nothing of it is outstanding.
LEMMA SettledIs ==
  ASSUME Order, NEW c \in Contexts
  PROVE  (\A d \in Details : StageOf(phase)[c][d] \in {"idle"} \cup Runs!Answered)
           <=> Outstanding(c) = {}
<1>1. \A d \in Details : phase[c][d] \in Phases
  BY DEF Order, Types, WorkTypes
<1>2. \A d \in Details :
        StageOf(phase)[c][d] = IF phase[c][d] \in Finished THEN "finished" ELSE phase[c][d]
  BY StagesAre
<1>. QED
  BY <1>1, <1>2 DEF Outstanding, Started, Runs!Answered, Finished, Phases

\* A context begins when the one before has ended and nothing of it is outstanding.
LEMMA StartIsBegin ==
  ASSUME Order, StartGroup, MayStart
  PROVE  Runs!Begin
<1> DEFINE s == First({SequenceOf[d] : d \in Details})
<1>1. s \in Nat /\ InSequence(s) # {}
  BY FirstOfAll
<1> HIDE DEF s
<1>2. /\ context' = context + 1 /\ open' = {} /\ next'.at = "reserve" /\ phase' = phase
      /\ context < MaxContexts /\ ~busy
  BY <1>1 DEF StartGroup, MayStart, Call, workVars, s
<1>3. context \in Nat /\ context + 1 \in Contexts /\ MaxContexts \in Nat
  BY <1>2 DEF Order, Types, WorkTypes, Contexts
<1>4. next.at = "none" /\ open = {} /\ (context > 0 => Outstanding(context) = {})
  BY <1>2 DEF Order, Resting, NoCall
<1>5. AtEnd(next, open) /\ ~AtEnd(next', open')
  BY <1>2, <1>4 DEF AtEnd
<1>6. EndedOf(context', next', open') = EndedOf(context, next, open)
  BY <1>2, <1>3, <1>5 DEF EndedOf
<1>7. context > 0 => /\ context \in EndedOf(context, next, open)
                     /\ \A d \in Details :
                          StageOf(phase)[context][d] \in {"idle"} \cup Runs!Answered
  <2>1. context > 0 => context \in Contexts
    BY DEF Order, Types, WorkTypes, Contexts
  <2>2. context > 0 => context \in EndedOf(context, next, open)
    BY <1>3, <1>5, EndedSet
  <2>3. context > 0 =>
          \A d \in Details : StageOf(phase)[context][d] \in {"idle"} \cup Runs!Answered
    BY <1>4, <2>1, SettledIs
  <2>. QED
    BY <2>2, <2>3
<1>8. StageOf(phase') = StageOf(phase)
  BY <1>2
<1>. QED
  BY <1>2, <1>3, <1>6, <1>7, <1>8 DEF Runs!Begin, Runs!Settled, StageOf, EndedOf, AtEnd, Ended

\* A refused slot ends a context of which nothing is outstanding.
LEMMA RefusedIsEnd ==
  ASSUME Order, SlotRefused
  PROVE  Runs!End
<1>1. /\ next.at = "reserve" /\ next'.at = "giveup"
      /\ UNCHANGED <<context, open, phase>>
  BY DEF SlotRefused, NoCall
<1>2. context > 0 /\ context \in Contexts /\ Outstanding(context) = {} /\ context \in Nat
  BY <1>1 DEF Order, Types, WorkTypes, Calling, Contexts
<1>3. ~AtEnd(next, open) /\ AtEnd(next', open')
  BY <1>1 DEF AtEnd
<1>4. EndedOf(context', next', open') = EndedOf(context, next, open) \cup {context}
  BY <1>1, <1>2, <1>3, EndedSet
<1>5. \A d \in Details : StageOf(phase)[context][d] \in {"idle"} \cup Runs!Answered
  BY <1>2, SettledIs
<1>. QED
  BY <1>1, <1>2, <1>4, <1>5 DEF Runs!End, Runs!Settled, StageOf, EndedOf, AtEnd, Ended

\* The call works on a context that has not ended, on details nobody has touched.
LEMMA ScheduleIsSchedule ==
  ASSUME Order, NEW d \in Details, ScheduleDetail(d)
  PROVE  Runs!Schedule(d)
<1>1. /\ next.at = "schedule" /\ d \in next.tasks /\ SetPhase(context, d, "scheduled")
      /\ next' = (IF next.tasks = {d} THEN NoCall ELSE [next EXCEPT !.tasks = @ \ {d}])
      /\ UNCHANGED <<context, open>>
  BY DEF ScheduleDetail, contextVars
<1>2. /\ context \in Contexts /\ context > 0 /\ phase[context][d] = "idle" /\ context \in Nat
      /\ \A e \in Details : SequenceOf[e] < SequenceOf[d] => phase[context][e] = "acked"
  BY <1>1, SequenceOfCall DEF Contexts
<1>3. open # {}
  BY <1>1 DEF Order, Scheduling, Waiting
<1>4. next'.at \in {"none", "schedule"}
  BY <1>1 DEF NoCall, Order, Types, WorkTypes
<1>5. ~AtEnd(next, open) /\ ~AtEnd(next', open')
  BY <1>1, <1>3, <1>4 DEF AtEnd
<1>6. /\ context \notin EndedOf(context, next, open)
      /\ EndedOf(context', next', open') = EndedOf(context, next, open)
  BY <1>1, <1>2, <1>5, EndedSet
<1>7. StageOf(phase') = [StageOf(phase) EXCEPT ![context][d] = "scheduled"]
  BY <1>1, <1>2, StageMoves DEF Finished
<1>8. /\ StageOf(phase)[context][d] = "idle"
      /\ \A e \in Details : SequenceOf[e] < SequenceOf[d] => StageOf(phase)[context][e] = "acked"
  BY <1>2, StagesAre DEF Finished
<1>. QED
  BY <1>1, <1>2, <1>6, <1>7, <1>8 DEF Runs!Schedule, StageOf, EndedOf, AtEnd, Ended

\* What was scheduled is all of one sequence, and its entry was the only one.
LEMMA FailureIsTakeBack ==
  ASSUME Order, ScheduleFails
  PROVE  Runs!TakeBack
<1> DEFINE f == CHOOSE d \in next.tasks : TRUE
           s == SequenceOf[f]
<1>1. f \in next.tasks /\ next.at = "schedule"
  BY DEF Order, Scheduling, ScheduleFails
<1>2. /\ next' = NoCall
      /\ phase' = [phase EXCEPT ![context] = [d \in Details |->
                     IF SequenceOf[d] = s /\ @[d] = "scheduled" THEN "idle" ELSE @[d]]]
      /\ open' = open \ {s} /\ UNCHANGED context
  BY DEF ScheduleFails
<1> HIDE DEF f
<1>3. context \in Contexts /\ context > 0 /\ context \in Nat /\ f \in Details
  BY <1>1, SequenceOfCall DEF Contexts
<1>4. f \in awaited /\ open = {s}
  BY <1>1 DEF Order, Scheduling, Waiting
<1>5. \A d \in Details : phase[context][d] = "scheduled" => SequenceOf[d] = s
  <2>1. ASSUME NEW d \in Details, phase[context][d] = "scheduled" PROVE SequenceOf[d] = s
    <3>1. /\ SequenceOf[d] < s => phase[context][d] = "acked"
          /\ SequenceOf[d] > s => phase[context][d] = "idle"
      BY <1>4 DEF Order, Waiting
    <3>2. SequenceOf[d] \in Nat /\ s \in Nat
      BY <1>3
    <3>. QED
      BY <2>1, <3>1, <3>2
  <2>. QED
    BY <2>1
<1> HIDE DEF s
<1>6. phase \in [Contexts -> [Details -> Phases]]
  BY DEF Order, Types, WorkTypes
<1>7. \A o \in Contexts, e \in Details :
        phase'[o][e] = IF o = context /\ phase[o][e] = "scheduled" THEN "idle" ELSE phase[o][e]
  BY <1>2, <1>5, <1>6
<1> DEFINE back == [d \in Details |-> IF StageOf(phase)[context][d] = "scheduled" THEN "idle"
                                      ELSE StageOf(phase)[context][d]]
<1>8. StageOf(phase') = [StageOf(phase) EXCEPT ![context] = back]
  <2> DEFINE S == [StageOf(phase) EXCEPT ![context] = back]
  <2>1. \A o \in Contexts, e \in Details :
          S[o][e] = IF o = context /\ StageOf(phase)[o][e] = "scheduled" THEN "idle"
                    ELSE StageOf(phase)[o][e]
    BY DEF StageOf
  <2>2. S = [o \in Contexts |-> [e \in Details |-> S[o][e]]]
    BY DEF StageOf
  <2> HIDE DEF S
  <2>3. \A o \in Contexts, e \in Details : S[o][e] = StageOf(phase')[o][e]
    BY <1>7, <2>1 DEF StageOf, Finished
  <2>4. StageOf(phase') = [o \in Contexts |-> [e \in Details |-> StageOf(phase')[o][e]]]
    BY DEF StageOf
  <2>5. S = StageOf(phase')
    BY <2>2, <2>3, <2>4
  <2>. QED
    BY <2>5 DEF S
<1>9. ~AtEnd(next, open) /\ AtEnd(next', open')
  BY <1>1, <1>2, <1>4 DEF AtEnd, NoCall
<1>10. /\ context \notin EndedOf(context, next, open)
       /\ EndedOf(context', next', open') = EndedOf(context, next, open) \cup {context}
  BY <1>2, <1>3, <1>9, EndedSet
<1>. QED
  BY <1>2, <1>3, <1>8, <1>10 DEF Runs!TakeBack, StageOf, EndedOf, AtEnd, Ended

\* Tasks touch neither the call nor the entries.
LEMMA TaskIsRun ==
  ASSUME Order, NEW c \in Contexts, NEW d \in Details,
         JobFires(c, d) \/ JobMisfires(c, d) \/ FinishTask(c, d)
  PROVE  Runs!Run(c, d)
<1>1. UNCHANGED <<context, next, open>>
  BY DEF JobFires, JobMisfires, FinishTask, contextVars
<1>2. EndedOf(context', next', open') = EndedOf(context, next, open)
  BY <1>1
<1>3. \/ phase[c][d] = "scheduled" /\ SetPhase(c, d, "running")
      \/ phase[c][d] = "scheduled" /\ SetPhase(c, d, "missed")
      \/ phase[c][d] = "running" /\ \E code \in Finished : SetPhase(c, d, code)
  BY DEF JobFires, JobMisfires, FinishTask
<1>4. \/ /\ StageOf(phase)[c][d] = "scheduled"
         /\ \/ StageOf(phase') = [StageOf(phase) EXCEPT ![c][d] = "running"]
            \/ StageOf(phase') = [StageOf(phase) EXCEPT ![c][d] = "missed"]
      \/ /\ StageOf(phase)[c][d] = "running"
         /\ StageOf(phase') = [StageOf(phase) EXCEPT ![c][d] = "finished"]
  BY <1>3, StageMoves, StagesAre DEF Finished
<1>. QED
  BY <1>1, <1>2, <1>4 DEF Runs!Run, Runs!Advance, StageOf, EndedOf, AtEnd, Ended

\* The barrier: the last answer of a sequence calls for the next one or ends the context.
LEMMA FinishIsAnswer ==
  ASSUME Order, Order', NEW c \in Contexts, FinishDetail(c), NEW d, d = Head(queue[c])
  PROVE  d \in Details /\ Runs!Answer(c, d)
<1> DEFINE p == IF reply[c].what = "refused" THEN "rejected" ELSE "acked"
<1>1. /\ reply[c].at = "finish" /\ SetPhase(c, d, p)
      /\ open' = (IF SequenceOver(d) THEN open \ {SequenceOf[d]} ELSE open)
      /\ UNCHANGED context
      /\ IF Continues(c, d) THEN Call(First(After(SequenceOf[d]))) ELSE UNCHANGED next
  BY DEF FinishDetail
<1>2. /\ d \in Details /\ phase[c][d] \in Finished /\ c = context /\ context > 0
      /\ context \in Nat
      /\ next.at \in {"none", "schedule"}
      /\ \/ awaited = {} /\ open = {} /\ next = NoCall
         \/ d \in awaited /\ open = {SequenceOf[d]}
      /\ awaited = {d} => next = NoCall
      /\ SequenceOver(d) <=> awaited = {d}
  BY <1>1, SequenceAtFinish DEF Contexts
<1>3. p \in Over /\ p \in Runs!Answered /\ p \notin Finished
  BY DEF Over, Runs!Answered, Finished
<1> HIDE DEF p
<1>4. /\ StageOf(phase)[c][d] = "finished"
      /\ StageOf(phase') = [StageOf(phase) EXCEPT ![c][d] = p]
  BY <1>1, <1>2, <1>3, StageMoves, StagesAre
<1>5. \/ AtEnd(next', open') <=> AtEnd(next, open)
      \/ ~AtEnd(next, open) /\ AtEnd(next', open') /\ Outstanding(context)' = {}
  <2>1. CASE SequenceOver(d)
    <3>1. awaited = {d} /\ next = NoCall /\ open = {SequenceOf[d]}
      BY <1>2, <2>1
    <3>2. ~AtEnd(next, open) /\ open' = {}
      BY <1>1, <2>1, <3>1 DEF AtEnd, NoCall
    <3>3. CASE Continues(c, d)
      <4>1. next'.at = "giveup" \/ next'.at = "reserve"
        BY <1>1, <3>3 DEF Call
      <4>2. next'.at = "giveup" => Outstanding(context)' = {}
        BY DEF Order, Calling
      <4>. QED
        BY <3>2, <4>1, <4>2 DEF AtEnd
    <3>4. CASE ~Continues(c, d)
      <4>1. awaited' = {}
        BY <1>1, <3>1 DEF FinishDetail
      <4>2. Outstanding(context) \subseteq {d}
        BY <3>1 DEF Order, Waiting
      <4>3. phase'[c][d] = p /\ \A e \in Details : e # d => phase'[c][e] = phase[c][e]
        BY <1>1, <1>2 DEF SetPhase, Order, Types, WorkTypes
      <4>4. Outstanding(context)' = {}
        BY <1>1, <1>2, <1>3, <4>2, <4>3 DEF Outstanding, Started, Over
      <4>5. AtEnd(next', open')
        <5>1. next' = NoCall
          BY <1>1, <3>1, <3>4
        <5>. QED
          BY <3>2, <5>1 DEF AtEnd, NoCall
      <4>. QED
        BY <3>2, <4>4, <4>5
    <3>. QED
      BY <3>3, <3>4
  <2>2. CASE ~SequenceOver(d)
    BY <1>1, <2>2 DEF Continues
  <2>. QED
    BY <2>1, <2>2
<1>6. \/ EndedOf(context', next', open') = EndedOf(context, next, open)
      \/ /\ EndedOf(context', next', open') = EndedOf(context, next, open) \cup {c}
         /\ Outstanding(c)' = {}
  <2>1. CASE AtEnd(next', open') <=> AtEnd(next, open)
    BY <1>1, <2>1 DEF EndedOf
  <2>2. CASE ~AtEnd(next, open) /\ AtEnd(next', open') /\ Outstanding(context)' = {}
    <3>1. EndedOf(context', next', open') = EndedOf(context, next, open) \cup {context}
      BY <1>1, <1>2, <2>2, EndedSet
    <3>. QED
      BY <1>1, <1>2, <2>2, <3>1 DEF Outstanding
  <2>. QED
    BY <1>5, <2>1, <2>2
<1>7. Outstanding(c)' = {} => Runs!Settled(c)'
  <2>1. \A e \in Details : phase'[c][e] \in Phases
    BY DEF Order, Types, WorkTypes
  <2>2. \A e \in Details : Outstanding(c)' = {} => phase'[c][e] \in {"idle"} \cup Over
    BY <2>1 DEF Outstanding, Started, Over, Phases, Finished
  <2>. QED
    BY <2>2 DEF Runs!Settled, Runs!Answered, Over, Finished
<1>8. Runs!Answer(c, d) <=>
        /\ c = context /\ StageOf(phase)[c][d] = "finished"
        /\ \E a \in Runs!Answered : StageOf(phase') = [StageOf(phase) EXCEPT ![c][d] = a]
        /\ \/ EndedOf(context', next', open') = EndedOf(context, next, open)
           \/ /\ EndedOf(context', next', open') = EndedOf(context, next, open) \cup {c}
              /\ Runs!Settled(c)'
        /\ UNCHANGED context
  BY DEF Runs!Answer, StageOf, EndedOf, AtEnd, Ended
<1>9. Runs!Answer(c, d)
  BY <1>1, <1>2, <1>3, <1>4, <1>6, <1>7, <1>8
<1>. QED
  BY <1>2, <1>9

\* Every step is one of the runs', or leaves them alone.
LEMMA StepsRun ==
  ASSUME Order, Order', [Next]_vars
  PROVE  [Runs!Next]_(Runs!runVars)
<1>1. ASSUME UNCHANGED <<context, phase, next, open>> PROVE UNCHANGED Runs!runVars
  BY <1>1, Invisible
<1>2. CASE TriggerFires \/ (StartGroup /\ ~MayStart) \/ Outside \/ UNCHANGED vars
  BY <1>1, <1>2 DEF TriggerFires, StartGroup, Outside, ReactivateGroup, EditGroup, ApplySnapshot,
     Halt, RemoveAllManaged, MarkStopped, Recover, contextVars, workVars, vars
<1>3. CASE StartGroup /\ MayStart
  BY <1>3, StartIsBegin DEF Runs!Next
<1>4. CASE ReserveSlot
  <2>1. next.at = "reserve" /\ next'.at = "reserve" /\ UNCHANGED <<context, phase, open>>
    BY <1>4 DEF ReserveSlot, contextVars, Order, Types, WorkTypes
  <2>. QED
    BY <2>1, Invisible DEF AtEnd
<1>5. CASE SlotRefused
  BY <1>5, RefusedIsEnd DEF Runs!Next
<1>6. CASE GiveUp
  <2>1. /\ next.at = "giveup" /\ next'.at = "none" /\ open = {} /\ open' = {}
        /\ UNCHANGED <<context, phase>>
    BY <1>6 DEF GiveUp, NoCall, workVars, Order, Calling
  <2>. QED
    BY <2>1, Invisible DEF AtEnd
<1>7. CASE OpenSequence
  <2>1. next.at = "reserve" /\ next'.at = "schedule" /\ UNCHANGED <<context, phase>>
    BY <1>7 DEF OpenSequence, workVars, Order, Types, WorkTypes
  <2>. QED
    BY <2>1, Invisible DEF AtEnd
<1>8. CASE \E d \in Details : ScheduleDetail(d)
  BY <1>8, ScheduleIsSchedule DEF Runs!Next
<1>9. CASE ScheduleFails
  BY <1>9, FailureIsTakeBack DEF Runs!Next
<1>10. CASE \E c \in Contexts : Task(c)
  BY <1>10, TaskIsRun DEF Task, Runs!Next
<1>11. ASSUME NEW c \in Contexts, Delivery(c) PROVE [Runs!Next]_(Runs!runVars)
  <2>1. CASE StoreResult(c) \/ RefuseResult(c) \/ GiveUpResult(c) \/ LoseReply(c)
           \/ HandleAnswer(c)
    BY <1>1, <2>1 DEF StoreResult, RefuseResult, GiveUpResult, LoseReply, HandleAnswer, contextVars
  <2>2. CASE FinishDetail(c)
    <3>1. PICK d : d = Head(queue[c])
      OBVIOUS
    <3>2. d \in Details /\ Runs!Answer(c, d)
      BY <2>2, <3>1, FinishIsAnswer
    <3>. QED
      BY <3>2 DEF Runs!Next
  <2>. QED
    BY <1>11, <2>1, <2>2 DEF Delivery
<1>. QED
  BY <1>2, <1>3, <1>4, <1>5, <1>6, <1>7, <1>8, <1>9, <1>10, <1>11 DEF Next, NextSequence

(***************************************************************************)
(* The group is a succession of contexts, under any faults: each ends when *)
(* nothing of it is under way or its scheduling has failed, nothing brings *)
(* execute_next_task back to it, and the next one begins only then         *)
(* (start_group_execution, execute_next_task, _finish_detail).             *)
(***************************************************************************)
THEOREM GroupImplementsRuns == Spec => ImplementsRuns
<1>1. Init => Runs!Init
  BY DEF Init, Runs!Init, Finished
<1>2. Order /\ Order' /\ [Next]_vars => [Runs!Next]_(Runs!runVars)
  BY StepsRun
<1>. QED
  BY <1>1, <1>2, GroupOrder, PTL DEF Spec, ImplementsRuns, Runs!Spec

-----------------------------------------------------------------------------
(***************************************************************************)
(* Slots.  ContextsDoNotOverlap lets them be counted in the latest context *)
(* alone.  When add_job has raised, more slots were released than the      *)
(* sequence still held: those of its details that had fired are given back *)
(* again by enqueue.                                                       *)
(***************************************************************************)
Holding == {"scheduled", "running", "missed"}

\* Details that hold a slot of their own.
Held == {d \in Details : context > 0 /\ phase[context][d] \in Holding}
Begun == {d \in Details : context > 0 /\ phase[context][d] # "idle"}

\* Slots of a call.
InHand == IF next.at = "schedule" THEN Cardinality(next.tasks) ELSE next.held

Exact == slots = InHand + Cardinality(Held)

Overreleased ==
  /\ "failure" \in Faults
  /\ busy /\ awaited = {} /\ next = NoCall
  /\ Cardinality(Held) - Cardinality(Begun) <= slots
  /\ slots <= Cardinality(Held)

Accounted == Exact \/ Overreleased

\* Sets of details are finite.
LEMMA SetsOfDetails ==
  ASSUME NEW S \in SUBSET Details
  PROVE  IsFiniteSet(S) /\ Cardinality(S) \in Nat /\ Cardinality(S) <= Cardinality(Details)
         /\ Cardinality(Details) \in Nat
BY FS_Subset, FS_CardinalityType

\* The slots SlotsMatchWork counts are those of the latest context.
LEMMA ExactMatchesWork ==
  ASSUME Order
  PROVE  SlotsMatchWork <=> Exact
<1> DEFINE W == {e \in Contexts \X Details : phase[e[1]][e[2]] \in {"scheduled", "running", "missed"}}
           f == [d \in Held |-> <<context, d>>]
<1>1. IsFiniteSet(Held)
  BY SetsOfDetails DEF Held
<1>2. context > 0 => context \in Contexts
  BY DEF Order, Types, WorkTypes, Contexts
<1>3. f \in [Held -> W]
  BY <1>2 DEF Held, Holding
<1>4. \A a, b \in Held : f[a] = f[b] => a = b
  OBVIOUS
<1>5. \A w \in W : \E a \in Held : f[a] = w
  <2> SUFFICES ASSUME NEW w \in W PROVE \E a \in Held : f[a] = w
    OBVIOUS
  <2>1. PICK o \in Contexts, d \in Details :
          w = <<o, d>> /\ phase[o][d] \in {"scheduled", "running", "missed"}
    OBVIOUS
  <2>2. o = context /\ context > 0
    BY <2>1 DEF Order, ContextsDoNotOverlap, Unfinished, Contexts
  <2>3. d \in Held
    BY <2>1, <2>2 DEF Held, Holding
  <2>4. QED
    BY <2>1, <2>2, <2>3
<1>6. f \in Bijection(Held, W)
  BY <1>3, <1>4, <1>5 DEF Bijection, Injection, Surjection, IsInjective
<1>7. Cardinality(W) = Cardinality(Held)
  BY <1>1, <1>6, FS_Bijection DEF ExistsBijection
<1>8. QED
  BY <1>7 DEF SlotsMatchWork, Exact, InHand

\* What the accounts say of the range of slots.
LEMMA AccountedBound ==
  ASSUME Order, Accounted
  PROVE  slots \in -Cardinality(Details) .. Cardinality(Details)
<1>1. /\ Held \in SUBSET Details /\ Begun \in SUBSET Details /\ next.tasks \in SUBSET Details
      /\ slots \in Int /\ next.held \in Nat /\ next.at \in {"none", "reserve", "schedule", "giveup"}
      /\ next.held <= Cardinality(Details)
  <2>1. Cardinality(Details) \in Nat
    BY FS_CardinalityType
  <2>2. QED
    BY <2>1 DEF Order, Types, WorkTypes, Held, Begun
<1>2. /\ Cardinality(Held) \in Nat /\ Cardinality(Begun) \in Nat /\ Cardinality(next.tasks) \in Nat
      /\ Cardinality(Details) \in Nat
      /\ Cardinality(Held) <= Cardinality(Details) /\ Cardinality(Begun) <= Cardinality(Details)
  BY <1>1, SetsOfDetails
<1>3. CASE Overreleased
  BY <1>1, <1>2, <1>3 DEF Overreleased
<1>4. CASE Exact
  <2>1. CASE next.at = "schedule"
    <3>1. next.tasks \cap Held = {}
      BY <1>1, <2>1 DEF Order, Scheduling, Held, Holding
    <3>2. IsFiniteSet(next.tasks) /\ IsFiniteSet(Held)
      BY <1>1, SetsOfDetails
    <3>3. Cardinality(next.tasks \cup Held) = Cardinality(next.tasks) + Cardinality(Held)
      BY <1>2, <3>1, <3>2, FS_Union, FS_EmptySet
    <3>4. Cardinality(next.tasks \cup Held) <= Cardinality(Details)
      BY <1>1, SetsOfDetails
    <3>5. QED
      BY <1>1, <1>2, <1>4, <2>1, <3>3, <3>4 DEF Exact, InHand
  <2>2. CASE next.at \in {"reserve", "giveup"}
    <3>1. Held = {}
      BY <2>2 DEF Order, Calling, Held, Holding, Outstanding, Started
    <3>2. Cardinality(Held) = 0
      BY <3>1, FS_EmptySet
    <3>3. QED
      BY <1>1, <1>2, <1>4, <2>2, <3>2 DEF Exact, InHand
  <2>3. CASE next.at = "none"
    <3>1. next.held = 0
      BY <2>3 DEF Order, AtRest, NoCall
    <3>2. QED
      BY <1>1, <1>2, <1>4, <2>3, <3>1 DEF Exact, InHand
  <2>4. QED
    BY <1>1, <2>1, <2>2, <2>3
<1>5. QED
  BY <1>3, <1>4 DEF Accounted

\* Steps that leave everything that is counted alone.
LEMMA CountsKept ==
  ASSUME Accounted, UNCHANGED <<slots, Held, Begun, InHand>>,
         Overreleased => busy' /\ awaited' = {} /\ next' = NoCall
  PROVE  Accounted'
BY DEF Accounted, Exact, Overreleased

LEMMA StartGroupCounts ==
  ASSUME Order, Accounted, StartGroup, MayStart
  PROVE  Accounted'
<1> DEFINE s == First({SequenceOf[d] : d \in Details})
<1>1. s \in Nat /\ InSequence(s) # {}
  BY FirstOfAll
<1> HIDE DEF s
<1>2. /\ context' = context + 1 /\ excluded' = {} /\ ~busy /\ context < MaxContexts
      /\ next' = [at |-> "reserve", tasks |-> InSequence(s), held |-> 0]
      /\ UNCHANGED <<phase, slots>>
  BY <1>1 DEF StartGroup, MayStart, Call, workVars, s
<1>3. next = NoCall /\ Held = {}
  BY <1>2 DEF Order, Resting, Held, Holding, Outstanding, Started
<1>4. slots = 0
  BY <1>2, <1>3, FS_EmptySet DEF Accounted, Overreleased, Exact, InHand, NoCall
<1>5. context' \in Contexts /\ context' > context
  BY <1>2 DEF Order, Types, WorkTypes, Contexts
<1>6. Held' = {}
  BY <1>2, <1>5 DEF Order, Future, Held, Holding
<1>7. Cardinality(Held') = 0
  BY <1>6, FS_EmptySet
<1>8. QED
  BY <1>2, <1>4, <1>7 DEF Accounted, Exact, InHand

LEMMA CallCounts ==
  ASSUME Order, Accounted, ReserveSlot \/ SlotRefused \/ GiveUp \/ OpenSequence
  PROVE  Accounted'
<1>1. UNCHANGED <<context, phase>> /\ UNCHANGED <<Held, Begun>>
  BY DEF ReserveSlot, SlotRefused, GiveUp, OpenSequence, contextVars, workVars, Held, Begun
<1>2. /\ next \in [at : {"none", "reserve", "schedule", "giveup"}, tasks : SUBSET Details,
                   held : 0 .. Cardinality(Details)]
      /\ slots \in Int /\ Held \in SUBSET Details
  BY DEF Order, Types, WorkTypes, Held
<1>3. Cardinality(Held) \in Nat /\ Cardinality(Details) \in Nat /\ Cardinality(next.tasks) \in Nat
  BY <1>2, SetsOfDetails
<1>4. next.at \in {"reserve", "giveup"}
  BY DEF ReserveSlot, SlotRefused, GiveUp, OpenSequence
<1>5. slots = next.held + Cardinality(Held)
  BY <1>4 DEF Accounted, Overreleased, Exact, InHand, NoCall
<1>6. CASE ReserveSlot
  BY <1>1, <1>2, <1>3, <1>5, <1>6 DEF ReserveSlot, Accounted, Exact, InHand
<1>7. CASE SlotRefused
  BY <1>1, <1>2, <1>3, <1>5, <1>7 DEF SlotRefused, Accounted, Exact, InHand, NoCall
<1>8. CASE GiveUp
  BY <1>1, <1>2, <1>3, <1>5, <1>8
     DEF GiveUp, workVars, Order, AtRest, Accounted, Exact, InHand, NoCall
<1>9. CASE OpenSequence
  BY <1>1, <1>2, <1>3, <1>5, <1>9 DEF OpenSequence, workVars, Accounted, Exact, InHand
<1>10. QED
  BY <1>6, <1>7, <1>8, <1>9

LEMMA ScheduleDetailCounts ==
  ASSUME Order, Accounted, NEW d \in Details, ScheduleDetail(d)
  PROVE  Accounted'
<1>1. /\ next.at = "schedule" /\ d \in next.tasks
      /\ next' = IF next.tasks = {d} THEN NoCall ELSE [next EXCEPT !.tasks = @ \ {d}]
      /\ phase' = [phase EXCEPT ![context][d] = "scheduled"]
      /\ UNCHANGED <<context, slots>>
  BY DEF ScheduleDetail, SetPhase, contextVars
<1>2. /\ next \in [at : {"none", "reserve", "schedule", "giveup"}, tasks : SUBSET Details,
                   held : 0 .. Cardinality(Details)]
      /\ phase \in [Contexts -> [Details -> Phases]]
      /\ slots \in Int /\ Held \in SUBSET Details
  BY DEF Order, Types, WorkTypes, Held
<1>3. context \in Contexts /\ context > 0 /\ phase[context][d] = "idle"
  BY <1>1, SequenceOfCall
<1>4. Held' = Held \cup {d} /\ d \notin Held
  BY <1>1, <1>2, <1>3 DEF Held, Holding
<1>5. /\ IsFiniteSet(Held) /\ IsFiniteSet(next.tasks)
      /\ Cardinality(Held) \in Nat /\ Cardinality(next.tasks) \in Nat
  BY <1>2, SetsOfDetails
<1>6. Cardinality(Held') = Cardinality(Held) + 1
  BY <1>4, <1>5, FS_AddElement
<1>7. InHand = Cardinality(next.tasks) /\ InHand' = Cardinality(next.tasks) - 1
  <2>1. CASE next.tasks = {d}
    <3>1. Cardinality(next.tasks) = 1
      BY <2>1, FS_Singleton
    <3>2. QED
      BY <1>1, <2>1, <3>1 DEF InHand, NoCall
  <2>2. CASE next.tasks # {d}
    <3>1. Cardinality(next.tasks \ {d}) = Cardinality(next.tasks) - 1
      BY <1>1, <1>5, FS_RemoveElement
    <3>2. next'.at = "schedule" /\ next'.tasks = next.tasks \ {d}
      BY <1>1, <1>2, <2>2
    <3>3. QED
      BY <1>1, <3>1, <3>2 DEF InHand
  <2>3. QED
    BY <2>1, <2>2
<1>8. Exact
  BY <1>1 DEF Accounted, Overreleased, NoCall
<1>9. QED
  BY <1>1, <1>2, <1>5, <1>6, <1>7, <1>8 DEF Accounted, Exact

\* Of the slots released too many, each is of a detail that had fired.
LEMMA ScheduleFailsCounts ==
  ASSUME Order, Accounted, ScheduleFails
  PROVE  Accounted'
<1> DEFINE f == CHOOSE d \in next.tasks : TRUE
           s == SequenceOf[f]
           tasks == next.tasks
           dropped == {d \in Details : SequenceOf[d] = s /\ phase[context][d] = "scheduled"}
<1>1. f \in next.tasks /\ next.at = "schedule"
  BY DEF Order, Scheduling, ScheduleFails
<1>2. /\ next' = NoCall
      /\ phase' = [phase EXCEPT ![context] = [d \in Details |->
                     IF SequenceOf[d] = s /\ @[d] = "scheduled" THEN "idle" ELSE @[d]]]
      /\ slots' = slots - next.held
      /\ awaited' = awaited \ InSequence(s)
      /\ UNCHANGED <<context, busy>>
      /\ "failure" \in Faults
  BY DEF ScheduleFails, Fault
<1> HIDE DEF f
<1>3. context \in Contexts /\ context > 0 /\ busy /\ f \in Details
  BY <1>1, SequenceOfCall
<1>4. awaited' = {}
  BY <1>1, <1>2 DEF Order, Scheduling, Waiting
<1>5. /\ tasks \subseteq InSequence(s) /\ next.held = Cardinality(InSequence(s))
      /\ \A d \in tasks : phase[context][d] = "idle"
  BY <1>1, SequenceOfCall DEF Order, Scheduling
<1> HIDE DEF s
<1>6. \A d \in Details : phase'[context][d] =
        IF d \in dropped THEN "idle" ELSE phase[context][d]
  BY <1>2, <1>3 DEF Order, Types, WorkTypes
<1>7. Held' = Held \ dropped /\ dropped \subseteq Held
  BY <1>2, <1>3, <1>6 DEF Held, Holding
<1>8. Begun' = Begun \ dropped /\ dropped \subseteq Begun
  BY <1>2, <1>3, <1>6 DEF Begun
<1>9. /\ tasks \cap dropped = {} /\ dropped \subseteq InSequence(s)
      /\ InSequence(s) \ (tasks \cup dropped) \subseteq Begun'
  <2>1. \A d \in InSequence(s) \ tasks : phase[context][d] # "idle"
    <3> SUFFICES ASSUME NEW d \in InSequence(s), d \notin tasks PROVE phase[context][d] # "idle"
      OBVIOUS
    <3>1. f \in awaited /\ ToCome = tasks /\ SequenceOf[f] = s /\ d \in Details /\ SequenceOf[d] = s
      BY <1>1 DEF Order, Scheduling, ToCome, InSequence, s
    <3>2. d \in awaited \/ phase[context][d] \in Over
      BY <3>1 DEF Order, Waiting
    <3>3. d \in awaited => d \in Outstanding(context)
      BY <3>1 DEF Order, Waiting
    <3>4. QED
      BY <3>2, <3>3 DEF Outstanding, Started, Finished, Over
  <2>2. InSequence(s) \subseteq Details
    BY DEF InSequence
  <2>3. QED
    BY <1>2, <1>3, <1>5, <1>8, <2>1, <2>2 DEF Begun, InSequence
<1>10. /\ Held \in SUBSET Details /\ Begun' \in SUBSET Details /\ tasks \in SUBSET Details
       /\ dropped \in SUBSET Details /\ InSequence(s) \in SUBSET Details
       /\ InSequence(s) \ (tasks \cup dropped) \in SUBSET Details
       /\ slots \in Int
  BY <1>8 DEF Order, Types, WorkTypes, Held, Begun, InSequence
<1> HIDE DEF tasks, dropped
<1> DEFINE left == InSequence(s) \ (tasks \cup dropped)
<1>11. /\ IsFiniteSet(Held) /\ IsFiniteSet(Begun') /\ IsFiniteSet(tasks) /\ IsFiniteSet(dropped)
       /\ IsFiniteSet(InSequence(s))
       /\ Cardinality(Held) \in Nat /\ Cardinality(Begun') \in Nat /\ Cardinality(tasks) \in Nat
       /\ Cardinality(dropped) \in Nat /\ Cardinality(InSequence(s)) \in Nat
       /\ Cardinality(left) \in Nat
  BY <1>10, SetsOfDetails
<1>12. Cardinality(Held') = Cardinality(Held) - Cardinality(dropped)
  <2>1. Held \cap dropped = dropped
    BY <1>7
  <2>2. QED
    BY <1>7, <1>11, <2>1, FS_Difference
<1>13. Cardinality(InSequence(s)) = Cardinality(tasks) + Cardinality(dropped) + Cardinality(left)
  <2>1. IsFiniteSet(tasks \cup dropped)
        /\ Cardinality(tasks \cup dropped) = Cardinality(tasks) + Cardinality(dropped)
    <3>1. Cardinality(tasks \cap dropped) = 0
      BY <1>9, FS_EmptySet
    <3>2. IsFiniteSet(tasks \cup dropped)
          /\ Cardinality(tasks \cup dropped)
               = Cardinality(tasks) + Cardinality(dropped) - Cardinality(tasks \cap dropped)
      BY <1>11, FS_Union
    <3>3. QED
      BY <1>11, <3>1, <3>2
  <2>2. InSequence(s) \cap (tasks \cup dropped) = tasks \cup dropped
    BY <1>5, <1>9 DEF tasks
  <2>3. Cardinality(left) = Cardinality(InSequence(s)) - Cardinality(tasks \cup dropped)
    <3>1. Cardinality(left) = Cardinality(InSequence(s))
                              - Cardinality(InSequence(s) \cap (tasks \cup dropped))
      BY <1>11, FS_Difference
    <3>2. QED
      BY <2>2, <3>1
  <2>4. QED
    BY <1>11, <2>1, <2>3
<1>14. Cardinality(left) <= Cardinality(Begun')
  BY <1>9, <1>11, FS_Subset
<1>15. slots = Cardinality(tasks) + Cardinality(Held)
  BY <1>1 DEF Accounted, Overreleased, Exact, InHand, NoCall, tasks
<1>16. slots' = Cardinality(Held') - Cardinality(left)
  BY <1>2, <1>5, <1>10, <1>11, <1>12, <1>13, <1>15
<1>17. /\ Cardinality(Held') - Cardinality(Begun') <= slots'
       /\ slots' <= Cardinality(Held')
  BY <1>11, <1>12, <1>14, <1>16
<1>18. QED
  BY <1>2, <1>3, <1>4, <1>17 DEF Accounted, Overreleased

LEMMA TaskCounts ==
  ASSUME Order, Accounted, NEW c \in Contexts, Task(c)
  PROVE  Accounted'
<1> SUFFICES ASSUME NEW d \in Details, JobFires(c, d) \/ JobMisfires(c, d) \/ FinishTask(c, d)
             PROVE  Accounted'
  BY DEF Task
<1>1. /\ UNCHANGED <<context, awaited, next>> /\ (busy => busy') /\ phase[c][d] \in Holding
      /\ \E p \in Started : phase' = [phase EXCEPT ![c][d] = p]
  <2>1. CASE JobFires(c, d)
    BY <2>1 DEF JobFires, SetPhase, Holding, Started
  <2>2. CASE JobMisfires(c, d)
    BY <2>2 DEF JobMisfires, SetPhase, contextVars, Holding, Started
  <2>3. CASE FinishTask(c, d)
    BY <2>3 DEF FinishTask, SetPhase, contextVars, Holding, Started
  <2>4. QED
    BY <2>1, <2>2, <2>3
<1>2. PICK p \in Started : phase' = [phase EXCEPT ![c][d] = p]
  BY <1>1
<1>3. Unfinished(c)
  BY <1>1 DEF Unfinished, Holding
<1>4. c = context /\ context > 0
  BY <1>3 DEF Order, ContextsDoNotOverlap, Contexts
<1>5. /\ phase'[context][d] = p
      /\ \A e \in Details : e # d => phase'[context][e] = phase[context][e]
  BY <1>2, <1>4 DEF Order, Types, WorkTypes
<1>6. Begun' = Begun
  BY <1>1, <1>4, <1>5 DEF Begun, Holding, Started, Finished
<1>7. InHand' = InHand
  BY <1>1 DEF InHand
<1>8. Held \in SUBSET Details /\ d \in Held /\ slots \in Int /\ Begun \in SUBSET Details
      /\ InHand \in Int
  <2>1. InHand \in Int
    BY SetsOfDetails DEF Order, Types, WorkTypes, InHand
  <2>2. QED
    BY <1>1, <1>4, <2>1 DEF Order, Types, WorkTypes, Held, Begun
<1>9. CASE JobFires(c, d) \/ JobMisfires(c, d)
  <2>1. UNCHANGED slots /\ \E q \in {"running", "missed"} : phase' = [phase EXCEPT ![c][d] = q]
    BY <1>9 DEF JobFires, JobMisfires, SetPhase
  <2>2. phase'[context][d] \in {"running", "missed"}
    BY <1>4, <2>1 DEF Order, Types, WorkTypes
  <2>3. Held' = Held
    BY <1>1, <1>4, <1>5, <1>8, <2>2 DEF Held, Holding
  <2>4. QED
    BY <1>1, <1>6, <1>7, <2>1, <2>3, CountsKept DEF Overreleased
<1>10. CASE FinishTask(c, d)
  <2>1. slots' = slots - 1 /\ \E q \in Finished : phase' = [phase EXCEPT ![c][d] = q]
    BY <1>10 DEF FinishTask, SetPhase
  <2>2. phase'[context][d] \in Finished
    BY <1>4, <2>1 DEF Order, Types, WorkTypes
  <2>3. Held' = Held \ {d}
    BY <1>1, <1>4, <1>5, <2>2 DEF Held, Holding, Finished
  <2>4. IsFiniteSet(Held) /\ Cardinality(Held) \in Nat /\ Cardinality(Begun) \in Nat
    BY <1>8, SetsOfDetails
  <2>5. Cardinality(Held') = Cardinality(Held) - 1
    BY <1>8, <2>3, <2>4, FS_RemoveElement
  <2>6. CASE Exact
    BY <1>7, <1>8, <2>1, <2>4, <2>5, <2>6 DEF Accounted, Exact
  <2>7. CASE Overreleased
    BY <1>1, <1>6, <1>8, <2>1, <2>4, <2>5, <2>7 DEF Accounted, Overreleased
  <2>8. QED
    BY <2>6, <2>7 DEF Accounted
<1>11. QED
  BY <1>9, <1>10

LEMMA FinishDetailCounts ==
  ASSUME Order, Accounted, NEW c \in Contexts, FinishDetail(c)
  PROVE  Accounted'
<1> DEFINE d == Head(queue[c])
<1>1. /\ reply[c].at = "finish"
      /\ SetPhase(c, d, IF reply[c].what = "refused" THEN "rejected" ELSE "acked")
      /\ UNCHANGED <<context, slots>>
  BY DEF FinishDetail
<1>2. /\ d \in Details /\ phase[c][d] \in Finished /\ c = context /\ context > 0 /\ busy
      /\ awaited = {d} => next = NoCall
      /\ SequenceOver(d) <=> awaited = {d}
  BY <1>1, SequenceAtFinish
<1>3. /\ phase'[context][d] \in Over
      /\ \A e \in Details : e # d => phase'[context][e] = phase[context][e]
  BY <1>1, <1>2 DEF Order, Types, WorkTypes, SetPhase, Over
<1>4. Held' = Held /\ Begun' = Begun
  BY <1>1, <1>2, <1>3 DEF Held, Begun, Holding, Finished, Over
<1>5. InHand' = InHand
  <2>1. CASE Continues(c, d)
    BY <1>2, <2>1 DEF FinishDetail, Continues, Call, InHand, NoCall
  <2>2. CASE ~Continues(c, d)
    BY <2>2 DEF FinishDetail, InHand
  <2>3. QED
    BY <2>1, <2>2
<1>6. Overreleased => busy' /\ awaited' = {} /\ next' = NoCall
  <2> SUFFICES ASSUME Overreleased PROVE busy' /\ awaited' = {} /\ next' = NoCall
    OBVIOUS
  <2>1. ~Continues(c, d) /\ ~ContextOver(c, d)
    BY <1>2 DEF Overreleased, Continues, ContextOver
  <2>2. QED
    BY <2>1 DEF Overreleased, FinishDetail
<1>7. QED
  BY <1>1, <1>4, <1>5, <1>6, CountsKept

LEMMA NextKeepsAccounts == Order /\ Accounted /\ [Next]_vars => Accounted'
<1> SUFFICES ASSUME Order, Accounted, [Next]_vars PROVE Accounted'
  OBVIOUS
<1>1. ASSUME UNCHANGED <<context, busy, awaited, next, phase, slots>> PROVE Accounted'
  <2>1. UNCHANGED <<slots, Held, Begun, InHand>>
    BY <1>1 DEF Held, Begun, InHand
  <2>2. QED
    BY <1>1, <2>1, CountsKept DEF Overreleased
<1>2. CASE TriggerFires \/ (StartGroup /\ ~MayStart) \/ Outside
  BY <1>1, <1>2 DEF TriggerFires, StartGroup, Outside, ReactivateGroup, EditGroup, ApplySnapshot,
     Halt, RemoveAllManaged, MarkStopped, Recover, contextVars, workVars
<1>3. CASE StartGroup /\ MayStart
  BY <1>3, StartGroupCounts
<1>4. CASE NextSequence
  BY <1>4, CallCounts, ScheduleDetailCounts, ScheduleFailsCounts DEF NextSequence
<1>5. ASSUME NEW c \in Contexts, Task(c) PROVE Accounted'
  BY <1>5, TaskCounts
<1>6. ASSUME NEW c \in Contexts, Delivery(c) PROVE Accounted'
  <2>1. CASE FinishDetail(c)
    BY <2>1, FinishDetailCounts
  <2>2. CASE ~FinishDetail(c)
    BY <1>1, <1>6, <2>2
    DEF Delivery, StoreResult, RefuseResult, GiveUpResult, LoseReply, HandleAnswer,
       contextVars
  <2>3. QED
    BY <2>1, <2>2
<1>7. CASE UNCHANGED vars
  BY <1>1, <1>7 DEF vars, contextVars, workVars
<1>8. QED
  BY <1>2, <1>3, <1>4, <1>5, <1>6, <1>7 DEF Next

LEMMA InitAccounted == Init => Accounted
<1> SUFFICES ASSUME Init PROVE Accounted
  OBVIOUS
<1>1. Held = {} /\ next = NoCall /\ slots = 0
  BY DEF Init, Held
<1>2. QED
  BY <1>1, FS_EmptySet DEF Accounted, Exact, InHand, NoCall

(***************************************************************************)
(* The types, with the range of the group's slots: releasing too many when *)
(* add_job raises happens once at most (the context stays running).        *)
(***************************************************************************)
THEOREM GroupTypeOK == Spec => []TypeOK
<1>1. Init => Order /\ Accounted
  BY InitOrder, InitAccounted
<1>2. Order /\ Accounted /\ [Next]_vars => Order' /\ Accounted'
  BY NextKeepsOrder, NextKeepsAccounts
<1>3. Order /\ Accounted => TypeOK
  BY AccountedBound DEF Order, Types, WorkTypes, OtherTypes, TypeOK
<1>4. QED
  BY <1>1, <1>2, <1>3, PTL DEF Spec

(***************************************************************************)
(* Unless add_job raises, the outbox slots of a group are those of its     *)
(* call and of the details that have not enqueued a result (reserve_slot,  *)
(* enqueue and release_reservation in execute_next_task and execute_task). *)
(***************************************************************************)
THEOREM GroupSlotsMatchWork ==
  ASSUME "failure" \notin Faults
  PROVE  Spec => []SlotsMatchWork
<1>1. Init => Order /\ Accounted
  BY InitOrder, InitAccounted
<1>2. Order /\ Accounted /\ [Next]_vars => Order' /\ Accounted'
  BY NextKeepsOrder, NextKeepsAccounts
<1>3. Order /\ Accounted => SlotsMatchWork
  BY ExactMatchesWork DEF Accounted, Overreleased
<1>4. QED
  BY <1>1, <1>2, <1>3, PTL DEF Spec

-----------------------------------------------------------------------------
(***************************************************************************)
(* Error stops.  As long as no answer is lost, a stop that was logged in   *)
(* the latest context is known to the agent, or is in the answer about to  *)
(* be handled, which the group's sequence waits for.                       *)
(***************************************************************************)
LoggedHaveRun == \A e \in logged : phase[e[1]][e[2]] \in Finished \cup Over

StopIsKnown ==
  \A e \in stoppers : e[1] = context =>
    /\ \/ stop
       \/ /\ reply[context].at = "sent" /\ StopsContext(reply[context].what)
          /\ queue[context] # <<>> /\ Head(queue[context]) = e[2]
    /\ \A d \in next.tasks \cup awaited : SequenceOf[d] <= SequenceOf[e[2]]

Stops == LoggedHaveRun /\ StopIsKnown /\ ErrorStopEndsContext

\* An execution is a context and a detail.
LEMMA LoggedIsRun ==
  ASSUME Order, NEW e \in logged
  PROVE  e = <<e[1], e[2]>> /\ e[1] \in Contexts /\ e[2] \in Details
BY DEF Order, Types, OtherTypes

\* Steps that log nothing, schedule nothing and forget neither a mark nor an answer.
LEMMA StopsKept ==
  ASSUME Order, Stops, UNCHANGED <<context, logged, stoppers>>,
         \A o \in Contexts : \A f \in Details :
           /\ phase[o][f] = "idle" => phase'[o][f] = "idle"
           /\ phase[o][f] \in Finished \cup Over => phase'[o][f] \in Finished \cup Over,
         stop => stop',
         \A e \in stoppers : e[1] = context =>
           /\ stop' \/ UNCHANGED <<reply, queue>>
           /\ next'.tasks \cup awaited' \subseteq next.tasks \cup awaited
  PROVE  Stops'
<1>1. \A e \in logged : e[1] \in Contexts /\ e[2] \in Details
  BY LoggedIsRun
<1>2. stoppers \subseteq logged
  BY DEF Order, Types, OtherTypes
<1>3. LoggedHaveRun'
  BY <1>1 DEF Stops, LoggedHaveRun
<1>4. ErrorStopEndsContext'
  BY <1>1, <1>2 DEF Stops, ErrorStopEndsContext
<1>5. StopIsKnown'
  <2> SUFFICES ASSUME NEW e \in stoppers, e[1] = context
               PROVE  /\ \/ stop'
                         \/ /\ reply'[context].at = "sent" /\ StopsContext(reply'[context].what)
                            /\ queue'[context] # <<>> /\ Head(queue'[context]) = e[2]
                      /\ \A d \in next'.tasks \cup awaited' : SequenceOf[d] <= SequenceOf[e[2]]
    BY DEF StopIsKnown, StopsContext
  <2>1. QED
    BY DEF Stops, StopIsKnown, StopsContext
<1>6. QED
  BY <1>3, <1>4, <1>5 DEF Stops

LEMMA StartGroupStops ==
  ASSUME Order, Stops, StartGroup, MayStart
  PROVE  Stops'
<1>1. context' = context + 1 /\ context < MaxContexts /\ UNCHANGED <<phase, logged, stoppers>>
  BY DEF StartGroup, MayStart, workVars, serverVars
<1>2. context' \in Contexts /\ context' > context
  BY <1>1 DEF Order, Types, WorkTypes, Contexts
<1>3. \A e \in stoppers : e[1] # context'
  <2> SUFFICES ASSUME NEW e \in stoppers, e[1] = context' PROVE FALSE
    OBVIOUS
  <2>1. e \in logged
    BY DEF Order, Types, OtherTypes
  <2>2. e[2] \in Details /\ phase[e[1]][e[2]] \in Finished \cup Over
    BY <2>1, LoggedIsRun DEF Stops, LoggedHaveRun
  <2>3. phase[context'][e[2]] = "idle"
    BY <1>2, <2>2 DEF Order, Future
  <2>4. QED
    BY <2>2, <2>3 DEF Finished, Over
<1>4. QED
  BY <1>1, <1>3 DEF Stops, StopIsKnown, LoggedHaveRun, ErrorStopEndsContext

LEMMA ScheduleDetailStops ==
  ASSUME Order, Stops, NEW d \in Details, ScheduleDetail(d)
  PROVE  Stops'
<1>1. /\ next.at = "schedule" /\ d \in next.tasks
      /\ next' = IF next.tasks = {d} THEN NoCall ELSE [next EXCEPT !.tasks = @ \ {d}]
      /\ phase' = [phase EXCEPT ![context][d] = "scheduled"]
      /\ UNCHANGED <<context, stop, awaited, queue, reply, logged, stoppers>>
  BY DEF ScheduleDetail, SetPhase, contextVars, serverVars
<1>2. next \in [at : {"none", "reserve", "schedule", "giveup"}, tasks : SUBSET Details,
                held : 0 .. Cardinality(Details)]
  BY DEF Order, Types, WorkTypes
<1>3. next'.tasks \subseteq next.tasks
  BY <1>1, <1>2 DEF NoCall
<1>4. context \in Contexts /\ phase[context][d] = "idle"
  BY <1>1, SequenceOfCall
<1>5. /\ \A o \in Contexts : \A e \in Details :
           o # context \/ e # d => phase'[o][e] = phase[o][e]
  BY <1>1, <1>4 DEF Order, Types, WorkTypes
<1>6. LoggedHaveRun'
  <2> SUFFICES ASSUME NEW e \in logged PROVE phase'[e[1]][e[2]] \in Finished \cup Over
    BY <1>1 DEF LoggedHaveRun
  <2>1. e[1] \in Contexts /\ e[2] \in Details /\ phase[e[1]][e[2]] \in Finished \cup Over
    BY LoggedIsRun DEF Stops, LoggedHaveRun
  <2>2. e[1] # context \/ e[2] # d
    BY <1>4, <2>1 DEF Finished, Over
  <2>3. QED
    BY <1>5, <2>1, <2>2
<1>7. StopIsKnown'
  BY <1>1, <1>3 DEF Stops, StopIsKnown
<1>8. ErrorStopEndsContext'
  <2> SUFFICES ASSUME NEW e \in stoppers, NEW f \in Details, SequenceOf[e[2]] < SequenceOf[f]
               PROVE  phase'[e[1]][f] = "idle"
    BY <1>1 DEF ErrorStopEndsContext
  <2>1. e \in logged
    BY DEF Order, Types, OtherTypes
  <2>2. e[1] \in Contexts /\ e[2] \in Details
    BY <2>1, LoggedIsRun
  <2>3. phase[e[1]][f] = "idle"
    BY DEF Stops, ErrorStopEndsContext
  <2>4. e[1] # context \/ f # d
    <3> SUFFICES ASSUME e[1] = context PROVE f # d
      OBVIOUS
    <3>1. SequenceOf[d] <= SequenceOf[e[2]]
      BY <1>1 DEF Stops, StopIsKnown
    <3>2. SequenceOf[d] \in Nat /\ SequenceOf[e[2]] \in Nat /\ SequenceOf[f] \in Nat
      BY <2>2
    <3>3. QED
      BY <3>1, <3>2
  <2>5. QED
    BY <1>5, <2>2, <2>3, <2>4
<1>9. QED
  BY <1>6, <1>7, <1>8 DEF Stops

\* A group stop is logged for the head of the queue, before its answer is handled.
LEMMA StoreResultStops ==
  ASSUME Order, Stops, NEW c \in Contexts, StoreResult(c)
  PROVE  Stops'
<1> DEFINE e == <<c, Head(queue[c])>>
<1>1. queue[c] # <<>> /\ Head(queue[c]) \in Details /\ phase[c][Head(queue[c])] \in Finished
      /\ c = context /\ context > 0
  BY HeadFinished DEF StoreResult, Sending
<1>2. /\ reply[c].at # "sent" /\ logged' = logged \cup {e}
      /\ UNCHANGED <<context, stop, awaited, next, phase, queue>>
      /\ \A o \in Contexts : o # c => reply'[o] = reply[o]
      /\ \/ stoppers' = stoppers
         \/ /\ stoppers' = stoppers \cup {e}
            /\ reply'[c].at = "sent" /\ reply'[c].what = "groupStop"
  <2>1. reply \in [Contexts -> [at : {"none", "sent", "finish", "call"}, what : Answers]]
    BY DEF Order, Types, WorkTypes
  <2>2. PICK what \in Answers :
          /\ reply' = [reply EXCEPT ![c] = [at |-> "sent", what |-> what]]
          /\ IF what = "groupStop" THEN StopGroup(e) ELSE UNCHANGED <<serverGroup, stoppers>>
    BY DEF StoreResult, Answers
  <2>3. QED
    BY <2>1, <2>2 DEF StoreResult, Sending, StopGroup, contextVars
<1>3. LoggedHaveRun'
  BY <1>1, <1>2 DEF Stops, LoggedHaveRun
<1>4. \A o \in stoppers : o[1] = context => stop
  BY <1>1, <1>2 DEF Stops, StopIsKnown
<1>5. \A d \in next.tasks \cup awaited : SequenceOf[d] <= SequenceOf[Head(queue[c])]
  <2>1. Head(queue[c]) \in Outstanding(context)
    BY <1>1 DEF Outstanding, Started
  <2>2. \A d \in awaited : d \in Details /\ SequenceOf[d] = SequenceOf[Head(queue[c])]
    <3>1. awaited # {} => Head(queue[c]) \in awaited
      BY <2>1 DEF Order, Waiting
    <3>2. QED
      BY <3>1 DEF Order, Types, WorkTypes, Waiting, InSequence
  <2>3. next.tasks \subseteq awaited
    BY <2>1 DEF Order, Types, WorkTypes, Calling, Scheduling, AtRest, NoCall
  <2>4. SequenceOf[Head(queue[c])] \in Nat
    BY <1>1
  <2>5. QED
    BY <2>2, <2>3, <2>4
<1>6. StopIsKnown'
  BY <1>1, <1>2, <1>4, <1>5 DEF Stops, StopIsKnown, StopsContext
<1>7. \A d \in Details : SequenceOf[Head(queue[c])] < SequenceOf[d] => phase[c][d] = "idle"
  BY <1>1 DEF Order, SequenceBarrier, Finished
<1>8. ErrorStopEndsContext'
  BY <1>2, <1>7 DEF Stops, ErrorStopEndsContext
<1>9. QED
  BY <1>3, <1>6, <1>8 DEF Stops

LEMMA CallStops ==
  ASSUME Order, Stops, ReserveSlot \/ SlotRefused \/ GiveUp \/ OpenSequence
  PROVE  Stops'
<1>1. next \in [at : {"none", "reserve", "schedule", "giveup"}, tasks : SUBSET Details,
                held : 0 .. Cardinality(Details)]
  BY DEF Order, Types, WorkTypes
<1>2. UNCHANGED <<context, phase, logged, stoppers, queue, reply>> /\ (stop => stop')
  BY DEF ReserveSlot, SlotRefused, GiveUp, OpenSequence, contextVars, workVars, serverVars
<1>3. next'.tasks \cup awaited' \subseteq next.tasks \cup awaited
  <2>1. CASE ReserveSlot
    BY <1>1, <2>1 DEF ReserveSlot, contextVars
  <2>2. CASE SlotRefused \/ GiveUp
    BY <2>2 DEF SlotRefused, GiveUp, NoCall
  <2>3. CASE OpenSequence
    BY <1>1, <2>3 DEF OpenSequence
  <2>4. QED
    BY <2>1, <2>2, <2>3
<1>4. QED
  BY <1>2, <1>3, StopsKept

LEMMA ScheduleFailsStops ==
  ASSUME Order, Stops, ScheduleFails
  PROVE  Stops'
<1>1. /\ \E s : phase' = [phase EXCEPT ![context] = [d \in Details |->
                            IF SequenceOf[d] = s /\ @[d] = "scheduled" THEN "idle" ELSE @[d]]]
      /\ stop' /\ next' = NoCall /\ awaited' \subseteq awaited
      /\ UNCHANGED <<context, logged, stoppers>>
  BY DEF ScheduleFails, serverVars
<1>2. \A o \in Contexts : \A f \in Details :
        phase'[o][f] = phase[o][f] \/ (phase[o][f] = "scheduled" /\ phase'[o][f] = "idle")
  BY <1>1 DEF Order, Types, WorkTypes
<1>3. \A o \in Contexts : \A f \in Details :
        /\ phase[o][f] = "idle" => phase'[o][f] = "idle"
        /\ phase[o][f] \in Finished \cup Over => phase'[o][f] \in Finished \cup Over
  BY <1>2 DEF Finished, Over
<1>4. next'.tasks = {}
  BY <1>1 DEF NoCall
<1>5. QED
  BY <1>1, <1>3, <1>4, StopsKept

\* The head of a queue that is not empty is its first element.
LEMMA HeadsAgree ==
  ASSUME NEW s \in Seq(Details), NEW t \in Seq(Details),
         Len(s) >= 1, Len(t) >= 1, s[1] = t[1]
  PROVE  t # <<>> /\ Head(t) = Head(s)
OBVIOUS

LEMMA TaskStops ==
  ASSUME Order, Stops, NEW c \in Contexts, Task(c)
  PROVE  Stops'
<1> SUFFICES ASSUME NEW d \in Details, JobFires(c, d) \/ JobMisfires(c, d) \/ FinishTask(c, d)
             PROVE  Stops'
  BY DEF Task
<1>1. /\ UNCHANGED <<context, stop, awaited, next, reply, logged, stoppers>>
      /\ phase[c][d] \in Holding
      /\ \E p \in Started : phase' = [phase EXCEPT ![c][d] = p]
  <2>1. CASE JobFires(c, d)
    BY <2>1 DEF JobFires, SetPhase, serverVars, Holding, Started
  <2>2. CASE JobMisfires(c, d)
    BY <2>2 DEF JobMisfires, SetPhase, contextVars, serverVars, Holding, Started
  <2>3. CASE FinishTask(c, d)
    BY <2>3 DEF FinishTask, SetPhase, contextVars, serverVars, Holding, Started
  <2>4. QED
    BY <2>1, <2>2, <2>3
<1>2. \A o \in Contexts : \A f \in Details :
        /\ phase[o][f] = "idle" => phase'[o][f] = "idle"
        /\ phase[o][f] \in Finished \cup Over => phase'[o][f] \in Finished \cup Over
  BY <1>1 DEF Order, Types, WorkTypes, Holding, Finished, Over
<1>3. CASE JobFires(c, d) \/ JobMisfires(c, d)
  <2>1. UNCHANGED queue
    BY <1>3 DEF JobFires, JobMisfires
  <2>2. QED
    BY <1>1, <1>2, <2>1, StopsKept
<1>4. CASE FinishTask(c, d)
  <2>1. LoggedHaveRun' /\ ErrorStopEndsContext'
    <3>1. \A e \in logged : e[1] \in Contexts /\ e[2] \in Details
      BY LoggedIsRun
    <3>2. stoppers \subseteq logged
      BY DEF Order, Types, OtherTypes
    <3>3. QED
      BY <1>1, <1>2, <3>1, <3>2 DEF Stops, LoggedHaveRun, ErrorStopEndsContext
  <2>2. \A o \in Contexts : queue[o] # <<>> =>
          queue'[o] # <<>> /\ Head(queue'[o]) = Head(queue[o])
    <3> SUFFICES ASSUME NEW o \in Contexts, queue[o] # <<>>
                 PROVE  queue'[o] # <<>> /\ Head(queue'[o]) = Head(queue[o])
      OBVIOUS
    <3>1. queue[o] \in Seq(Details) /\ queue \in [Contexts -> Seq(Details)]
      BY DEF Order, Types, WorkTypes
    <3>2. queue'[o] = queue[o] \/ queue'[o] = Append(queue[o], d)
      BY <1>4, <3>1 DEF FinishTask
    <3>3. Len(queue[o]) \in Nat /\ Len(queue[o]) >= 1
      BY <3>1
    <3>4. /\ Append(queue[o], d) \in Seq(Details) /\ Len(Append(queue[o], d)) >= 1
          /\ queue[o][1] = Append(queue[o], d)[1]
      <4>1. /\ Append(queue[o], d) \in Seq(Details)
            /\ Len(Append(queue[o], d)) = Len(queue[o]) + 1
            /\ \A i \in 1 .. Len(queue[o]) : Append(queue[o], d)[i] = queue[o][i]
        BY <3>1, AppendProperties
      <4>2. QED
        BY <3>3, <4>1
    <3>5. Append(queue[o], d) # <<>> /\ Head(Append(queue[o], d)) = Head(queue[o])
      BY <3>1, <3>3, <3>4, HeadsAgree
    <3>6. QED
      BY <3>2, <3>5
  <2>3. \A e \in stoppers : e[1] \in Contexts
    BY LoggedIsRun DEF Order, Types, OtherTypes
  <2>4. StopIsKnown'
    BY <1>1, <2>2, <2>3 DEF Stops, StopIsKnown
  <2>5. QED
    BY <2>1, <2>4 DEF Stops
<1>5. QED
  BY <1>3, <1>4

LEMMA DeliveryStops ==
  ASSUME Order, Stops, NEW c \in Contexts, Delivery(c), "lost" \notin Faults
  PROVE  Stops'
<1>1. CASE StoreResult(c)
  BY <1>1, StoreResultStops
<1>2. CASE RefuseResult(c) \/ GiveUpResult(c)
  <2>1. queue[c] # <<>>
    BY <1>2 DEF RefuseResult, GiveUpResult, Sending, Order, QueuesHoldFinished
  <2>2. c = context
    BY <2>1, HeadFinished
  <2>3. UNCHANGED <<context, stop, awaited, next, phase, queue, logged, stoppers>>
    BY <1>2 DEF RefuseResult, GiveUpResult, contextVars, serverVars
  <2>4. reply'[c] = [at |-> "sent", what |-> "refused"]
    BY <1>2 DEF RefuseResult, GiveUpResult, Refused, Order, Types, WorkTypes
  <2>5. StopIsKnown'
    BY <2>2, <2>3, <2>4 DEF Stops, StopIsKnown, StopsContext
  <2>6. LoggedHaveRun' /\ ErrorStopEndsContext'
    BY <2>3 DEF Stops, LoggedHaveRun, ErrorStopEndsContext
  <2>7. QED
    BY <2>5, <2>6 DEF Stops
<1>3. CASE HandleAnswer(c)
  <2>1. queue[c] # <<>>
    BY <1>3 DEF Order, QueuesHoldFinished, HandleAnswer
  <2>2. c = context
    BY <2>1, HeadFinished
  <2>3. /\ UNCHANGED <<context, awaited, next, phase, queue, logged, stoppers>>
        /\ stop' = (stop \/ StopsContext(reply[c].what))
    BY <1>3 DEF HandleAnswer, serverVars
  <2>4. \A e \in stoppers : e[1] = context => stop'
    BY <2>2, <2>3 DEF Stops, StopIsKnown, StopsContext
  <2>5. stop => stop'
    BY <2>3
  <2>6. QED
    BY <2>3, <2>4, <2>5, StopsKept
<1>4. CASE FinishDetail(c)
  <2> DEFINE d == Head(queue[c])
  <2>1. reply[c].at = "finish" /\ UNCHANGED <<context, stop, logged, stoppers>>
        /\ SetPhase(c, d, IF reply[c].what = "refused" THEN "rejected" ELSE "acked")
        /\ awaited' \subseteq awaited
    BY <1>4 DEF FinishDetail, serverVars
  <2>2. d \in Details /\ phase[c][d] \in Finished /\ c = context
    BY <2>1, SequenceAtFinish
  <2>3. \A e \in stoppers : e[1] = context => stop
    BY <2>1, <2>2 DEF Stops, StopIsKnown
  <2>4. stop => next' = next
    BY <1>4 DEF FinishDetail, Continues
  <2>5. /\ phase'[c][d] \in Over
        /\ \A o \in Contexts : \A f \in Details :
             o # c \/ f # d => phase'[o][f] = phase[o][f]
    BY <2>1, <2>2 DEF Order, Types, WorkTypes, SetPhase, Over
  <2>6. \A o \in Contexts : \A f \in Details :
          /\ phase[o][f] = "idle" => phase'[o][f] = "idle"
          /\ phase[o][f] \in Finished \cup Over => phase'[o][f] \in Finished \cup Over
    BY <2>2, <2>5 DEF Finished
  <2>7. QED
    BY <2>1, <2>3, <2>4, <2>6, StopsKept
<1>5. QED
  BY <1>1, <1>2, <1>3, <1>4 DEF Delivery, LoseReply, Fault

LEMMA NextKeepsStops ==
  ASSUME "lost" \notin Faults, Order, Stops, [Next]_vars
  PROVE  Stops'
<1>1. CASE TriggerFires \/ (StartGroup /\ ~MayStart) \/ ApplySnapshot \/ Halt \/ RemoveAllManaged
           \/ MarkStopped \/ Recover \/ ReactivateGroup \/ EditGroup \/ UNCHANGED vars
  <2>1. /\ UNCHANGED <<context, phase, logged, stoppers, queue, reply, next, awaited>>
        /\ stop => stop'
    <3> USE DEF contextVars, workVars, serverVars
    <3>1. CASE TriggerFires \/ (StartGroup /\ ~MayStart)
      BY <3>1 DEF TriggerFires, StartGroup
    <3>2. CASE ApplySnapshot \/ MarkStopped
      BY <3>2 DEF ApplySnapshot, MarkStopped
    <3>3. CASE Halt \/ RemoveAllManaged \/ Recover
      BY <3>3 DEF Halt, RemoveAllManaged, Recover
    <3>4. CASE ReactivateGroup \/ EditGroup
      BY <3>4 DEF ReactivateGroup, EditGroup
    <3>5. CASE UNCHANGED vars
      BY <3>5 DEF vars
    <3>6. QED
      BY <1>1, <3>1, <3>2, <3>3, <3>4, <3>5
  <2>2. QED
    BY <2>1, StopsKept
<1>2. CASE StartGroup /\ MayStart
  BY <1>2, StartGroupStops
<1>3. CASE NextSequence
  BY <1>3, CallStops, ScheduleDetailStops, ScheduleFailsStops DEF NextSequence
<1>4. ASSUME NEW c \in Contexts, Task(c) \/ Delivery(c) PROVE Stops'
  BY <1>4, TaskStops, DeliveryStops
<1>5. QED
  BY <1>1, <1>2, <1>3, <1>4 DEF Next, Outside

(***************************************************************************)
(* As long as the server's answers arrive, an error stop ends its context  *)
(* after the sequence it happened in (execution_logged's directives and    *)
(* _apply_group_transition).                                               *)
(***************************************************************************)
THEOREM GroupErrorStopEndsContext ==
  ASSUME "lost" \notin Faults
  PROVE  Spec => []ErrorStopEndsContext
<1>1. Init => Order /\ Stops
  BY InitOrder DEF Init, Stops, LoggedHaveRun, StopIsKnown, ErrorStopEndsContext
<1>2. Order /\ Stops /\ [Next]_vars => Order' /\ Stops'
  BY NextKeepsOrder, NextKeepsStops
<1>3. Stops => ErrorStopEndsContext
  BY DEF Stops
<1>4. QED
  BY <1>1, <1>2, <1>3, PTL DEF Spec
=============================================================================
