----------------------- MODULE SnapshotContractProofs -----------------------
(***************************************************************************)
(* Proofs about SnapshotContract, for any tables, forms and number of      *)
(* writes: no poll meets a detail without its task, a snapshot that is     *)
(* taken lists the tables of one moment with the details of a group ranked *)
(* by their distinct sequences, and one that is refused is refused for a   *)
(* cause in the tables.                                                    *)
(*                                                                         *)
(* The order exists because each detail has as many before it as its       *)
(* place says; that the loop over it counts the distinct sequences is      *)
(* shown by the least place where it would not.                            *)
(***************************************************************************)
EXTENDS SnapshotContract, FiniteSetTheorems, WellFoundedInduction, TLAPS

\* The tables as far as the pairing of details and tasks goes.
Pairing(t) ==
  /\ t \in Tables
  /\ Paired(t)

\* What a poll has read of the details has their tasks.
RowsHaveTasks ==
  poll \in {"manuals", "answer"} =>
    \A d \in DOMAIN rows.detail : rows.detail[d].task # NoRow

RowsAreRecord ==
  rows = [renamed |-> rows.renamed, group |-> rows.group, detail |-> rows.detail,
          waiting |-> rows.waiting]

PollInv ==
  /\ Pairing(tables) /\ Pairing(view)
  /\ RowsAreRecord /\ RowsHaveTasks
  /\ NeverInconsistent

-----------------------------------------------------------------------------
(* The dashboard *)

\* A form gives a detail and a task.
LEMMA FormGivesRows ==
  ASSUME NEW g \in Groups, NEW f \in TaskForms
  PROVE  /\ DetailRow(g, f) \in DetailRows /\ ~DetailRow(g, f).deleted
         /\ TaskRow(f) \in TaskRows /\ TaskRow(f) # NoRow
<1>1. f \in [named : BOOLEAN, sequence : Int, retries : Int, cron : Crons,
             status : Statuses, type : Types, filled : SUBSET Fields, days : Int]
  BY ContractAssumption
<1>2. DetailRow(g, f) \in DetailRows /\ ~DetailRow(g, f).deleted
  BY <1>1 DEF DetailRow, DetailRows
<1>3. TaskRow(f) \in TaskRows
  BY <1>1 DEF TaskRow, TaskRows, Normalized
<1>4. QED
  BY <1>2, <1>3, ContractAssumption

\* What the dashboard writes keeps details and tasks together.
LEMMA DashboardKeeps ==
  ASSUME Pairing(tables), Dashboard
  PROVE  Pairing(tables')
<1>0. tables \in Tables
  BY DEF Pairing
<1>1. ASSUME NEW d \in Details, NEW g \in Groups, NEW f \in TaskForms,
             InsertTask(d, g, f) \/ UpdateTask(d, g, f)
      PROVE  Pairing(tables')
  <2> DEFINE row == DetailRow(g, f)
             task == TaskRow(f)
  <2>1. tables' = [tables EXCEPT !.detail[d] = row, !.task[d] = task]
    BY <1>1 DEF InsertTask, UpdateTask
  <2>2. row \in DetailRows /\ ~row.deleted /\ task \in TaskRows /\ task # NoRow
    BY FormGivesRows
  <2> HIDE DEF row, task
  <2>3. /\ tables'.detail = [tables.detail EXCEPT ![d] = row]
        /\ tables'.task = [tables.task EXCEPT ![d] = task]
    BY <1>0, <2>1 DEF Tables
  <2>4. tables' \in Tables
    BY <1>0, <2>1, <2>2 DEF Tables
  <2>5. Paired(tables')
    BY <1>0, <2>2, <2>3 DEF Pairing, Tables, Paired
  <2>6. QED
    BY <2>4, <2>5 DEF Pairing
<1>2. ASSUME NEW d \in Details, RemoveTask(d)
      PROVE  Pairing(tables')
  <2>1. tables' = [tables EXCEPT !.task[d] = NoRow, !.detail[d].deleted = TRUE]
        /\ tables.detail[d] \in DetailRows
    BY <1>0, <1>2 DEF RemoveTask, Present, Tables
  <2>2. /\ tables'.detail = [tables.detail EXCEPT ![d] = [@ EXCEPT !.deleted = TRUE]]
        /\ tables'.task = [tables.task EXCEPT ![d] = NoRow]
    BY <1>0, <2>1 DEF Tables
  <2> DEFINE row == [tables.detail[d] EXCEPT !.deleted = TRUE]
  <2>3. row \in DetailRows
    BY <2>1, Zenon DEF DetailRows
  <2>4. row.deleted
    BY <2>1 DEF DetailRows
  <2> HIDE DEF row
  <2>5. tables'.detail = [tables.detail EXCEPT ![d] = row]
        /\ tables'.detail \in [Details -> DetailRows \cup {NoRow}]
        /\ tables'.task \in [Details -> TaskRows \cup {NoRow}]
    BY <1>0, <2>2, <2>3 DEF Tables, row
  <2>6. Paired(tables')
    BY <1>0, <2>2, <2>4, <2>5 DEF Pairing, Tables, Paired
  <2>7. tables' \in Tables
    BY <1>0, <2>1, <2>5 DEF Tables
  <2>8. QED
    BY <2>6, <2>7 DEF Pairing
<1>3. ASSUME tables' \in Tables, tables'.detail = tables.detail, tables'.task = tables.task
      PROVE  Pairing(tables')
  BY <1>3 DEF Pairing, Paired
<1>4. ASSUME NEW g \in Groups, NEW f \in GroupForms, InsertSchedule(g, f) \/ UpdateSchedule(g, f)
      PROVE  Pairing(tables')
  <2>1. tables' = [tables EXCEPT !.group[g] = f] /\ f \in GroupRows
    BY <1>4, ContractAssumption DEF InsertSchedule, UpdateSchedule
  <2>2. QED
    BY <1>0, <1>3, <2>1 DEF Tables
<1>5. ASSUME NEW g \in Groups, RemoveSchedule(g)
      PROVE  Pairing(tables')
  <2>1. tables' = [tables EXCEPT !.group[g] = NoRow]
    BY <1>5 DEF RemoveSchedule
  <2>2. QED
    BY <1>0, <1>3, <2>1 DEF Tables
<1>6. ASSUME NEW D \in SUBSET Details, InsertManual(D)
      PROVE  Pairing(tables')
  <2>1. tables' = [tables EXCEPT !.waiting = @ \cup {d \in D : MayRun(d)}]
    BY <1>6 DEF InsertManual
  <2>2. QED
    BY <1>0, <1>3, <2>1 DEF Tables
<1>7. ASSUME NEW d \in Details, RemoveTask(d) \/ InsertManual({d})
      PROVE  Pairing(tables')
  <2>1. {d} \in SUBSET Details
    OBVIOUS
  <2>2. QED
    BY <1>2, <1>6, <1>7, <2>1
<1>8. ASSUME NEW g \in Groups,
             \/ RemoveSchedule(g)
             \/ InsertManual({d \in Details : Present(d) /\ tables.detail[d].group = g})
      PROVE  Pairing(tables')
  <2>1. {d \in Details : Present(d) /\ tables.detail[d].group = g} \in SUBSET Details
    OBVIOUS
  <2>2. QED
    BY <1>5, <1>6, <1>8, <2>1
<1>9. ASSUME NEW other \in BOOLEAN, RenameDevice(other)
      PROVE  Pairing(tables')
  <2>1. tables' = [tables EXCEPT !.renamed = other]
    BY <1>9 DEF RenameDevice
  <2>2. QED
    BY <1>0, <1>3, <2>1 DEF Tables
<1>10. QED
  BY <1>1, <1>4, <1>7, <1>8, <1>9 DEF Dashboard

\* So do the results.
LEMMA ResultsKeep ==
  ASSUME Pairing(tables), Results
  PROVE  Pairing(tables')
<1>0. tables \in Tables
  BY DEF Pairing
<1>1. PICK d \in Details : ErrorStop(d) \/ EndManual(d)
  BY DEF Results
<1> DEFINE g == tables.detail[d].group
<1>2. CASE ErrorStop(d) /\ tables' = [tables EXCEPT !.group[g].status = "error"]
  <2> DEFINE row == [tables.group[g] EXCEPT !.status = "error"]
  <2>1. tables.detail[d] \in DetailRows
    BY <1>0, <1>2 DEF ErrorStop, Tables
  <2>2. g \in Groups
    BY <2>1 DEF DetailRows
  <2>3. tables.group[g] \in GroupRows
    BY <1>0, <1>2, <2>2 DEF ErrorStop, Tables
  <2>4. row \in GroupRows
    <3>1. "error" \in Statuses
      BY DEF Statuses
    <3>2. QED
      BY <2>3, <3>1, Zenon DEF GroupRows
  <2>5. tables'.group = [tables.group EXCEPT ![g] = row]
    BY <1>0, <1>2 DEF Tables
  <2>6. tables'.group \in [Groups -> GroupRows \cup {NoRow}]
    <3> HIDE DEF row, g
    <3>1. QED
      BY <1>0, <2>2, <2>4, <2>5 DEF Tables
  <2>7. /\ tables' = [renamed |-> tables.renamed, group |-> tables'.group,
                      detail |-> tables.detail, task |-> tables.task,
                      waiting |-> tables.waiting]
    BY <1>0, <1>2 DEF Tables
  <2>8. tables' \in Tables /\ tables'.detail = tables.detail /\ tables'.task = tables.task
    <3> HIDE DEF row, g
    <3>1. QED
      BY <1>0, <2>6, <2>7 DEF Tables
  <2>9. QED
    BY <2>8 DEF Pairing, Paired
<1>3. CASE ErrorStop(d) /\ tables' = [tables EXCEPT !.detail[d].status = "error"]
  <2> DEFINE row == [tables.detail[d] EXCEPT !.status = "error"]
  <2>1. tables.detail[d] \in DetailRows /\ tables.detail[d] # NoRow
    BY <1>0, <1>3 DEF ErrorStop, Tables
  <2>2. row \in DetailRows
    <3>1. "error" \in Statuses
      BY DEF Statuses
    <3>2. QED
      BY <2>1, <3>1, Zenon DEF DetailRows
  <2>3. row.deleted = tables.detail[d].deleted
    BY <2>1 DEF DetailRows
  <2>4. /\ tables'.detail = [tables.detail EXCEPT ![d] = row]
        /\ tables'.task = tables.task
    BY <1>0, <1>3 DEF Tables
  <2> HIDE DEF row
  <2>5. tables'.detail \in [Details -> DetailRows \cup {NoRow}]
    BY <1>0, <2>2, <2>4 DEF Tables
  <2>6. tables' = [renamed |-> tables.renamed, group |-> tables.group,
                   detail |-> tables'.detail, task |-> tables.task,
                   waiting |-> tables.waiting]
    BY <1>0, <1>3 DEF Tables
  <2>7. tables' \in Tables
    BY <1>0, <2>5, <2>6 DEF Tables
  <2>8. Paired(tables')
    BY <1>0, <2>1, <2>3, <2>4 DEF Pairing, Tables, Paired
  <2>9. QED
    BY <2>7, <2>8 DEF Pairing
<1>4. CASE EndManual(d)
  <2>1. tables' = [tables EXCEPT !.waiting = @ \ {d}]
    BY <1>4 DEF EndManual
  <2>2. tables' \in Tables /\ tables'.detail = tables.detail /\ tables'.task = tables.task
    BY <1>0, <2>1 DEF Tables
  <2>3. QED
    BY <2>2 DEF Pairing, Paired
<1>5. QED
  BY <1>1, <1>2, <1>3, <1>4 DEF ErrorStop

\* What writes to the tables leaves the poll and the agent alone.
LEMMA WritesLeaveAgent ==
  ASSUME Dashboard \/ Results
  PROVE  UNCHANGED <<view, poll, rows, current, outcome>> /\ Edit
<1>1. CASE Dashboard
  BY <1>1 DEF Dashboard, InsertTask, UpdateTask, RemoveTask, InsertSchedule, UpdateSchedule,
     RemoveSchedule, InsertManual, RenameDevice, AgentUnchanged
<1>2. CASE Results
  BY <1>2 DEF Results, ErrorStop, EndManual, AgentUnchanged
<1>3. QED
  BY <1>1, <1>2

-----------------------------------------------------------------------------
(* The poll *)

\* The second query.
LEMMA ReadDetailsKeeps ==
  ASSUME PollInv, ReadDetails
  PROVE  PollInv'
<1> DEFINE D == {d \in Details : ListedDetail(view, d)}
           read == [d \in D |-> [detail |-> view.detail[d], task |-> view.task[d]]]
<1>1. /\ rows' = [rows EXCEPT !.detail = read]
      /\ UNCHANGED <<tables, view, outcome>>
  BY DEF ReadDetails, Seen
<1>2. \A d \in D : view.task[d] # NoRow
  BY DEF PollInv, Pairing, Paired, ListedDetail
<1> HIDE DEF D
<1>3. \A d \in D : read[d].task # NoRow
  BY <1>2
<1>4. DOMAIN read = D
  OBVIOUS
<1> HIDE DEF read
<1>5. rows' = [renamed |-> rows.renamed, group |-> rows.group, detail |-> read,
                waiting |-> rows.waiting]
  BY <1>1 DEF PollInv, RowsAreRecord
<1>6. RowsAreRecord' /\ RowsHaveTasks'
  BY <1>3, <1>4, <1>5 DEF RowsAreRecord, RowsHaveTasks
<1>7. QED
  BY <1>1, <1>6 DEF PollInv, NeverInconsistent, Pairing

\* A step of the poll.
LEMMA PollKeeps ==
  ASSUME PollInv, Poll
  PROVE  PollInv'
<1>1. CASE BeginPoll
  BY <1>1 DEF BeginPoll, PollInv, Pairing, RowsAreRecord, RowsHaveTasks, NeverInconsistent
<1>2. CASE ReadGroups
  <2>1. RowsAreRecord' /\ RowsHaveTasks'
    BY <1>2 DEF ReadGroups, PollInv, RowsAreRecord, RowsHaveTasks
  <2>2. QED
    BY <1>2, <2>1 DEF ReadGroups, PollInv, Pairing, NeverInconsistent
<1>3. CASE ReadDetails
  BY <1>3, ReadDetailsKeeps
<1>4. CASE ReadManuals
  <2> DEFINE W == {d \in Seen.waiting : ListedDetail(Seen, d)}
  <2>1. rows' = [rows EXCEPT !.waiting = W] /\ poll = "manuals"
    BY <1>4 DEF ReadManuals
  <2> HIDE DEF W
  <2>2. rows' = [renamed |-> rows.renamed, group |-> rows.group, detail |-> rows.detail,
                  waiting |-> W]
    BY <2>1 DEF PollInv, RowsAreRecord
  <2>3. RowsAreRecord' /\ RowsHaveTasks'
    BY <2>1, <2>2 DEF PollInv, RowsAreRecord, RowsHaveTasks
  <2>4. QED
    BY <1>4, <2>3 DEF ReadManuals, PollInv, Pairing, NeverInconsistent
<1>5. CASE EndPoll
  <2>1. ~Inconsistent
    BY <1>5 DEF EndPoll, PollInv, RowsHaveTasks, Inconsistent, Kept
  <2>2. NeverInconsistent'
    BY <1>5, <2>1 DEF EndPoll, NeverInconsistent
  <2>3. QED
    BY <1>5, <2>2 DEF EndPoll, PollInv, Pairing, RowsAreRecord, RowsHaveTasks
<1>6. QED
  BY <1>1, <1>2, <1>3, <1>4, <1>5 DEF Poll

(***************************************************************************)
(* Whatever is written between and during the reads of a poll, no poll is  *)
(* answered "Snapshot source data is inconsistent" (runtime_service.py,    *)
(* tasks.py).                                                              *)
(***************************************************************************)
THEOREM SnapshotNeverInconsistent == Spec => []NeverInconsistent
<1>1. Init => PollInv
  BY ContractAssumption DEF Init, PollInv, Pairing, RowsAreRecord, RowsHaveTasks,
     NeverInconsistent, NothingListed
<1>2. PollInv /\ [Next]_vars => PollInv'
  <2> SUFFICES ASSUME PollInv, [Next]_vars PROVE PollInv'
    OBVIOUS
  <2>1. CASE Dashboard \/ Results
    <3>1. Pairing(tables')
      BY <2>1, DashboardKeeps, ResultsKeep DEF PollInv
    <3>2. UNCHANGED <<view, poll, rows, outcome>>
      BY <2>1, WritesLeaveAgent
    <3>3. QED
      BY <3>1, <3>2 DEF PollInv, Pairing, RowsAreRecord, RowsHaveTasks, NeverInconsistent
  <2>2. CASE Poll
    BY <2>2, PollKeeps
  <2>3. CASE UNCHANGED vars
    BY <2>3 DEF vars, PollInv, Pairing, RowsAreRecord, RowsHaveTasks, NeverInconsistent
  <2>4. QED
    BY <2>1, <2>2, <2>3 DEF Next
<1>3. PollInv => NeverInconsistent
  BY DEF PollInv
<1>4. QED
  BY <1>1, <1>2, <1>3, PTL DEF Spec

-----------------------------------------------------------------------------
(* Cron expressions *)

\* The last digits of a number.
LEMMA EndsWithDigits ==
  ASSUME NEW s \in Nat, s <= 9999
  PROVE  /\ EndsWith(s, s)
         /\ EndsWith(s, 0) => s % 10 = 0
<1>1. s % Ten(s) = s
  <2>1. CASE s < 10
    <3>1. s % 10 = s
      BY <2>1
    <3>2. QED
      BY <2>1, <3>1 DEF Ten
  <2>2. CASE 10 <= s /\ s < 100
    <3>1. s % 100 = s
      BY <2>2
    <3>2. QED
      BY <2>2, <3>1 DEF Ten
  <2>3. CASE 100 <= s /\ s < 1000
    <3>1. s % 1000 = s
      BY <2>3
    <3>2. QED
      BY <2>3, <3>1 DEF Ten
  <2>4. CASE 1000 <= s
    <3>1. s % 10000 = s
      BY <2>4
    <3>2. QED
      BY <2>4, <3>1 DEF Ten
  <2>5. QED
    BY <2>1, <2>2, <2>3, <2>4
<1>2. Ten(0) = 10
  BY DEF Ten
<1>3. QED
  BY <1>1, <1>2 DEF EndsWith

(***************************************************************************)
(* Of the expressions the scheduler would take and whose words the agent   *)
(* knows, the agent's check refuses none but those with a bound of 0 and a *)
(* step that ends with 0                                                   *)
(* (sync_coordinator.py:438-465).                                          *)
(***************************************************************************)
THEOREM AcceptedCronsParse ==
  ASSUME NEW c \in Crons, TriggerAccepts(c), "agent" \in c.known, ~ZeroStep(c)
  PROVE  CronParses(c)
<1> DEFINE a == c.first
           z == c.last
           n == c.step
<1>1. /\ a = -1 \/ (a \in Nat /\ a <= 9999)
      /\ z = -1 \/ (z \in Nat /\ z <= 9999)
      /\ n = -1 \/ (n \in Nat /\ n <= 9999)
      /\ a = -1 => z = -1
  <2>1. a \in Numbers /\ z \in Numbers /\ n \in Numbers /\ (a = Blank => z = Blank)
    BY DEF Crons
  <2>2. \A k \in Numbers : k = -1 \/ (k \in Nat /\ k <= 9999)
    BY DEF Numbers, Blank
  <2> HIDE DEF a, z, n
  <2>3. QED
    BY <2>1, <2>2 DEF Blank
<1>2. /\ Low \in Nat /\ High \in Nat /\ TriggerHigh \in Nat
      /\ Low <= TriggerHigh /\ TriggerHigh <= High
  BY ContractAssumption
<1>3. /\ n # 0
      /\ a # -1 => a >= Low
      /\ z # -1 => a <= z /\ z <= TriggerHigh
      /\ a # -1 /\ z = -1 /\ n = -1 => a <= TriggerHigh
      /\ a # -1 /\ z = -1 /\ n # -1 => n <= TriggerHigh - a
  BY DEF TriggerAccepts, Blank
<1>4. /\ n # -1 /\ n % 10 = 0 => a # 0 /\ z # 0
  BY DEF ZeroStep, Blank
<1> HIDE DEF a, z, n
<1>5. a = -1 \/ a \in Low .. High
  <2>1. CASE z = -1 /\ n # -1
    BY <1>1, <1>2, <1>3, <2>1
  <2>2. CASE z # -1 \/ n = -1
    BY <1>1, <1>2, <1>3, <2>2
  <2>3. QED
    BY <2>1, <2>2
<1>6. z = -1 \/ z \in Low .. High
  BY <1>1, <1>2, <1>3
<1>7. ASSUME NEW k, k = -1 \/ k \in Low .. High, n # -1 /\ n % 10 = 0 => k # 0
      PROVE  NumberOK(c, k)
  <2>1. CASE k = -1
    BY <2>1 DEF NumberOK, Blank
  <2>2. CASE k # -1 /\ n # -1 /\ EndsWith(n, k)
    <3>1. k # 0
      BY <1>1, <1>7, <2>2, EndsWithDigits
    <3>2. k >= 1
      BY <1>2, <1>7, <2>2, <3>1
    <3>3. QED
      BY <2>2, <3>2 DEF NumberOK, Blank, n
  <2>3. CASE k # -1 /\ ~(n # -1 /\ EndsWith(n, k))
    BY <1>7, <2>3 DEF NumberOK, Blank, n
  <2>4. QED
    BY <2>1, <2>2, <2>3
<1>8. NumberOK(c, a) /\ NumberOK(c, z)
  BY <1>4, <1>5, <1>6, <1>7
<1>9. NumberOK(c, n)
  <2>1. CASE n = -1
    BY <2>1 DEF NumberOK, Blank
  <2>2. CASE n # -1
    <3>1. n >= 1 /\ EndsWith(n, n)
      BY <1>1, <1>3, <2>2, EndsWithDigits
    <3>2. QED
      BY <2>2, <3>1 DEF NumberOK, Blank, n
  <2>3. QED
    BY <2>1, <2>2
<1>10. QED
  BY <1>8, <1>9 DEF CronParses, a, z, n

\* What both the agent and the scheduler take.
LEMMA CronIsTaken ==
  ASSUME NEW c \in Crons
  PROVE  CronParses(c) /\ TriggerAccepts(c)
           <=> TriggerAccepts(c) /\ "agent" \in c.known /\ ~ZeroStep(c)
<1>1. TriggerAccepts(c) /\ "agent" \in c.known /\ ~ZeroStep(c) => CronParses(c)
  BY AcceptedCronsParse
<1>2. ASSUME CronParses(c), TriggerAccepts(c), ZeroStep(c)
      PROVE  FALSE
  <2> DEFINE n == c.step
  <2>0. \A k \in Numbers : k = -1 \/ (k \in Nat /\ k <= 9999)
    BY DEF Numbers, Blank
  <2>1. n \in Numbers /\ n # Blank /\ n % 10 = 0
    BY <1>2 DEF Crons, ZeroStep
  <2> HIDE DEF n
  <2>2. n \in Nat
    BY <2>0, <2>1 DEF Blank
  <2>3. EndsWith(n, 0)
    BY <2>1, <2>2 DEF EndsWith, Ten
  <2>4. ~NumberOK(c, 0)
    BY <2>1, <2>3 DEF NumberOK, Blank, n
  <2>5. QED
    BY <1>2, <2>4 DEF CronParses, ZeroStep
<1>3. CronParses(c) => "agent" \in c.known
  BY DEF CronParses
<1>4. QED
  BY <1>1, <1>2, <1>3

-----------------------------------------------------------------------------
(* The order of the rows *)

\* Rows of the details that are kept, as far as the order goes.
Row(d) == rows.detail[d].detail

RowTypes ==
  /\ Kept \subseteq Details
  /\ \A d \in Kept : Row(d).group \in Nat /\ Row(d).sequence \in Int

\* The places in the order.
Places == 1 .. Cardinality(Kept)

\* There are as many places as details.
LEMMA PlacesFinite ==
  ASSUME RowTypes
  PROVE  /\ IsFiniteSet(Kept) /\ Cardinality(Kept) \in Nat
         /\ IsFiniteSet(Places) /\ Cardinality(Places) = Cardinality(Kept)
<1>0. IsFiniteSet(Details) /\ Kept \in SUBSET Details
  BY ContractAssumption DEF RowTypes
<1>1. IsFiniteSet(Kept)
  BY <1>0, FS_Subset
<1>2. Cardinality(Kept) \in Nat
  BY <1>1, FS_CardinalityType
<1>3. IsFiniteSet(Places) /\ Cardinality(Places) = Cardinality(Kept)
  BY <1>2, FS_Interval DEF Places
<1>4. QED
  BY <1>1, <1>2, <1>3

\* Before is a strict total order.
LEMMA BeforeIsOrder ==
  ASSUME RowTypes
  PROVE  /\ \A d \in Kept : ~Before(d, d)
         /\ \A d, e \in Kept : d = e \/ Before(d, e) \/ Before(e, d)
         /\ \A d, e, f \in Kept : Before(d, e) /\ Before(e, f) => Before(d, f)
<1>1. Kept \subseteq Nat
  BY ContractAssumption DEF RowTypes
<1>2. \A d \in Kept : Row(d).group \in Nat /\ Row(d).sequence \in Int
  BY DEF RowTypes
<1>3. \A d, e : Before(d, e) <=>
        \/ Row(d).group < Row(e).group
        \/ Row(d).group = Row(e).group /\ Row(d).sequence < Row(e).sequence
        \/ Row(d).group = Row(e).group /\ Row(d).sequence = Row(e).sequence /\ d < e
  BY Zenon DEF Before, Row
<1>4. ASSUME NEW d \in Kept, NEW e \in Kept
      PROVE  ~Before(d, d) /\ (d = e \/ Before(d, e) \/ Before(e, d))
  <2>1. /\ d \in Nat /\ Row(d).group \in Nat /\ Row(d).sequence \in Int
        /\ e \in Nat /\ Row(e).group \in Nat /\ Row(e).sequence \in Int
    BY <1>1, <1>2
  <2>2. ~Before(d, d)
    BY <1>3, <2>1
  <2>3. \/ Row(d).group < Row(e).group \/ Row(e).group < Row(d).group
        \/ /\ Row(d).group = Row(e).group
           /\ \/ Row(d).sequence < Row(e).sequence \/ Row(e).sequence < Row(d).sequence
              \/ Row(d).sequence = Row(e).sequence /\ (d = e \/ d < e \/ e < d)
    BY <2>1
  <2>4. QED
    BY <1>3, <2>2, <2>3, Zenon
<1>5. ASSUME NEW d \in Kept, NEW e \in Kept, NEW f \in Kept, Before(d, e), Before(e, f)
      PROVE  Before(d, f)
  <2>1. d \in Nat /\ e \in Nat /\ f \in Nat
    BY <1>1
  <2>2. /\ Row(d).group \in Nat /\ Row(e).group \in Nat /\ Row(f).group \in Nat
        /\ Row(d).sequence \in Int /\ Row(e).sequence \in Int /\ Row(f).sequence \in Int
    BY <1>2
  <2>3. QED
    BY <1>3, <1>5, <2>1, <2>2
<1>6. QED
  BY <1>4, <1>5

\* An injection of the places hits every detail.
LEMMA PlacesSuffice ==
  ASSUME RowTypes, NEW f \in [Places -> Kept],
         \A i, j \in Places : f[i] = f[j] => i = j
  PROVE  \A d \in Kept : \E i \in Places : f[i] = d
<1> SUFFICES ASSUME NEW d \in Kept, \A i \in Places : f[i] # d
             PROVE  FALSE
  OBVIOUS
<1>1. f \in [Places -> Kept \ {d}]
  OBVIOUS
<1>2. IsFiniteSet(Kept \ {d}) /\ Cardinality(Kept \ {d}) = Cardinality(Kept) - 1
  BY PlacesFinite, FS_RemoveElement
<1>3. Cardinality(Kept \ {d}) < Cardinality(Places)
  BY <1>2, PlacesFinite
<1>4. \E i, j \in Places : i # j /\ f[i] = f[j]
  BY <1>1, <1>2, <1>3, PlacesFinite, FS_PigeonHole
<1>5. QED
  BY <1>4

\* A detail's place is the number of those that do not come after it.
LEMMA SortedExists ==
  ASSUME RowTypes
  PROVE  \E order \in [Places -> Kept] :
           \A i, j \in DOMAIN order : i < j => Before(order[i], order[j])
<1> DEFINE Upto(d) == {e \in Kept : e = d \/ Before(e, d)}
           n == Cardinality(Kept)
           pos == [d \in Kept |-> Cardinality(Upto(d))]
<1>1. IsFiniteSet(Kept) /\ n \in Nat
  BY PlacesFinite
<1>2. \A d \in Kept : IsFiniteSet(Upto(d)) /\ Cardinality(Upto(d)) \in Places
  <2> SUFFICES ASSUME NEW d \in Kept
               PROVE  IsFiniteSet(Upto(d)) /\ Cardinality(Upto(d)) \in Places
    OBVIOUS
  <2>1. Upto(d) \in SUBSET Kept /\ Upto(d) # {}
    OBVIOUS
  <2> HIDE DEF Upto
  <2>2. IsFiniteSet(Upto(d)) /\ Cardinality(Upto(d)) <= n
    BY <1>1, <2>1, FS_Subset
  <2>3. Cardinality(Upto(d)) \in Nat /\ Cardinality(Upto(d)) # 0
    BY <2>1, <2>2, FS_CardinalityType, FS_EmptySet
  <2>4. QED
    BY <1>1, <2>2, <2>3 DEF Places
<1>3. \A d, e \in Kept : Before(d, e) => pos[d] < pos[e]
  <2> SUFFICES ASSUME NEW d \in Kept, NEW e \in Kept, Before(d, e)
               PROVE  pos[d] < pos[e]
    OBVIOUS
  <2>1. e \notin Upto(d)
    <3>1. ~Before(e, e) /\ (Before(e, d) => Before(e, e))
      BY BeforeIsOrder
    <3>2. d # e
      BY <3>1
    <3>3. QED
      BY <3>1, <3>2
  <2>2. Upto(d) \subseteq Upto(e) \ {e}
    BY <2>1, BeforeIsOrder
  <2>3. e \in Upto(e)
    OBVIOUS
  <2> HIDE DEF Upto
  <2>4. /\ IsFiniteSet(Upto(e) \ {e})
        /\ Cardinality(Upto(e) \ {e}) = Cardinality(Upto(e)) - 1
    BY <1>2, <2>3, FS_RemoveElement
  <2>5. Cardinality(Upto(d)) <= Cardinality(Upto(e)) - 1
    BY <2>2, <2>4, FS_Subset
  <2>6. Cardinality(Upto(d)) \in Nat /\ Cardinality(Upto(e)) \in Nat
    BY <1>2, FS_CardinalityType
  <2>7. QED
    BY <2>5, <2>6
<1>4. pos \in [Kept -> Places]
  BY <1>2
<1> HIDE DEF pos
<1>5. \A k \in Places : \E d \in Kept : pos[d] = k
  <2> SUFFICES ASSUME NEW k \in Places, \A d \in Kept : pos[d] # k
               PROVE  FALSE
    OBVIOUS
  <2>1. pos \in [Kept -> Places \ {k}]
    BY <1>4
  <2>2. IsFiniteSet(Places \ {k}) /\ Cardinality(Places \ {k}) = Cardinality(Places) - 1
    BY PlacesFinite, FS_RemoveElement
  <2>3. Cardinality(Places \ {k}) < Cardinality(Kept)
    BY <1>1, <2>2, PlacesFinite
  <2>4. PICK d, e \in Kept : d # e /\ pos[d] = pos[e]
    BY <1>1, <2>1, <2>2, <2>3, FS_PigeonHole
  <2>5. pos[d] < pos[e] \/ pos[e] < pos[d]
    BY <1>3, <2>4, BeforeIsOrder
  <2>6. pos[d] \in Nat
    BY <1>4 DEF Places
  <2>7. QED
    BY <2>4, <2>5, <2>6
<1> DEFINE order == [k \in Places |-> CHOOSE d \in Kept : pos[d] = k]
<1>6. order \in [Places -> Kept] /\ \A k \in Places : pos[order[k]] = k
  BY <1>5
<1> HIDE DEF order
<1>7. \A i, j \in Places : i < j => Before(order[i], order[j])
  <2> SUFFICES ASSUME NEW i \in Places, NEW j \in Places, i < j
               PROVE  Before(order[i], order[j])
    OBVIOUS
  <2>1. order[i] # order[j] /\ ~Before(order[j], order[i])
    BY <1>3, <1>6 DEF Places
  <2>2. QED
    BY <1>6, <2>1, BeforeIsOrder
<1>8. QED
  BY <1>6, <1>7

\* What the answer is made from: each detail once, in order.
LEMMA SortedIsOrder ==
  ASSUME RowTypes
  PROVE  /\ Sorted \in [Places -> Kept]
         /\ \A i, j \in Places : i < j => Before(Sorted[i], Sorted[j])
         /\ \A i, j \in Places : Sorted[i] = Sorted[j] => i = j
         /\ \A d \in Kept : \E i \in Places : Sorted[i] = d
         /\ Len(Sorted) = Cardinality(Kept)
<1>1. /\ Sorted \in [Places -> Kept]
      /\ \A i, j \in DOMAIN Sorted : i < j => Before(Sorted[i], Sorted[j])
  BY SortedExists DEF Sorted, Places
<1>2. \A i, j \in Places : i < j => Before(Sorted[i], Sorted[j])
  BY <1>1
<1>3. \A i, j \in Places : Sorted[i] = Sorted[j] => i = j
  <2> SUFFICES ASSUME NEW i \in Places, NEW j \in Places, i # j, Sorted[i] = Sorted[j]
               PROVE  FALSE
    OBVIOUS
  <2>1. i < j \/ j < i
    BY DEF Places
  <2>2. QED
    BY <1>1, <1>2, <2>1, BeforeIsOrder
<1>4. \A d \in Kept : \E i \in Places : Sorted[i] = d
  BY <1>1, <1>3, PlacesSuffice
<1>5. Len(Sorted) = Cardinality(Kept)
  BY <1>1, PlacesFinite DEF Places
<1>6. QED
  BY <1>1, <1>2, <1>3, <1>4, <1>5

-----------------------------------------------------------------------------
(* The ranks *)

G(i) == Row(Sorted[i]).group
Q(i) == Row(Sorted[i]).sequence

\* Along the order the groups go up, and in a group the sequences.
LEMMA SortedRows ==
  ASSUME RowTypes, NEW i \in Places, NEW j \in Places, i <= j
  PROVE  /\ G(i) \in Nat /\ G(j) \in Nat /\ Q(i) \in Int /\ Q(j) \in Int
         /\ G(i) <= G(j)
         /\ G(i) = G(j) => Q(i) <= Q(j)
<1>1. Sorted[i] \in Kept /\ Sorted[j] \in Kept
  BY SortedIsOrder
<1>2. G(i) \in Nat /\ G(j) \in Nat /\ Q(i) \in Int /\ Q(j) \in Int
  BY <1>1 DEF RowTypes, G, Q
<1>3. CASE i = j
  BY <1>2, <1>3
<1>4. CASE i # j
  <2>1. i < j
    BY <1>4 DEF Places
  <2>2. Before(Sorted[i], Sorted[j])
    BY <2>1, SortedIsOrder
  <2>3. \/ G(i) < G(j)
        \/ G(i) = G(j) /\ Q(i) <= Q(j)
    BY <1>2, <2>2 DEF Before, G, Q, Row
  <2>4. QED
    BY <1>2, <2>3
<1>5. QED
  BY <1>3, <1>4

\* The sequences the loop has met in the group it is in.
Met(i) == {Q(j) : j \in {j \in 1 .. i : G(j) = G(i)}}

\* They are finitely many, with the current one among them.
LEMMA MetFinite ==
  ASSUME RowTypes, NEW i \in Places
  PROVE  IsFiniteSet(Met(i)) /\ Cardinality(Met(i)) \in Nat /\ Q(i) \in Met(i)
<1> DEFINE J == {j \in 1 .. i : G(j) = G(i)}
           f == [j \in J |-> Q(j)]
<1>1. i \in Nat /\ i \in 1 .. i
  BY DEF Places
<1>2. IsFiniteSet(1 .. i) /\ J \in SUBSET (1 .. i)
  BY <1>1, FS_Interval
<1>3. IsFiniteSet(J)
  BY <1>2, FS_Subset
<1>4. f \in Surjection(J, Met(i))
  BY DEF Surjection, Met
<1>5. IsFiniteSet(Met(i))
  BY <1>3, <1>4, FS_Surjection
<1>6. QED
  BY <1>1, <1>5, FS_CardinalityType DEF Met

\* One turn of the loop.
LEMMA MetStep ==
  ASSUME RowTypes, NEW i \in Places
  PROVE  Cardinality(Met(i)) =
           IF i = 1 \/ G(i) # G(i - 1) THEN 1
           ELSE Cardinality(Met(i - 1)) + (IF Q(i) = Q(i - 1) THEN 0 ELSE 1)
<1>1. i \in Nat /\ i >= 1 /\ \A j \in 1 .. i : j \in Places
  BY PlacesFinite DEF Places
<1>2. CASE i = 1 \/ G(i) # G(i - 1)
  <2>1. \A j \in 1 .. i : G(j) = G(i) => j = i
    <3> SUFFICES ASSUME NEW j \in 1 .. i, G(j) = G(i), j # i
                 PROVE  FALSE
      OBVIOUS
    <3>1. i - 1 \in Places /\ j <= i - 1 /\ i - 1 <= i /\ i # 1
      BY <1>1 DEF Places
    <3>2. G(j) <= G(i - 1) /\ G(i - 1) <= G(i) /\ G(j) \in Nat /\ G(i - 1) \in Nat
      BY <1>1, <3>1, SortedRows
    <3>3. QED
      BY <1>2, <3>1, <3>2
  <2>2. Met(i) = {Q(i)}
    BY <1>1, <2>1 DEF Met
  <2>3. QED
    BY <1>2, <2>2, FS_Singleton
<1>3. CASE i # 1 /\ G(i) = G(i - 1)
  <2>1. i - 1 \in Places /\ i - 1 <= i
    BY <1>1, <1>3 DEF Places
  <2>2. \A j : j \in 1 .. i <=> j \in 1 .. (i - 1) \/ j = i
    BY <1>1
  <2>3. Met(i) = Met(i - 1) \cup {Q(i)}
    BY <1>3, <2>2 DEF Met
  <2>4. Q(i) \in Met(i - 1) <=> Q(i) = Q(i - 1)
    <3>1. Q(i - 1) \in Met(i - 1)
      BY <2>1, MetFinite
    <3>2. ASSUME Q(i) \in Met(i - 1)
          PROVE  Q(i) = Q(i - 1)
      <4>1. PICK j \in 1 .. (i - 1) : G(j) = G(i - 1) /\ Q(j) = Q(i)
        BY <3>2 DEF Met
      <4>2. j \in Places /\ j <= i - 1
        BY <1>1, <4>1
      <4>3. Q(j) <= Q(i - 1) /\ Q(i - 1) <= Q(i) /\ Q(i - 1) \in Int /\ Q(i) \in Int
        BY <1>3, <2>1, <4>1, <4>2, SortedRows
      <4>4. QED
        BY <4>1, <4>3
    <3>3. QED
      BY <3>1, <3>2
  <2>5. IsFiniteSet(Met(i - 1)) /\ Cardinality(Met(i - 1)) \in Nat
    BY <2>1, MetFinite
  <2>6. Cardinality(Met(i)) =
          IF Q(i) \in Met(i - 1) THEN Cardinality(Met(i - 1)) ELSE Cardinality(Met(i - 1)) + 1
    BY <2>3, <2>5, FS_AddElement
  <2>7. QED
    BY <1>3, <2>4, <2>5, <2>6
<1>4. QED
  BY <1>2, <1>3

\* What the definition of DenseRank asks of its function.
IsLoop(f) ==
  f = [i \in Places |->
         IF i = 1 \/ G(i) # G(i - 1) THEN 1
         ELSE f[i - 1] + (IF Q(i) = Q(i - 1) THEN 0 ELSE 1)]

\* The loop counts the sequences it has met.
LEMMA DenseRankCounts ==
  ASSUME RowTypes
  PROVE  \A i \in Places : DenseRank(Sorted)[i] = Cardinality(Met(i))
<1> DEFINE met == [i \in Places |-> Cardinality(Met(i))]
           loop == DenseRank(Sorted)
<1>1. \A i \in Places : i # 1 => i - 1 \in Places
  BY PlacesFinite DEF Places
<1>2. IsLoop(met)
  BY <1>1, MetStep DEF IsLoop
<1>3. loop = CHOOSE f : IsLoop(f)
  <2>1. Places = 1 .. Len(Sorted)
    BY SortedIsOrder DEF Places
  <2>2. QED
    BY <2>1, Zenon DEF DenseRank, IsLoop, G, Q, Row
<1>4. IsLoop(loop)
  BY <1>2, <1>3
<1> HIDE DEF loop, met
<1>5. ASSUME NEW i \in Places
      PROVE  /\ loop[i] = IF i = 1 \/ G(i) # G(i - 1) THEN 1
                          ELSE loop[i - 1] + (IF Q(i) = Q(i - 1) THEN 0 ELSE 1)
             /\ met[i] = IF i = 1 \/ G(i) # G(i - 1) THEN 1
                         ELSE met[i - 1] + (IF Q(i) = Q(i - 1) THEN 0 ELSE 1)
  BY <1>2, <1>4, Zenon DEF IsLoop
<1> DEFINE Wrong == {i \in Places : loop[i] # met[i]}
<1>6. Wrong = {}
  <2> SUFFICES ASSUME Wrong # {} PROVE FALSE
    OBVIOUS
  <2>1. Wrong \subseteq Nat
    BY DEF Places
  <2>2. PICK m \in Wrong : \A i \in Wrong : ~(<<i, m>> \in OpToRel(<, Nat))
    BY <2>1, WFMin, NatLessThanWellFounded
  <2>3. m \in Places /\ loop[m] # met[m]
    OBVIOUS
  <2>4. m # 1 /\ G(m) = G(m - 1) /\ loop[m - 1] # met[m - 1]
    BY <1>5, <2>3
  <2>5. m - 1 \in Wrong
    BY <1>1, <2>3, <2>4
  <2>6. m - 1 < m /\ m - 1 \in Nat /\ m \in Nat
    BY <2>3, <2>4 DEF Places
  <2>7. <<m - 1, m>> \in OpToRel(<, Nat)
    BY <2>6, Zenon DEF OpToRel
  <2>8. QED
    BY <2>2, <2>5, <2>7
<1>7. QED
  BY <1>6 DEF loop, met

-----------------------------------------------------------------------------
(* What the answer lists *)

ListedGroups(t) == {g \in Groups : Listed(t, g)}
ListedDetails(t) == {d \in Details : ListedDetail(t, d)}

\* What has been read so far is what the view lists.
ReadSoFar ==
  /\ poll \in {"details", "manuals", "answer"} =>
       /\ rows.renamed = view.renamed
       /\ rows.group = [g \in ListedGroups(view) |-> Heading(view.group[g])]
  /\ poll \in {"manuals", "answer"} =>
       rows.detail = [d \in ListedDetails(view) |->
                        [detail |-> view.detail[d], task |-> view.task[d]]]
  /\ poll = "answer" => rows.waiting = {d \in view.waiting : ListedDetail(view, d)}

\* The rows of the tables.
LEMMA ListedRows ==
  ASSUME NEW t, Pairing(t)
  PROVE  /\ t.waiting \subseteq Details
         /\ \A g \in ListedGroups(t) :
              /\ t.group[g] \in GroupRows /\ t.group[g].cron \in Crons
              /\ Heading(t.group[g]) \in Headings
         /\ \A d \in ListedDetails(t) :
              /\ t.detail[d] \in DetailRows /\ t.detail[d].group \in ListedGroups(t)
              /\ t.detail[d].group \in Nat /\ t.detail[d].sequence \in Int
              /\ t.detail[d].named \in BOOLEAN
              /\ t.detail[d].retries \in Int /\ t.detail[d].cron \in Crons
              /\ t.task[d] \in TaskRows /\ t.task[d].type \in Types
              /\ t.task[d].filled \subseteq Fields /\ t.task[d].days \in Int
<1>1. /\ t.group \in [Groups -> GroupRows \cup {NoRow}]
      /\ t.detail \in [Details -> DetailRows \cup {NoRow}]
      /\ t.task \in [Details -> TaskRows \cup {NoRow}]
      /\ t.waiting \subseteq Details /\ Paired(t)
  BY DEF Pairing, Tables
<1>2. Groups \subseteq Nat
  BY ContractAssumption
<1>4. ASSUME NEW g \in ListedGroups(t)
      PROVE  /\ t.group[g] \in GroupRows /\ t.group[g].cron \in Crons
             /\ Heading(t.group[g]) \in Headings
  <2>1. t.group[g] \in GroupRows
    BY <1>1, <1>4 DEF ListedGroups, Listed
  <2>2. t.group[g].named \in BOOLEAN /\ t.group[g].cron \in Crons
    BY <2>1 DEF GroupRows
  <2>3. QED
    BY <2>1, <2>2 DEF Heading, Headings
<1>5. ASSUME NEW d \in ListedDetails(t)
      PROVE  /\ t.detail[d] \in DetailRows /\ t.detail[d].group \in ListedGroups(t)
             /\ t.task[d] \in TaskRows
  <2>1. t.detail[d] \in DetailRows /\ ~t.detail[d].deleted
    BY <1>1, <1>5 DEF ListedDetails, ListedDetail
  <2>2. Listed(t, t.detail[d].group)
    BY <1>5 DEF ListedDetails, ListedDetail
  <2>3. t.detail[d].group \in Groups
    BY <2>1 DEF DetailRows
  <2>4. t.task[d] # NoRow
    BY <1>1, <1>5 DEF Paired, ListedDetails, ListedDetail
  <2>5. QED
    BY <1>1, <1>5, <2>1, <2>2, <2>3, <2>4 DEF ListedGroups, ListedDetails
<1>6. ASSUME NEW d \in ListedDetails(t)
      PROVE  /\ t.detail[d].group \in Nat /\ t.detail[d].sequence \in Int
             /\ t.detail[d].named \in BOOLEAN
             /\ t.detail[d].retries \in Int /\ t.detail[d].cron \in Crons
             /\ t.task[d].type \in Types /\ t.task[d].filled \subseteq Fields
             /\ t.task[d].days \in Int
  <2>1. t.detail[d] \in DetailRows /\ t.task[d] \in TaskRows
    BY <1>5
  <2>2. QED
    BY <1>2, <2>1 DEF DetailRows, TaskRows
<1>7. QED
  BY <1>1, <1>4, <1>5, <1>6

\* All has been read.
AllRead == Pairing(view) /\ ReadSoFar /\ poll = "answer"

\* Nothing that was read is passed over.
LEMMA ReadRows ==
  ASSUME AllRead
  PROVE  /\ rows.renamed = view.renamed
         /\ rows.group = [g \in ListedGroups(view) |-> Heading(view.group[g])]
         /\ Kept = ListedDetails(view)
         /\ \A d \in Kept : /\ rows.detail[d].detail = view.detail[d]
                            /\ rows.detail[d].task = view.task[d]
         /\ rows.waiting = {d \in view.waiting : ListedDetail(view, d)}
<1> DEFINE L == ListedDetails(view)
           read == [d \in L |-> [detail |-> view.detail[d], task |-> view.task[d]]]
<1>1. /\ rows.renamed = view.renamed
      /\ rows.group = [g \in ListedGroups(view) |-> Heading(view.group[g])]
      /\ rows.detail = read
      /\ rows.waiting = {d \in view.waiting : ListedDetail(view, d)}
  BY DEF AllRead, ReadSoFar
<1> HIDE DEF L
<1>2. \A d \in L : read[d].detail = view.detail[d] /\ read[d].task = view.task[d]
  OBVIOUS
<1>3. DOMAIN read = L
  OBVIOUS
<1> HIDE DEF read
<1>4. DOMAIN rows.group = ListedGroups(view)
  BY <1>1
<1>5. \A d \in L : view.detail[d].group \in ListedGroups(view)
  BY ListedRows DEF AllRead, L
<1>6. Kept = L
  BY <1>1, <1>2, <1>3, <1>4, <1>5 DEF Kept
<1>7. QED
  BY <1>1, <1>2, <1>6 DEF L

\* The rows that are sorted.
LEMMA ReadTypes ==
  ASSUME AllRead
  PROVE  RowTypes /\ \A d \in Kept : Row(d) = view.detail[d]
<1>1. \A d \in Kept : Row(d) = view.detail[d]
  BY ReadRows DEF Row
<1>2. \A d \in Kept : view.detail[d].group \in Nat /\ view.detail[d].sequence \in Int
  BY ReadRows, ListedRows DEF AllRead
<1>3. Kept \subseteq Details
  BY ReadRows DEF ListedDetails
<1>4. QED
  BY <1>1, <1>2, <1>3 DEF RowTypes

\* The sequences of d's group up to its own.
Sequences(d) ==
  {view.detail[e].sequence : e \in
    {e \in Details : /\ ListedDetail(view, e) /\ view.detail[e].group = view.detail[d].group
                     /\ view.detail[e].sequence <= view.detail[d].sequence}}

\* The loop meets them all by the time it comes to d.
LEMMA MetIsSequences ==
  ASSUME AllRead, NEW i \in Places
  PROVE  Met(i) = Sequences(Sorted[i])
<1> DEFINE d == Sorted[i]
<1>1. RowTypes /\ Kept = ListedDetails(view)
  BY ReadRows, ReadTypes
<1>2. \A j \in Places : Sorted[j] \in Kept
  BY <1>1, SortedIsOrder
<1>3. \A j \in Places : G(j) = view.detail[Sorted[j]].group /\ Q(j) = view.detail[Sorted[j]].sequence
  BY <1>2, ReadTypes DEF G, Q
<1>4. i \in Nat /\ \A j \in 1 .. i : j \in Places /\ j <= i
  BY <1>1, PlacesFinite DEF Places
<1>5. ASSUME NEW q \in Met(i) PROVE q \in Sequences(d)
  <2>1. PICK j \in 1 .. i : G(j) = G(i) /\ q = Q(j)
    BY DEF Met
  <2>2. Q(j) <= Q(i)
    BY <1>1, <1>4, <2>1, SortedRows
  <2>3. Sorted[j] \in Details /\ ListedDetail(view, Sorted[j])
    BY <1>1, <1>2, <1>4 DEF ListedDetails
  <2>4. QED
    BY <1>3, <1>4, <2>1, <2>2, <2>3 DEF Sequences
<1>6. ASSUME NEW q \in Sequences(d) PROVE q \in Met(i)
  <2>1. PICK e \in Details : /\ ListedDetail(view, e) /\ view.detail[e].group = view.detail[d].group
                             /\ view.detail[e].sequence <= view.detail[d].sequence
                             /\ q = view.detail[e].sequence
    BY DEF Sequences
  <2>2. e \in Kept
    BY <1>1, <2>1 DEF ListedDetails
  <2>3. PICK j \in Places : Sorted[j] = e
    BY <1>1, <2>2, SortedIsOrder
  <2>4. G(j) = G(i) /\ Q(j) <= Q(i) /\ q = Q(j)
    BY <1>3, <2>1, <2>3
  <2>5. CASE j <= i
    <3>1. j \in 1 .. i
      BY <2>5 DEF Places
    <3>2. QED
      BY <2>4, <3>1 DEF Met
  <2>6. CASE ~(j <= i)
    <3>1. i <= j
      BY <2>6 DEF Places
    <3>2. Q(i) <= Q(j) /\ Q(i) \in Int /\ Q(j) \in Int
      BY <1>1, <2>4, <3>1, SortedRows
    <3>3. q = Q(i)
      BY <2>4, <3>2
    <3>4. QED
      BY <1>1, <3>3, MetFinite
  <2>7. QED
    BY <2>5, <2>6
<1>7. QED
  BY <1>5, <1>6

\* What the answer says of a detail.
EntryOf(t, d) ==
  [group |-> t.detail[d].group, named |-> t.detail[d].named,
   sequence |-> t.detail[d].sequence, exec |-> Rank(t, d),
   retries |-> t.detail[d].retries, cron |-> t.detail[d].cron, type |-> t.task[d].type,
   filled |-> Normalized(t.task[d].type, t.task[d].filled), days |-> t.task[d].days]

LEMMA AnswerIs ==
  ASSUME AllRead
  PROVE  /\ Answer = [renamed |-> Answer.renamed, group |-> Answer.group,
                      detail |-> Answer.detail, waiting |-> Answer.waiting]
         /\ Answer.renamed = view.renamed
         /\ Answer.group = [g \in ListedGroups(view) |-> Heading(view.group[g])]
         /\ Answer.waiting = {d \in view.waiting : ListedDetail(view, d)}
         /\ Answer.detail = [d \in ListedDetails(view) |-> EntryOf(view, d)]
<1>1. RowTypes /\ Kept = ListedDetails(view)
  BY ReadRows, ReadTypes
<1> DEFINE place(d) == CHOOSE i \in 1 .. Len(Sorted) : Sorted[i] = d
<1>2. ASSUME NEW d \in Kept
      PROVE  DenseRank(Sorted)[place(d)] = Rank(view, d)
  <2>1. 1 .. Len(Sorted) = Places /\ \E i \in Places : Sorted[i] = d
    BY <1>1, SortedIsOrder DEF Places
  <2>2. place(d) \in Places /\ Sorted[place(d)] = d
    BY <2>1
  <2> HIDE DEF place
  <2>3. DenseRank(Sorted)[place(d)] = Cardinality(Met(place(d)))
    BY <1>1, <2>2, DenseRankCounts
  <2>4. Met(place(d)) = Sequences(d)
    BY <2>2, MetIsSequences
  <2>5. QED
    BY <2>3, <2>4 DEF Rank, Sequences
<1> DEFINE entry(d) == [group |-> rows.detail[d].detail.group, named |-> rows.detail[d].detail.named,
                        sequence |-> rows.detail[d].detail.sequence,
                        exec |-> DenseRank(Sorted)[place(d)],
                        retries |-> rows.detail[d].detail.retries,
                        cron |-> rows.detail[d].detail.cron,
                        type |-> rows.detail[d].task.type,
                        filled |-> Normalized(rows.detail[d].task.type, rows.detail[d].task.filled),
                        days |-> rows.detail[d].task.days]
<1>3. Answer = [renamed |-> rows.renamed, group |-> rows.group,
                detail |-> [d \in Kept |-> entry(d)], waiting |-> rows.waiting]
  BY Zenon DEF Answer
<1>4. ASSUME NEW d \in Kept
      PROVE  entry(d) = EntryOf(view, d)
  <2>1. rows.detail[d].detail = view.detail[d] /\ rows.detail[d].task = view.task[d]
    BY ReadRows
  <2> HIDE DEF place
  <2>2. QED
    BY <1>2, <2>1 DEF EntryOf
<1> HIDE DEF entry
<1>5. /\ Answer.renamed = rows.renamed /\ Answer.group = rows.group
      /\ Answer.waiting = rows.waiting
      /\ Answer.detail = [d \in Kept |-> entry(d)]
  BY <1>3
<1>6. Answer = [renamed |-> Answer.renamed, group |-> Answer.group,
                detail |-> Answer.detail, waiting |-> Answer.waiting]
  BY <1>3, <1>5
<1>7. QED
  BY <1>1, <1>4, <1>5, <1>6, ReadRows

\* Ranks count from 1 and go with the sequences.
LEMMA RanksGo ==
  ASSUME Pairing(view)
  PROVE  /\ \A d \in ListedDetails(view) : Rank(view, d) \in Nat /\ Rank(view, d) >= 1
         /\ \A d, e \in ListedDetails(view) :
              /\ view.detail[d].group = view.detail[e].group
              /\ view.detail[d].sequence < view.detail[e].sequence
              => Rank(view, d) <= Rank(view, e)
<1> DEFINE L == ListedDetails(view)
           all == [d \in L |-> view.detail[d].sequence]
<1>1. IsFiniteSet(Details) /\ L \in SUBSET Details
  BY ContractAssumption DEF ListedDetails
<1>2. IsFiniteSet(L)
  BY <1>1, FS_Subset
<1>3. \A d \in L : view.detail[d].sequence \in Int
  BY ListedRows
<1> DEFINE Values == {all[d] : d \in L}
<1>4. all \in Surjection(L, Values)
  BY DEF Surjection
<1>5. IsFiniteSet(Values)
  BY <1>2, <1>4, FS_Surjection
<1>6. \A d \in L : Sequences(d) \in SUBSET Values
  BY DEF Sequences, ListedDetails
<1> HIDE DEF Values
<1>7. \A d \in L : IsFiniteSet(Sequences(d)) /\ Cardinality(Sequences(d)) \in Nat
  BY <1>5, <1>6, FS_Subset, FS_CardinalityType
<1>8. \A d \in L : Rank(view, d) = Cardinality(Sequences(d))
  BY DEF Rank, Sequences
<1>9. \A d \in L : view.detail[d].sequence \in Sequences(d)
  BY <1>3 DEF Sequences, ListedDetails
<1>10. \A d \in L : Cardinality(Sequences(d)) # 0
  BY <1>7, <1>9, FS_EmptySet
<1>11. ASSUME NEW d \in L, NEW e \in L, view.detail[d].group = view.detail[e].group,
              view.detail[d].sequence < view.detail[e].sequence
       PROVE  Rank(view, d) <= Rank(view, e)
  <2>1. Sequences(d) \in SUBSET Sequences(e)
    <3> SUFFICES ASSUME NEW x \in Details, ListedDetail(view, x),
                        view.detail[x].group = view.detail[d].group,
                        view.detail[x].sequence <= view.detail[d].sequence
                 PROVE  view.detail[x].sequence \in Sequences(e)
      BY DEF Sequences
    <3>1. /\ view.detail[x].sequence \in Int /\ view.detail[d].sequence \in Int
          /\ view.detail[e].sequence \in Int
      BY <1>3 DEF ListedDetails
    <3>2. view.detail[x].sequence <= view.detail[e].sequence
      BY <1>11, <3>1
    <3>3. QED
      BY <1>11, <3>2 DEF Sequences
  <2>2. QED
    BY <1>7, <1>8, <2>1, FS_Subset
<1>12. QED
  BY <1>7, <1>8, <1>10, <1>11

\* The fields a type needs are none that it may not have.
LEMMA TaskIsComplete ==
  ASSUME NEW type \in Types, NEW filled \in SUBSET Fields
  PROVE  TaskOK(type, Normalized(type, filled))
           <=> type # "none" /\ Required(type) \subseteq filled
<1>1. CASE type = "none"
  BY <1>1 DEF TaskOK
<1>2. CASE type # "none"
  <2>1. Required(type) \cap Forbidden(type) = {}
    BY <1>2 DEF Types, Required, Forbidden
  <2>2. QED
    BY <1>2, <2>1 DEF TaskOK, Normalized
<1>3. QED
  BY <1>1, <1>2

\* Days count for the type that has them.
LEMMA DaysCount ==
  ASSUME NEW type \in Types, NEW filled \in SUBSET Fields, Required(type) \subseteq filled,
         type # "none"
  PROVE  "house_keep_days" \in Normalized(type, filled) <=> type = "housekeep"
BY DEF Types, Required, Forbidden, Normalized

\* What the agent makes of the answer.
LEMMA AnswerValid ==
  ASSUME AllRead
  PROVE  Valid(Answer) <=>
           /\ ~view.renamed
           /\ \A d \in ListedDetails(view) : Complete(view, d)
           /\ \A g \in ListedGroups(view) :
                view.group[g].named /\ CronParses(view.group[g].cron)
<1> DEFINE L == ListedDetails(view)
           x(d) == Answer.detail[d]
<1>1. Pairing(view)
  BY DEF AllRead
<1>2. /\ DOMAIN Answer.detail = L /\ DOMAIN Answer.group = ListedGroups(view)
      /\ Answer.renamed = view.renamed
  BY AnswerIs
<1>3. \A g \in ListedGroups(view) : /\ Answer.group[g].named = view.group[g].named
                                    /\ Answer.group[g].cron = view.group[g].cron
  BY AnswerIs DEF Heading
<1>4. \A d \in L :
        /\ x(d).group = view.detail[d].group /\ x(d).named = view.detail[d].named
        /\ x(d).sequence = view.detail[d].sequence /\ x(d).exec = Rank(view, d)
        /\ x(d).retries = view.detail[d].retries /\ x(d).cron = view.detail[d].cron
        /\ x(d).type = view.task[d].type /\ x(d).days = view.task[d].days
        /\ x(d).filled = Normalized(view.task[d].type, view.task[d].filled)
  BY AnswerIs DEF EntryOf
<1>5. Answer.waiting \subseteq L
  <2>1. view.waiting \subseteq Details
    BY <1>1, ListedRows
  <2>2. QED
    BY <2>1, AnswerIs DEF ListedDetails
<1>7. \A d \in L : x(d).exec >= 1
  BY <1>1, <1>4, RanksGo
<1>8. \A d, e \in L : x(d).group = x(e).group /\ x(d).sequence < x(e).sequence
                        => x(d).exec <= x(e).exec
  BY <1>1, <1>4, RanksGo
<1> DEFINE Good(d) ==
             x(d).named /\ NumbersOK(x(d)) /\ CronParses(x(d).cron) /\ TaskOK(x(d).type, x(d).filled)
           HeadOK(g) == Answer.group[g].named /\ CronParses(Answer.group[g].cron)
<1>9. Valid(Answer) <=>
        /\ ~view.renamed
        /\ \A g \in ListedGroups(view) : HeadOK(g)
        /\ \A d \in L : Good(d)
  BY <1>2, <1>5, <1>8, Zenon DEF Valid
<1>10. ASSUME NEW d \in L
       PROVE  Complete(view, d) <=> Good(d)
  <2> DEFINE type == view.task[d].type
             filled == view.task[d].filled
  <2>1. type \in Types /\ filled \in SUBSET Fields
    BY <1>1, ListedRows
  <2>2. TaskOK(x(d).type, x(d).filled) <=> type # "none" /\ Required(type) \subseteq filled
    BY <1>4, <2>1, TaskIsComplete
  <2>3. TaskOK(x(d).type, x(d).filled) =>
          ("house_keep_days" \in x(d).filled <=> type = "housekeep")
    BY <1>4, <2>1, <2>2, DaysCount
  <2>4. /\ x(d).named = view.detail[d].named /\ x(d).sequence = view.detail[d].sequence
        /\ x(d).retries = view.detail[d].retries /\ x(d).cron = view.detail[d].cron
        /\ x(d).days = view.task[d].days /\ x(d).exec >= 1
    BY <1>4, <1>7
  <2>5. NumbersOK(x(d)) <=>
          /\ view.detail[d].sequence >= 0 /\ view.detail[d].retries >= 0
          /\ "house_keep_days" \in x(d).filled => view.task[d].days >= 0
    BY <2>4, Zenon DEF NumbersOK
  <2> HIDE DEF x
  <2>6. QED
    BY <2>2, <2>3, <2>4, <2>5, Zenon DEF Complete, type, filled
<1>11. \A g \in ListedGroups(view) :
         HeadOK(g) <=> view.group[g].named /\ CronParses(view.group[g].cron)
  BY <1>3
<1> HIDE DEF x, Good, HeadOK
<1>12. QED
  BY <1>9, <1>10, <1>11

-----------------------------------------------------------------------------
(***************************************************************************)
(* The inductive invariant of the poll, with what it promises.             *)
(***************************************************************************)
ContractInv == PollInv /\ ReadSoFar /\ TypeOK /\ TakenAsListed /\ RefusedForCause

\* The end of a poll.
LEMMA EndPollDecides ==
  ASSUME ContractInv, EndPoll
  PROVE  /\ TakenAsListed' /\ RefusedForCause'
         /\ current' \in Snapshots(DOMAIN current'.group, DOMAIN current'.detail)
         /\ DOMAIN current'.group \subseteq Groups /\ DOMAIN current'.detail \subseteq Details
<1>1. AllRead
  BY DEF AllRead, ContractInv, PollInv, EndPoll
<1>2. Pairing(view) /\ view' = view /\ poll' = "idle"
  BY DEF EndPoll, ContractInv, PollInv
<1>3. ~Inconsistent
  BY DEF EndPoll, ContractInv, PollInv, RowsHaveTasks, Inconsistent, Kept
<1>4. DOMAIN Answer.group = ListedGroups(view)
      /\ \A g \in ListedGroups(view) : Answer.group[g].cron = view.group[g].cron
  BY <1>1, AnswerIs DEF Heading
<1>5. Valid(Answer) <=>
        /\ ~view.renamed
        /\ \A d \in ListedDetails(view) : Complete(view, d)
        /\ \A g \in ListedGroups(view) :
             view.group[g].named /\ CronParses(view.group[g].cron)
  BY <1>1, AnswerValid
<1>6. Valid(Answer) => ~Unserialisable
  <2>1. \A d \in Kept : d \in ListedDetails(view) /\ rows.detail[d].task = view.task[d]
    BY <1>1, ReadRows
  <2>2. QED
    BY <1>5, <2>1 DEF Unserialisable, Complete
<1>7. outcome' = "taken" <=>
        /\ ~view.renamed
        /\ \A d \in ListedDetails(view) : Complete(view, d)
        /\ \A g \in ListedGroups(view) : GroupComplete(view, g)
  <2>1. outcome' = "taken" <=>
          /\ Valid(Answer)
          /\ \A g \in ListedGroups(view) : TriggerAccepts(view.group[g].cron)
    BY <1>3, <1>4, <1>6 DEF EndPoll
  <2>2. \A g \in ListedGroups(view) : view.group[g].cron \in Crons
    BY <1>2, ListedRows
  <2>3. \A g \in ListedGroups(view) :
          view.group[g].named /\ CronParses(view.group[g].cron) /\ TriggerAccepts(view.group[g].cron)
            <=> GroupComplete(view, g)
    BY <2>2, CronIsTaken DEF GroupComplete
  <2>4. QED
    BY <1>5, <2>1, <2>3
<1>13. RefusedForCause'
  BY <1>2, <1>7 DEF RefusedForCause, ListedDetails, ListedGroups
<1>8. current' = IF outcome' = "taken" THEN Answer ELSE current
  BY DEF EndPoll
<1>9. TakenAsListed'
  <2> SUFFICES ASSUME outcome' = "taken"
               PROVE  TakenAsListed'
    BY DEF TakenAsListed
  <2>1. current' = Answer
    BY <1>8
  <2>2. \A d \in ListedDetails(view) :
          /\ Answer.detail[d].group = view.detail[d].group
          /\ Answer.detail[d].type = view.task[d].type
          /\ Answer.detail[d].filled = Normalized(view.task[d].type, view.task[d].filled)
          /\ Answer.detail[d].exec = Rank(view, d)
    BY <1>1, AnswerIs DEF EntryOf
  <2>3. /\ DOMAIN Answer.detail = ListedDetails(view)
        /\ Answer.waiting = {d \in view.waiting : ListedDetail(view, d)}
    BY <1>1, AnswerIs
  <2>4. QED
    BY <1>2, <1>4, <2>1, <2>2, <2>3 DEF TakenAsListed, ListedGroups, ListedDetails
<1>10. Answer \in Snapshots(ListedGroups(view), ListedDetails(view))
  <2>1. Answer.group \in [ListedGroups(view) -> Headings]
    BY <1>1, <1>2, AnswerIs, ListedRows
  <2>2. ASSUME NEW d \in ListedDetails(view)
        PROVE  EntryOf(view, d) \in Entries
    <3>1. /\ view.detail[d].group \in Groups /\ view.detail[d].named \in BOOLEAN
          /\ view.detail[d].sequence \in Int /\ view.detail[d].retries \in Int
          /\ view.detail[d].cron \in Crons /\ view.task[d].days \in Int
          /\ view.task[d].type \in Types /\ view.task[d].filled \subseteq Fields
      BY <1>2, ListedRows DEF ListedGroups
    <3>2. Normalized(view.task[d].type, view.task[d].filled) \in SUBSET Fields
      BY <3>1 DEF Normalized
    <3>3. Rank(view, d) \in Nat
      BY <1>2, RanksGo
    <3>4. QED
      BY <3>1, <3>2, <3>3 DEF Entries, EntryOf
  <2>3. Answer.detail \in [ListedDetails(view) -> Entries]
    BY <1>1, <2>2, AnswerIs
  <2>4. Answer.waiting \subseteq Details
    BY <1>1, <1>2, AnswerIs, ListedRows
  <2>5. /\ Answer = [renamed |-> Answer.renamed, group |-> Answer.group,
                     detail |-> Answer.detail, waiting |-> Answer.waiting]
        /\ Answer.renamed \in BOOLEAN
    BY <1>1, <1>2, AnswerIs DEF Pairing, Tables
  <2>6. QED
    BY <2>1, <2>3, <2>4, <2>5 DEF Snapshots, Lists
<1>11. /\ DOMAIN Answer.group = ListedGroups(view) /\ DOMAIN Answer.detail = ListedDetails(view)
       /\ ListedGroups(view) \subseteq Groups /\ ListedDetails(view) \subseteq Details
  BY <1>1, AnswerIs DEF ListedGroups, ListedDetails
<1>12. QED
  BY <1>8, <1>9, <1>10, <1>11, <1>13 DEF ContractInv, TypeOK

\* Between the polls nothing changes that it is about.
LEMMA ContractStands ==
  ASSUME ContractInv, UNCHANGED <<view, poll, rows, current, outcome>>,
         PollInv', tables' \in Tables, edits' \in 0 .. MaxEdits
  PROVE  ContractInv'
<1>1. ReadSoFar'
  BY DEF ContractInv, ReadSoFar, ListedGroups, ListedDetails
<1>2. TypeOK'
  BY DEF ContractInv, TypeOK
<1>3. TakenAsListed' /\ RefusedForCause'
  BY DEF ContractInv, TakenAsListed, RefusedForCause
<1>4. QED
  BY <1>1, <1>2, <1>3 DEF ContractInv

\* During a poll there is no claim about the last one.
LEMMA ReadingStands ==
  ASSUME ContractInv, PollInv', ReadSoFar', UNCHANGED <<tables, current, outcome, edits>>,
         poll' \in {"groups", "details", "manuals", "answer"},
         rows' \in Rows(DOMAIN rows'.group, DOMAIN rows'.detail),
         DOMAIN rows'.group \subseteq Groups, DOMAIN rows'.detail \subseteq Details
  PROVE  ContractInv'
<1>1. view' \in Tables
  BY DEF PollInv, Pairing
<1>2. TypeOK'
  BY <1>1 DEF ContractInv, TypeOK
<1>3. TakenAsListed' /\ RefusedForCause'
  BY DEF TakenAsListed, RefusedForCause
<1>4. QED
  BY <1>2, <1>3 DEF ContractInv

\* Every step keeps the invariant.
LEMMA ContractKept ==
  ASSUME ContractInv, [Next]_vars
  PROVE  ContractInv'
<1>0. /\ PollInv /\ Pairing(view) /\ TypeOK /\ ReadSoFar
      /\ rows \in Rows(DOMAIN rows.group, DOMAIN rows.detail)
      /\ DOMAIN rows.group \subseteq Groups /\ DOMAIN rows.detail \subseteq Details
      /\ rows = [renamed |-> rows.renamed, group |-> rows.group, detail |-> rows.detail,
                 waiting |-> rows.waiting]
  BY DEF ContractInv, TypeOK, PollInv, RowsAreRecord
<1>1. CASE Dashboard \/ Results
  <2>1. Pairing(tables')
    BY <1>0, <1>1, DashboardKeeps, ResultsKeep DEF PollInv
  <2>2. UNCHANGED <<view, poll, rows, current, outcome>> /\ Edit
    BY <1>1, WritesLeaveAgent
  <2>3. edits' \in 0 .. MaxEdits
    BY <1>0, <2>2, ContractAssumption DEF Edit, TypeOK
  <2>4. PollInv'
    BY <1>0, <2>1, <2>2 DEF PollInv, Pairing, RowsAreRecord, RowsHaveTasks, NeverInconsistent
  <2>5. QED
    BY <2>1, <2>2, <2>3, <2>4, ContractStands DEF Pairing
<1>2. CASE Poll
  <2>0. PollInv'
    BY <1>0, <1>2, PollKeeps
  <2>1. CASE BeginPoll
    <3>1. ReadSoFar'
      BY <2>1 DEF BeginPoll, ReadSoFar
    <3>2. QED
      BY <1>0, <2>0, <2>1, <3>1, ReadingStands DEF BeginPoll
  <2>2. CASE ReadGroups
    <3> DEFINE read == [g \in ListedGroups(view) |-> Heading(view.group[g])]
    <3>1. rows' = [renamed |-> view.renamed, group |-> read, detail |-> rows.detail,
                   waiting |-> rows.waiting]
      BY <1>0, <2>2 DEF ReadGroups, Seen, ListedGroups
    <3>2. /\ read \in [ListedGroups(view) -> Headings] /\ DOMAIN read = ListedGroups(view)
          /\ view.renamed \in BOOLEAN
      BY <1>0, ListedRows DEF Pairing, Tables
    <3>3. ListedGroups(view) \subseteq Groups
      BY DEF ListedGroups
    <3>4. view' = view /\ poll' = "details"
      BY <2>2 DEF ReadGroups
    <3>5. ReadSoFar'
      BY <3>1, <3>4 DEF ReadSoFar, ListedGroups
    <3> HIDE DEF read
    <3>6. rows' \in Rows(DOMAIN rows'.group, DOMAIN rows'.detail)
      BY <1>0, <3>1, <3>2 DEF Rows, Lists
    <3>7. QED
      BY <1>0, <2>0, <2>2, <3>1, <3>2, <3>3, <3>4, <3>5, <3>6, ReadingStands DEF ReadGroups
  <2>3. CASE ReadDetails
    <3> DEFINE read == [d \in ListedDetails(view) |->
                          [detail |-> view.detail[d], task |-> view.task[d]]]
    <3>1. rows' = [renamed |-> rows.renamed, group |-> rows.group, detail |-> read,
                waiting |-> rows.waiting]
      BY <1>0, <2>3 DEF ReadDetails, Seen, ListedDetails
    <3>2. read \in [ListedDetails(view) -> Joined] /\ DOMAIN read = ListedDetails(view)
      BY <1>0, ListedRows DEF Joined
    <3>3. ListedDetails(view) \subseteq Details
      BY DEF ListedDetails
    <3>4. view' = view /\ poll' = "manuals" /\ poll = "details"
      BY <2>3 DEF ReadDetails
    <3>5. ReadSoFar'
      BY <1>0, <3>1, <3>4 DEF ReadSoFar, ListedGroups, ListedDetails
    <3> HIDE DEF read
    <3>6. rows' \in Rows(DOMAIN rows'.group, DOMAIN rows'.detail)
      BY <1>0, <3>1, <3>2 DEF Rows, Lists
    <3>7. QED
      BY <1>0, <2>0, <2>3, <3>1, <3>2, <3>3, <3>4, <3>5, <3>6, ReadingStands DEF ReadDetails
  <2>4. CASE ReadManuals
    <3> DEFINE read == {d \in view.waiting : ListedDetail(view, d)}
    <3>1. rows' = [renamed |-> rows.renamed, group |-> rows.group, detail |-> rows.detail,
                   waiting |-> read]
      BY <1>0, <2>4 DEF ReadManuals, Seen
    <3>2. read \in SUBSET Details
      BY <1>0, ListedRows
    <3>4. view' = view /\ poll' = "answer" /\ poll = "manuals"
      BY <2>4 DEF ReadManuals
    <3>5. ReadSoFar'
      BY <1>0, <3>1, <3>4 DEF ReadSoFar, ListedGroups, ListedDetails
    <3> HIDE DEF read
    <3>6. rows' \in Rows(DOMAIN rows'.group, DOMAIN rows'.detail)
      BY <1>0, <3>1, <3>2 DEF Rows, Lists
    <3>7. QED
      BY <1>0, <2>0, <2>4, <3>1, <3>4, <3>5, <3>6, ReadingStands DEF ReadManuals
  <2>5. CASE EndPoll
    <3>1. /\ TakenAsListed' /\ RefusedForCause'
          /\ current' \in Snapshots(DOMAIN current'.group, DOMAIN current'.detail)
          /\ DOMAIN current'.group \subseteq Groups /\ DOMAIN current'.detail \subseteq Details
      BY <2>5, EndPollDecides
    <3>2. /\ UNCHANGED <<tables, view, rows, edits>> /\ poll' = "idle"
          /\ outcome' \in {"inconsistent", "unserialisable", "invalid", "restored", "taken"}
      BY <2>5 DEF EndPoll
    <3>3. ReadSoFar'
      BY <3>2 DEF ReadSoFar
    <3>4. TypeOK'
      BY <1>0, <3>1, <3>2 DEF TypeOK
    <3>5. QED
      BY <2>0, <3>1, <3>3, <3>4 DEF ContractInv
  <2>6. QED
    BY <1>2, <2>1, <2>2, <2>3, <2>4, <2>5 DEF Poll
<1>3. CASE UNCHANGED vars
  <2>1. UNCHANGED <<tables, view, poll, rows, current, outcome, edits>>
    BY <1>3 DEF vars
  <2>2. PollInv'
    BY <1>0, <2>1 DEF PollInv, Pairing, RowsAreRecord, RowsHaveTasks, NeverInconsistent
  <2>3. QED
    BY <1>0, <2>1, <2>2, ContractStands DEF TypeOK
<1>4. QED
  BY <1>1, <1>2, <1>3 DEF Next

\* Nothing has been read and nothing taken.
LEMMA ContractBegins == Init => ContractInv
<1> SUFFICES ASSUME Init PROVE ContractInv
  OBVIOUS
<1>1. /\ tables = Stored /\ view = Stored /\ poll = "idle" /\ rows = NothingListed
      /\ current = NothingListed /\ outcome = "none" /\ edits = 0
  BY DEF Init
<1>2. PollInv
  BY <1>1, ContractAssumption DEF PollInv, Pairing, RowsAreRecord, RowsHaveTasks,
     NeverInconsistent, NothingListed
<1>3. DOMAIN NothingListed.group = {} /\ DOMAIN NothingListed.detail = {}
  BY DEF NothingListed
<1>4. /\ NothingListed \in Rows({}, {}) /\ NothingListed \in Snapshots({}, {})
  BY DEF NothingListed, Rows, Snapshots, Lists
<1>5. TypeOK
  BY <1>1, <1>3, <1>4, ContractAssumption DEF TypeOK
<1>6. ReadSoFar /\ TakenAsListed /\ RefusedForCause
  BY <1>1 DEF ReadSoFar, TakenAsListed, RefusedForCause
<1>7. QED
  BY <1>2, <1>5, <1>6 DEF ContractInv

\* The invariant of the specification.
LEMMA ContractHolds == Spec => []ContractInv
<1>1. Init => ContractInv
  BY ContractBegins
<1>2. ContractInv /\ [Next]_vars => ContractInv'
  BY ContractKept
<1>3. QED
  BY <1>1, <1>2, PTL DEF Spec

(***************************************************************************)
(* The tables hold rows of the forms, and what is read and taken is made   *)
(* of them (schedule.py, tasks.py, agent_runtime.py, runtime_service.py).  *)
(***************************************************************************)
THEOREM SnapshotTypeOK == Spec => []TypeOK
<1>1. ContractInv => TypeOK
  BY DEF ContractInv
<1>2. QED
  BY <1>1, ContractHolds, PTL

(***************************************************************************)
(* A snapshot that the agent takes lists the groups, details, tasks and    *)
(* waiting runs of the one moment when the poll began, with the details of *)
(* a group ranked 1, 2, ... by their distinct sequences (the three queries *)
(* of agent_runtime.py in one transaction, the loop of                     *)
(* runtime_service.py).                                                    *)
(***************************************************************************)
THEOREM SnapshotTakenAsListed == Spec => []TakenAsListed
<1>1. ContractInv => TakenAsListed
  BY DEF ContractInv
<1>2. QED
  BY <1>1, ContractHolds, PTL

(***************************************************************************)
(* Of the polls that are answered, one takes its snapshot if and only if   *)
(* the device has kept its name, every listed group and detail has a name, *)
(* no number is below 0, every task is complete and every expression is    *)
(* one both the agent and the scheduler take: nothing else in their checks *)
(* refuses one (sync_coordinator.py validate_snapshot, models.py,          *)
(* schemas/agent_runtime.py, scheduler_adapter.py).                        *)
(***************************************************************************)
THEOREM SnapshotRefusedForCause == Spec => []RefusedForCause
<1>1. ContractInv => RefusedForCause
  BY DEF ContractInv
<1>2. QED
  BY <1>1, ContractHolds, PTL
=============================================================================
