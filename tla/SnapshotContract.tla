-------------------------- MODULE SnapshotContract --------------------------
(***************************************************************************)
(* What a schedule snapshot contains and when it is taken: the dashboard's *)
(* writes to the device, groups, details, tasks and manual runs            *)
(* (devices.py, schedule.py, tasks.py), those of the agent's results       *)
(* (agent_execution.py), the server's read of the tables                   *)
(* (agent_runtime.py) and the snapshot it makes of them                    *)
(* (runtime_service.py), the agent's checks (sync_coordinator.py,          *)
(* models.py) and the scheduler's own.                                     *)
(*                                                                         *)
(* Nothing between the form and the agent checks a name, a number, a       *)
(* task's required fields or a cron expression, so a snapshot may be       *)
(* refused as a whole for one row.  A transaction that writes is one step; *)
(* the three reads of a poll are three.  Not here: polls that get no       *)
(* answer, 304s and the agent's locks (AgentSync) and a device that is     *)
(* not active.                                                             *)
(***************************************************************************)
EXTENDS Integers, Sequences, FiniteSets

CONSTANTS
  Groups,      \* schedule_id, in the order of the numbers
  Details,     \* detail_id, in the order of their text
  Low, High,   \* the agent's range of the cron field that is modelled
  TriggerHigh, \* the scheduler's own upper end (6 for day_of_week, where High is 7)
  GroupForms,  \* what the operator may enter for a group (mine: for this device)
  TaskForms,   \* ... and for a task
  Stored,      \* the tables at the start
  NoRow,       \* a row that does not exist
  MaxEdits     \* bound: how many writes happen

Blank == -1    \* a number an expression does not have

Fields == {"command", "archive_type", "source_path", "destination_path", "house_keep_days"}
Types == {"command", "copy", "archive", "housekeep", "none"}

Statuses == {"active", "inactive", "error", "manual"}

\* "first-last/step", "first/step", "*/step", "first" and so on, and who knows
\* all of its words and signs: of "?" only the agent, of "last" the scheduler.
Numbers == 0 .. 9999 \cup {Blank}
Crons == {c \in [first : Numbers, last : Numbers, step : Numbers,
                 known : SUBSET {"agent", "scheduler"}] :
            c.first = Blank => c.last = Blank}

GroupRows == [named : BOOLEAN, status : Statuses, mine : BOOLEAN, cron : Crons]
DetailRows == [group : Groups, named : BOOLEAN, sequence : Int, retries : Int, cron : Crons,
               status : Statuses, deleted : BOOLEAN]
TaskRows == [type : Types, filled : SUBSET Fields, days : Int]
Tables == [renamed : BOOLEAN,
           group : [Groups -> GroupRows \cup {NoRow}],
           detail : [Details -> DetailRows \cup {NoRow}],
           task : [Details -> TaskRows \cup {NoRow}],
           waiting : SUBSET Details]

\* Every detail that is there has its task.
Paired(t) ==
  \A d \in Details : t.detail[d] = NoRow \/ t.detail[d].deleted \/ t.task[d] # NoRow

ASSUME ContractAssumption ==
  /\ Groups \subseteq Nat /\ IsFiniteSet(Groups)
  /\ Details \subseteq Nat /\ IsFiniteSet(Details)
  /\ Low \in Nat /\ High \in 0 .. 9999 /\ TriggerHigh \in Low .. High
  /\ GroupForms \subseteq GroupRows
  /\ TaskForms \subseteq [named : BOOLEAN, sequence : Int, retries : Int, cron : Crons,
                          status : Statuses, type : Types, filled : SUBSET Fields, days : Int]
  /\ NoRow \notin GroupRows \cup TaskRows \cup DetailRows
  /\ Stored \in Tables /\ Paired(Stored)
  /\ MaxEdits \in Nat

VARIABLES
  tables,   \* schedule_group, schedule_detail, task_detail, the details with a
            \* manual run that waits or runs, and whether the device has another
            \* name than the agent was enrolled with
  view,     \* the read view of the poll's transaction
  poll,     \* how far the poll has come
  rows,     \* what it has read
  current,  \* the agent's current snapshot
  outcome,  \* how the last poll has ended
  edits     \* history: how many writes have happened

vars == <<tables, view, poll, rows, current, outcome, edits>>

\* What a poll has read, and what a snapshot lists.
Joined == [detail : DetailRows, task : TaskRows \cup {NoRow}]
Headings == [named : BOOLEAN, cron : Crons]
Entries == [group : Groups, named : BOOLEAN, sequence : Int, exec : Nat, retries : Int,
            cron : Crons, type : Types, filled : SUBSET Fields, days : Int]
Lists(G, D, E) ==
  [renamed : BOOLEAN, group : [G -> Headings], detail : [D -> E], waiting : SUBSET Details]
Rows(G, D) == Lists(G, D, Joined)
Snapshots(G, D) == Lists(G, D, Entries)

TypeOK ==
  /\ tables \in Tables /\ view \in Tables
  /\ poll \in {"idle", "groups", "details", "manuals", "answer"}
  /\ rows \in Rows(DOMAIN rows.group, DOMAIN rows.detail)
  /\ current \in Snapshots(DOMAIN current.group, DOMAIN current.detail)
  /\ DOMAIN rows.group \cup DOMAIN current.group \subseteq Groups
  /\ DOMAIN rows.detail \cup DOMAIN current.detail \subseteq Details
  /\ outcome \in {"none", "taken", "inconsistent", "unserialisable", "invalid", "restored"}
  /\ edits \in 0 .. MaxEdits

NothingListed == [renamed |-> FALSE, group |-> <<>>, detail |-> <<>>, waiting |-> {}]

Init ==
  /\ tables = Stored /\ view = Stored
  /\ poll = "idle" /\ rows = NothingListed
  /\ current = NothingListed
  /\ outcome = "none"
  /\ edits = 0

-----------------------------------------------------------------------------
(* The dashboard *)

Forbidden(type) ==
  CASE type = "command" -> {"archive_type", "source_path", "destination_path", "house_keep_days"}
    [] type = "copy" -> {"command", "archive_type", "house_keep_days"}
    [] type = "archive" -> {"command", "house_keep_days"}
    [] type = "housekeep" -> {"command", "archive_type", "source_path"}
    [] OTHER -> {}

\* The fields a row has; those that do not belong to the type are cleared.
Normalized(type, filled) == filled \ Forbidden(type)

\* An archive without "zip" is answered 422.
Accepted(f) == f.type = "archive" => "archive_type" \in f.filled

DetailRow(g, f) ==
  [group |-> g, named |-> f.named, sequence |-> f.sequence, retries |-> f.retries,
   cron |-> f.cron, status |-> f.status, deleted |-> FALSE]
TaskRow(f) == [type |-> f.type, filled |-> Normalized(f.type, f.filled), days |-> f.days]

Edit == edits < MaxEdits /\ edits' = edits + 1
AgentUnchanged == UNCHANGED <<view, poll, rows, current, outcome>>

\* Mutant: the two rows are committed one after the other.
InsertTask_TwoCommits(d, g, f) ==
  /\ Accepted(f)
  /\ \/ /\ tables.detail[d] = NoRow
        /\ tables' = [tables EXCEPT !.detail[d] = DetailRow(g, f)]
     \/ /\ tables.detail[d] # NoRow /\ tables.task[d] = NoRow
        /\ tables' = [tables EXCEPT !.task[d] = TaskRow(f)]
  /\ Edit /\ AgentUnchanged

\* Nobody checks that the group exists, or what the task needs.
InsertTask(d, g, f) ==
  /\ tables.detail[d] = NoRow
  /\ Accepted(f)
  /\ tables' = [tables EXCEPT !.detail[d] = DetailRow(g, f), !.task[d] = TaskRow(f)]
  /\ Edit /\ AgentUnchanged

Present(d) == tables.detail[d] # NoRow /\ ~tables.detail[d].deleted

\* Of a removed detail the statements find no row.
UpdateTask(d, g, f) ==
  /\ Present(d)
  /\ Accepted(f)
  /\ tables' = [tables EXCEPT !.detail[d] = DetailRow(g, f), !.task[d] = TaskRow(f)]
  /\ Edit /\ AgentUnchanged

\* The task is deleted, the detail only marked.
RemoveTask(d) ==
  /\ Present(d)
  /\ tables' = [tables EXCEPT !.task[d] = NoRow, !.detail[d].deleted = TRUE]
  /\ Edit /\ AgentUnchanged

InsertSchedule(g, f) ==
  /\ tables.group[g] = NoRow
  /\ tables' = [tables EXCEPT !.group[g] = f]
  /\ Edit /\ AgentUnchanged

UpdateSchedule(g, f) ==
  /\ tables.group[g] # NoRow
  /\ tables' = [tables EXCEPT !.group[g] = f]
  /\ Edit /\ AgentUnchanged

\* Mutant: the row is only marked, as that of a removed detail is.
RemoveSchedule_Marks(g) ==
  /\ tables.group[g] # NoRow
  /\ tables' = [tables EXCEPT !.group[g].status = "removed"]
  /\ Edit /\ AgentUnchanged

\* The details stay where they are.
RemoveSchedule(g) ==
  /\ tables.group[g] # NoRow
  /\ tables' = [tables EXCEPT !.group[g] = NoRow]
  /\ Edit /\ AgentUnchanged

MayRun(d) ==
  /\ Present(d)
  /\ tables.detail[d].status # "inactive"
  /\ tables.group[tables.detail[d].group] # NoRow
  /\ tables.group[tables.detail[d].group].status # "inactive"

\* insert_manual_task for one detail, insert_manual_schedule for those of a group.
\* The form always has a date for them.
InsertManual(D) ==
  /\ \E d \in D : MayRun(d)
  /\ tables' = [tables EXCEPT !.waiting = @ \cup {d \in D : MayRun(d)}]
  /\ Edit /\ AgentUnchanged

\* The name in the agent's credential file stays the one of its enrollment.
RenameDevice(other) ==
  /\ tables' = [tables EXCEPT !.renamed = other]
  /\ Edit /\ AgentUnchanged

Dashboard ==
  \/ \E d \in Details, g \in Groups, f \in TaskForms : InsertTask(d, g, f) \/ UpdateTask(d, g, f)
  \/ \E d \in Details : RemoveTask(d) \/ InsertManual({d})
  \/ \E g \in Groups, f \in GroupForms : InsertSchedule(g, f) \/ UpdateSchedule(g, f)
  \/ \E g \in Groups : \/ RemoveSchedule(g)
                       \/ InsertManual({d \in Details : Present(d) /\ tables.detail[d].group = g})
  \/ \E other \in BOOLEAN : RenameDevice(other)

-----------------------------------------------------------------------------
(* The agent's results *)

\* A failed scheduled run stops its group or its detail.
ErrorStop(d) ==
  /\ tables.detail[d] # NoRow
  /\ LET g == tables.detail[d].group
     IN /\ tables.group[g] # NoRow /\ tables.group[g].mine
        /\ \/ tables' = [tables EXCEPT !.group[g].status = "error"]
           \/ tables' = [tables EXCEPT !.detail[d].status = "error"]
  /\ Edit /\ AgentUnchanged

\* The last of the detail's manual runs is done, failed or abandoned.
EndManual(d) ==
  /\ d \in tables.waiting
  /\ tables' = [tables EXCEPT !.waiting = @ \ {d}]
  /\ Edit /\ AgentUnchanged

Results == \E d \in Details : ErrorStop(d) \/ EndManual(d)

-----------------------------------------------------------------------------
(* The server's read of the tables *)

Listed(t, g) == t.group[g] # NoRow /\ t.group[g].mine /\ t.group[g].status = "active"

\* The joins both other queries are made of.
ListedDetail(t, d) ==
  /\ t.detail[d] # NoRow
  /\ t.detail[d].status = "active" /\ ~t.detail[d].deleted
  /\ Listed(t, t.detail[d].group)

\* Mutant: each statement sees what has been committed by then.
Seen_Committed == tables

\* The consistent snapshot the transaction has begun with.
Seen == view

BeginPoll ==
  /\ poll = "idle"
  /\ poll' = "groups" /\ view' = tables
  /\ UNCHANGED <<tables, rows, current, outcome, edits>>

Heading(row) == [named |-> row.named, cron |-> row.cron]

\* The device and its groups.
ReadGroups ==
  /\ poll = "groups"
  /\ poll' = "details"
  /\ rows' = [rows EXCEPT !.renamed = Seen.renamed,
                          !.group = [g \in {g \in Groups : Listed(Seen, g)} |->
                                       Heading(Seen.group[g])]]
  /\ UNCHANGED <<tables, view, current, outcome, edits>>

ReadDetails ==
  /\ poll = "details"
  /\ poll' = "manuals"
  /\ rows' = [rows EXCEPT !.detail =
                 [d \in {d \in Details : ListedDetail(Seen, d)} |->
                    [detail |-> Seen.detail[d], task |-> Seen.task[d]]]]
  /\ UNCHANGED <<tables, view, current, outcome, edits>>

ReadManuals ==
  /\ poll = "manuals"
  /\ poll' = "answer"
  /\ rows' = [rows EXCEPT !.waiting = {d \in Seen.waiting : ListedDetail(Seen, d)}]
  /\ UNCHANGED <<tables, view, current, outcome, edits>>

-----------------------------------------------------------------------------
(* The snapshot made of the rows *)

\* A detail whose group was not read is passed over.
Kept == {d \in DOMAIN rows.detail : rows.detail[d].detail.group \in DOMAIN rows.group}

\* Some detail has no task: the request fails as a whole.
Inconsistent == \E d \in Kept : rows.detail[d].task = NoRow

\* By group, sequence and the text of the id.
Before(d, e) ==
  LET x == rows.detail[d].detail
      y == rows.detail[e].detail
  IN \/ x.group < y.group
     \/ x.group = y.group /\ x.sequence < y.sequence
     \/ x.group = y.group /\ x.sequence = y.sequence /\ d < e

Sorted ==
  CHOOSE order \in [1 .. Cardinality(Kept) -> Kept] :
    \A i, j \in DOMAIN order : i < j => Before(order[i], order[j])

\* Mutant: every row of a group counts, whatever its sequence.
DenseRank_PerRow(order) ==
  LET row(i) == rows.detail[order[i]].detail
      rank[i \in 1 .. Len(order)] ==
        IF i = 1 \/ row(i).group # row(i - 1).group THEN 1 ELSE rank[i - 1] + 1
  IN rank

\* The loop over the sorted rows: a group begins with 1, and a sequence that
\* differs from the one before it is one more.
DenseRank(order) ==
  LET row(i) == rows.detail[order[i]].detail
      rank[i \in 1 .. Len(order)] ==
        IF i = 1 \/ row(i).group # row(i - 1).group THEN 1
        ELSE rank[i - 1] + (IF row(i).sequence = row(i - 1).sequence THEN 0 ELSE 1)
  IN rank

Answer ==
  LET order == Sorted
      rank == DenseRank(order)
      place(d) == CHOOSE i \in 1 .. Len(order) : order[i] = d
      entry(d) ==
        LET row == rows.detail[d]
        IN [group |-> row.detail.group, named |-> row.detail.named,
            sequence |-> row.detail.sequence, exec |-> rank[place(d)],
            retries |-> row.detail.retries, cron |-> row.detail.cron, type |-> row.task.type,
            filled |-> Normalized(row.task.type, row.task.filled), days |-> row.task.days]
  IN [renamed |-> rows.renamed, group |-> rows.group,
      detail |-> [d \in Kept |-> entry(d)], waiting |-> rows.waiting]

\* The response model has no value for a task without a type.
Unserialisable == \E d \in Kept : rows.detail[d].task.type = "none"

-----------------------------------------------------------------------------
(* The agent's checks *)

Ten(n) == IF n < 10 THEN 10 ELSE IF n < 100 THEN 100 ELSE IF n < 1000 THEN 1000 ELSE 10000

\* The text of the number s ends with that of n.
EndsWith(s, n) == n <= s /\ s % Ten(n) = n

\* A number that the expression ends with is taken for its step, if it has one.
NumberOK(c, n) ==
  n = Blank \/ (IF c.step # Blank /\ EndsWith(c.step, n) THEN n >= 1 ELSE n \in Low .. High)

CronParses(c) ==
  "agent" \in c.known /\ NumberOK(c, c.first) /\ NumberOK(c, c.last) /\ NumberOK(c, c.step)

Required(type) ==
  CASE type = "command" -> {"command"}
    [] type = "copy" -> {"source_path", "destination_path"}
    [] type = "archive" -> {"archive_type", "source_path", "destination_path"}
    [] type = "housekeep" -> {"destination_path", "house_keep_days"}

TaskOK(type, filled) ==
  /\ type # "none"
  /\ Required(type) \subseteq filled
  /\ filled \cap Forbidden(type) = {}

\* The numbers of a detail; the days count where they are given.
NumbersOK(x) ==
  /\ x.sequence >= 0 /\ x.exec >= 1 /\ x.retries >= 0
  /\ "house_keep_days" \in x.filled => x.days >= 0

\* validate_snapshot: the whole snapshot or nothing of it.  Of a detail's own
\* expression no trigger is made, yet it is checked.
Valid(s) ==
  /\ ~s.renamed
  /\ \A g \in DOMAIN s.group : s.group[g].named /\ CronParses(s.group[g].cron)
  /\ \A d \in DOMAIN s.detail :
       LET x == s.detail[d]
       IN x.named /\ NumbersOK(x) /\ CronParses(x.cron) /\ TaskOK(x.type, x.filled)
  /\ \A d, e \in DOMAIN s.detail :
       LET x == s.detail[d]
           y == s.detail[e]
       IN x.group = y.group /\ x.sequence < y.sequence => x.exec <= y.exec
  /\ s.waiting \subseteq DOMAIN s.detail

\* The scheduler makes a trigger of the expression, or raises.
TriggerAccepts(c) ==
  /\ "scheduler" \in c.known
  /\ c.step # 0
  /\ c.first # Blank => c.first >= Low
  /\ c.last # Blank => c.first <= c.last /\ c.last <= TriggerHigh
  /\ c.first # Blank /\ c.last = Blank /\ c.step = Blank => c.first <= TriggerHigh
  /\ c.step # Blank =>
       c.step <= (IF c.last \in {Blank, 0} THEN TriggerHigh ELSE c.last)
                 - (IF c.first = Blank THEN Low ELSE c.first)

\* An answer whose jobs cannot be added is undone, and one that is refused has
\* touched nothing.
EndPoll ==
  /\ poll = "answer"
  /\ poll' = "idle"
  /\ outcome' = IF Inconsistent THEN "inconsistent"
                ELSE IF Unserialisable THEN "unserialisable"
                ELSE IF ~Valid(Answer) THEN "invalid"
                ELSE IF \E g \in DOMAIN Answer.group : ~TriggerAccepts(Answer.group[g].cron)
                     THEN "restored"
                ELSE "taken"
  /\ current' = IF outcome' = "taken" THEN Answer ELSE current
  /\ UNCHANGED <<tables, view, rows, edits>>

Poll == BeginPoll \/ ReadGroups \/ ReadDetails \/ ReadManuals \/ EndPoll

Next == Dashboard \/ Results \/ Poll
Spec == Init /\ [][Next]_vars

-----------------------------------------------------------------------------
(***************************************************************************)
(* No poll is answered "Snapshot source data is inconsistent": whatever    *)
(* is written between and during its reads, a listed detail has its task.  *)
(***************************************************************************)
NeverInconsistent == outcome # "inconsistent"

\* The distinct sequences of d's group up to its own.
Rank(t, d) ==
  Cardinality({t.detail[e].sequence : e \in
    {e \in Details : /\ ListedDetail(t, e) /\ t.detail[e].group = t.detail[d].group
                     /\ t.detail[e].sequence <= t.detail[d].sequence}})

(***************************************************************************)
(* A snapshot that is taken lists what the tables held at one moment, when *)
(* the poll began: its groups, details, tasks and waiting runs, with the   *)
(* details of a group ranked 1, 2, ... by their distinct sequences, equal  *)
(* ones together.  Of a task it has the fields of the task's type.         *)
(***************************************************************************)
TakenAsListed ==
  poll = "idle" /\ outcome = "taken" =>
    /\ DOMAIN current.group = {g \in Groups : Listed(view, g)}
    /\ \A g \in DOMAIN current.group : current.group[g].cron = view.group[g].cron
    /\ DOMAIN current.detail = {d \in Details : ListedDetail(view, d)}
    /\ \A d \in DOMAIN current.detail :
         /\ current.detail[d].group = view.detail[d].group
         /\ current.detail[d].type = view.task[d].type
         /\ current.detail[d].filled = Normalized(view.task[d].type, view.task[d].filled)
         /\ current.detail[d].exec = Rank(view, d)
    /\ current.waiting = {d \in view.waiting : ListedDetail(view, d)}

\* A bound of 0 that the text of the step ends with: "0/10".
ZeroStep(c) == c.step # Blank /\ c.step % 10 = 0 /\ 0 \in {c.first, c.last}

\* A group and a detail without a fault.
GroupComplete(t, g) ==
  LET c == t.group[g].cron
  IN t.group[g].named /\ TriggerAccepts(c) /\ "agent" \in c.known /\ ~ZeroStep(c)

Complete(t, d) ==
  /\ t.detail[d].named /\ t.detail[d].sequence >= 0 /\ t.detail[d].retries >= 0
  /\ CronParses(t.detail[d].cron)
  /\ t.task[d].type # "none" /\ Required(t.task[d].type) \subseteq t.task[d].filled
  /\ t.task[d].type = "housekeep" => t.task[d].days >= 0

(***************************************************************************)
(* A poll that is answered ends without its snapshot being taken only for  *)
(* a cause in the tables: a device with another name, a group or a detail  *)
(* without a name, a number below 0, an incomplete task, an expression     *)
(* that the scheduler refuses or whose words the agent does not know, or   *)
(* the one kind of good expression that the agent takes for a step of 0.   *)
(* Neither the order of reads and writes nor the ranks nor the waiting     *)
(* runs refuse one.                                                        *)
(***************************************************************************)
RefusedForCause ==
  poll = "idle" /\ outcome # "none" =>
    (outcome = "taken" <=>
       /\ ~view.renamed
       /\ \A d \in Details : ListedDetail(view, d) => Complete(view, d)
       /\ \A g \in Groups : Listed(view, g) => GroupComplete(view, g))
=============================================================================
