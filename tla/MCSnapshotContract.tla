------------------------- MODULE MCSnapshotContract -------------------------
(***************************************************************************)
(* Instance of SnapshotContract for TLC: the field "minute", a group with  *)
(* two details, another that is inactive.  A form has at most one fault.   *)
(***************************************************************************)
EXTENDS SnapshotContract

Both == {"agent", "scheduler"}
Cron(first, last, step, known) ==
  [first |-> first, last |-> last, step |-> step, known |-> known]
Group(named, status, mine, cron) ==
  [named |-> named, status |-> status, mine |-> mine, cron |-> cron]

Every5 == Cron(Blank, Blank, 5, Both)               \* "*/5"
At0 == Cron(0, Blank, Blank, Both)                  \* "0"
Zero10 == Cron(0, Blank, 10, Both)                  \* "0/10"
Reversed == Cron(50, 5, Blank, Both)                \* "50-5"
Far == Cron(99, Blank, 9, Both)                     \* "99/9"
Star == Cron(Blank, Blank, Blank, Both)             \* "*"
Question == Cron(Blank, Blank, Blank, {"agent"})    \* "?"
Spaced == Cron(Blank, Blank, 5, {"scheduler"})      \* "*/5 "

TheGroupForms ==
  {Group(TRUE, "active", TRUE, c) :
     c \in {Every5, At0, Zero10, Reversed, Far, Question, Spaced}}
    \cup {Group(FALSE, "active", TRUE, Every5), Group(TRUE, "inactive", TRUE, Every5),
          Group(TRUE, "active", FALSE, Every5)}

Runs ==
  [named |-> TRUE, sequence |-> 5, retries |-> 0, cron |-> Star, status |-> "active",
   type |-> "command", filled |-> {"command"}, days |-> 0]
Copies ==
  [Runs EXCEPT !.sequence = 2, !.type = "copy",
               !.filled = {"command", "source_path", "destination_path"}]
Keeps ==
  [Runs EXCEPT !.type = "housekeep", !.filled = {"destination_path", "house_keep_days"}]

TheTaskForms ==
  {Runs, Copies,
   [Runs EXCEPT !.named = FALSE],
   [Runs EXCEPT !.sequence = -1],
   [Runs EXCEPT !.retries = -1],
   [Runs EXCEPT !.cron = Zero10],
   [Runs EXCEPT !.status = "inactive"],
   [Runs EXCEPT !.type = "none"],
   [Runs EXCEPT !.filled = {"source_path"}],
   [Runs EXCEPT !.type = "archive", !.filled = {"source_path", "destination_path"}],
   [Keeps EXCEPT !.days = -1]}

TheStored ==
  [renamed |-> FALSE,
   group |-> [g \in Groups |->
                Group(TRUE, IF g = 1 THEN "active" ELSE "inactive", TRUE, Every5)],
   detail |-> [d \in Details |->
                 IF d = 3 THEN NoRow ELSE DetailRow(1, IF d = 1 THEN Runs ELSE Copies)],
   task |-> [d \in Details |-> IF d = 3 THEN NoRow ELSE TaskRow(IF d = 1 THEN Runs ELSE Copies)],
   waiting |-> {}]
=============================================================================
