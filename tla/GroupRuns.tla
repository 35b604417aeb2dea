----------------------------- MODULE GroupRuns -----------------------------
(***************************************************************************)
(* What a schedule group promises, without its threads, slots, queues and  *)
(* answers: its contexts come one after the other, each runs the details   *)
(* of a sequence only when all earlier ones are acknowledged, and a        *)
(* context that has ended schedules nothing more.                          *)
(***************************************************************************)
EXTENDS Naturals

CONSTANTS
  Details,      \* the details of the group
  SequenceOf,   \* exec_sequence
  Contexts      \* contexts, numbered from 1

VARIABLES
  current,      \* the latest context, 0 if none
  ended,        \* contexts that schedule nothing more
  stage         \* of each detail in each context

runVars == <<current, ended, stage>>

Answered == {"acked", "rejected"}
Settled(c) == \A d \in Details : stage[c][d] \in {"idle"} \cup Answered

Init ==
  /\ current = 0 /\ ended = {}
  /\ stage = [c \in Contexts |-> [d \in Details |-> "idle"]]

Begin ==
  /\ current + 1 \in Contexts
  /\ current > 0 => current \in ended /\ Settled(current)
  /\ current' = current + 1
  /\ UNCHANGED <<ended, stage>>

\* The barrier.
Schedule(d) ==
  /\ current > 0 /\ current \notin ended
  /\ stage[current][d] = "idle"
  /\ \A e \in Details : SequenceOf[e] < SequenceOf[d] => stage[current][e] = "acked"
  /\ stage' = [stage EXCEPT ![current][d] = "scheduled"]
  /\ UNCHANGED <<current, ended>>

\* Scheduling failed: what has not begun is taken back, what has begun goes on.
TakeBack ==
  /\ current > 0 /\ current \notin ended
  /\ stage' = [stage EXCEPT ![current] =
                 [d \in Details |-> IF @[d] = "scheduled" THEN "idle" ELSE @[d]]]
  /\ ended' = ended \cup {current}
  /\ UNCHANGED current

Advance(c, d, from, to) ==
  /\ stage[c][d] = from
  /\ stage' = [stage EXCEPT ![c][d] = to]
  /\ UNCHANGED <<current, ended>>

Run(c, d) ==
  \/ Advance(c, d, "scheduled", "running")
  \/ Advance(c, d, "scheduled", "missed")
  \/ Advance(c, d, "running", "finished")

\* The last answer of a sequence may end the context.
Answer(c, d) ==
  /\ c = current /\ stage[c][d] = "finished"
  /\ \E a \in Answered : stage' = [stage EXCEPT ![c][d] = a]
  /\ ended' = ended \/ (ended' = ended \cup {c} /\ Settled(c)')
  /\ UNCHANGED current

\* The next sequence is not begun.
End ==
  /\ current > 0 /\ Settled(current)
  /\ ended' = ended \cup {current}
  /\ UNCHANGED <<current, stage>>

Next ==
  \/ Begin \/ TakeBack \/ End
  \/ \E d \in Details : Schedule(d)
  \/ \E c \in Contexts, d \in Details : Run(c, d) \/ Answer(c, d)

Spec == Init /\ [][Next]_runVars
=============================================================================
