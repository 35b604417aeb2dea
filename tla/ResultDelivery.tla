--------------------------- MODULE ResultDelivery ---------------------------
(***************************************************************************)
(* What the outbox promises to those on both sides of it, without its      *)
(* queues, threads and timers.  To the server: results of a group come in  *)
(* the order in which they were produced, each until it is settled and     *)
(* none before the earlier ones are.  To the execution side: an answer is  *)
(* handed over only for a result that is settled and let go of.  A result  *)
(* may be sent any number of times, and the agent may give up the one that *)
(* is due, which settles it without the server.                            *)
(***************************************************************************)
EXTENDS Naturals, Sequences

CONSTANTS
  Jobs,        \* detail executions; each has one result
  JobGroup     \* the group of each

VARIABLES
  order,       \* results in the order in which they were produced
  gone,        \* those the agent does not keep any more
  accepted,    \* the server has stored them
  refused,     \* ... or rejected them for good
  dropped,     \* the agent has given them up
  answered     \* the execution side has been told

deliveryVars == <<order, gone, accepted, refused, dropped, answered>>

Init ==
  /\ order = <<>> /\ gone = {}
  /\ accepted = {} /\ refused = {} /\ dropped = {} /\ answered = {}

\* Every earlier result of j's group is gone.
Due(j) ==
  \E k \in DOMAIN order :
    /\ order[k] = j
    /\ \A i \in DOMAIN order : i < k /\ JobGroup[order[i]] = JobGroup[j] => order[i] \in gone

Produce(j) ==
  /\ \A i \in DOMAIN order : order[i] # j
  /\ order' = Append(order, j)
  /\ UNCHANGED <<gone, accepted, refused, dropped, answered>>

Accept(j) ==
  /\ Due(j)
  /\ accepted' = accepted \cup {j}
  /\ UNCHANGED <<order, gone, refused, dropped, answered>>

Refuse(j) ==
  /\ Due(j)
  /\ refused' = refused \cup {j}
  /\ UNCHANGED <<order, gone, accepted, dropped, answered>>

GiveUp(j) ==
  /\ Due(j)
  /\ dropped' = dropped \cup {j}
  /\ UNCHANGED <<order, gone, accepted, refused, answered>>

LetGo(j) ==
  /\ Due(j) /\ j \in accepted \cup refused \cup dropped
  /\ gone' = gone \cup {j}
  /\ UNCHANGED <<order, accepted, refused, dropped, answered>>

Answer(j) ==
  /\ j \in gone
  /\ answered' = answered \cup {j}
  /\ UNCHANGED <<order, gone, accepted, refused, dropped>>

Next == \E j \in Jobs : \/ Produce(j) \/ Accept(j) \/ Refuse(j) \/ GiveUp(j)
                       \/ LetGo(j) \/ Answer(j)

Spec == Init /\ [][Next]_deliveryVars
=============================================================================
