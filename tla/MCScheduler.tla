----------------------------- MODULE MCScheduler -----------------------------
(* Instances of Scheduler for TLC: prompt lengths and priorities.           *)
EXTENDS Scheduler

\* One prompt is a token longer than the others.
Prompts == [r \in Requests |-> IF r = 1 THEN 3 ELSE 2]

\* The first prompt takes several prefill steps, the others one or two.
LongShort == [r \in Requests |-> CASE r = 1 -> 6 [] r = 2 -> 1 [] OTHER -> 2]

SamePriority == [r \in Requests |-> 0]

\* Later requests are more important.
Rising == [r \in Requests |-> 10 - r]

=============================================================================
