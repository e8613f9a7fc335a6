---------------------------- MODULE MCOffloading -----------------------------
(* Instances of OffloadingConnector for TLC: prompt lengths and priorities.  *)
EXTENDS OffloadingConnector

Prompts == [r \in Requests |-> 2]

SamePriority == [r \in Requests |-> 0]

=============================================================================
