--------------------------- MODULE MCOwesWorkflows ---------------------------
(* Instances of OwesWorkflows for TLC.                                     *)
EXTENDS OwesWorkflows, TLC

CONSTANTS n1, n2

Window == [n \in Networks |-> 1]

File == [n \in Networks |-> [start |-> 1, end |-> 1, markets |-> {1}]]
=============================================================================
