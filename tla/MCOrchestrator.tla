--------------------------- MODULE MCOrchestrator ---------------------------
(* Values for the composed system: runners are numbered by role. *)
EXTENDS OrchestratorProperties

\* Executors 101 and 102 belong to user 1, any other to user 2.
UserOfExecutor == [p \in Executors |-> IF p \in {101, 102} THEN 1 ELSE 2]
=============================================================================
