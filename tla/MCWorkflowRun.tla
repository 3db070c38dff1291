---------------------------- MODULE MCWorkflowRun ----------------------------
(* Model values and graphs for the WorkflowRun run. *)
EXTENDS WorkflowRun

CONSTANTS a, b, c

Three == {a, b, c}
Stores == {b}

\* Every configuration of three steps, self-dependencies and cycles included.
AllGraphs == [Three -> SUBSET Three]

=============================================================================
