--------------------------- MODULE WorkflowPromise ---------------------------
(***************************************************************************)
(* What a workflow promises: its steps form a dataflow graph.  A step      *)
(* starts once, after everything it depends on is done; the workflow       *)
(* succeeds when all steps are done, and may fail once it has started.     *)
(***************************************************************************)
CONSTANTS Steps, Graphs

VARIABLES deps, started, done, verdict

vars == <<deps, started, done, verdict>>

Init ==
    /\ deps \in Graphs
    /\ started = {}
    /\ done = {}
    /\ verdict = "none"

Start(s) ==
    /\ verdict = "none"
    /\ s \notin started
    /\ deps[s] \subseteq done
    /\ started' = started \cup {s}
    /\ UNCHANGED <<deps, done, verdict>>

Done(s) ==
    /\ verdict = "none"
    /\ s \in started
    /\ s \notin done
    /\ done' = done \cup {s}
    /\ UNCHANGED <<deps, started, verdict>>

Succeed ==
    /\ verdict = "none"
    /\ done = Steps
    /\ verdict' = "ok"
    /\ UNCHANGED <<deps, started, done>>

Fail ==
    /\ verdict = "none"
    /\ started # {}
    /\ verdict' = "failed"
    /\ UNCHANGED <<deps, started, done>>

Next ==
    \/ \E s \in Steps : Start(s) \/ Done(s)
    \/ Succeed
    \/ Fail

Spec == Init /\ [][Next]_vars

=============================================================================
