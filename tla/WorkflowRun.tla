----------------------------- MODULE WorkflowRun -----------------------------
(***************************************************************************)
(* One workflow endpoint: validate_workflow_is_acyclic of config.rs, which *)
(* admits its steps when the configuration is loaded, and run_workflow of  *)
(* workflow.rs, which runs them for a request.                             *)
(*                                                                         *)
(* The steps whose dependencies are completed are a layer: they are        *)
(* spawned one after the other, each in a task of its own with a snapshot  *)
(* of what is completed, and run on other threads meanwhile; the next      *)
(* layer starts when the whole layer has been joined.  The first error     *)
(* that is not tolerated drops the JoinSet, which cancels its tasks; they  *)
(* are gone some time later, and what they had handed to a database or an  *)
(* HTTP server goes on.                                                    *)
(***************************************************************************)
EXTENDS Naturals, FiniteSets

CONSTANTS
    Steps,      \* the identifiers of the configured steps
    Graphs,     \* the depends_on of each step, as configured
    Remote      \* the steps that are store.query, store.execute or http.request

ASSUME StepsAssumption ==
    /\ IsFiniteSet(Steps)
    /\ Steps # {}
    /\ Graphs \subseteq [Steps -> SUBSET Steps]
    /\ Remote \subseteq Steps

VARIABLES
    deps,       \* depends_on
    tolerant,   \* the steps with continue_on_error
    pc,         \* where the validation, then run_workflow, is
    checked,    \* `completed` of validate_workflow_is_acyclic
    pending,    \* the steps not started
    layer,      \* the JoinSet: the steps started and not joined
    work,       \* what became of each step
    completed,  \* the outputs of the joined steps: their keys
    seen        \* the snapshot each step was started with

vars == <<deps, tolerant, pc, checked, pending, layer, work, completed, seen>>
config == <<deps, tolerant, checked>>

Validation == {"validating", "rejected"}
Over == {"answered", "failed", "cycle", "dropped"}

\* cancelled: told to stop, but perhaps still in the middle of a poll; detached: gone,
\* while the other side works on what it was handed; landed: it took effect there.
Work == {"unstarted", "working", "succeeded", "errored", "panicked",
         "cancelled", "aborted", "detached", "landed"}

TypeOK ==
    /\ deps \in [Steps -> SUBSET Steps]
    /\ tolerant \subseteq Steps
    /\ pc \in Validation \cup Over \cup {"loaded", "scheduling", "spawning", "joining"}
    /\ checked \subseteq Steps
    /\ pending \subseteq Steps
    /\ layer \subseteq Steps
    /\ work \in [Steps -> Work]
    /\ completed \subseteq Steps
    /\ seen \in [Steps -> SUBSET Steps]

Init ==
    /\ deps \in Graphs
    /\ tolerant \in SUBSET Steps
    /\ pc = "validating"
    /\ checked = {}
    /\ pending = Steps
    /\ layer = {}
    /\ work = [s \in Steps |-> "unstarted"]
    /\ completed = {}
    /\ seen = [s \in Steps |-> {}]

-----------------------------------------------------------------------------
\* Loading the configuration.

\* Mutant of Ready: one completed dependency is enough.
ReadyOnAny(todo, done) ==
    {s \in todo : deps[s] = {} \/ deps[s] \cap done # {}}

\* The members of todo whose dependencies are all done.
Ready(todo, done) == {s \in todo : deps[s] \subseteq done}

\* Mutant of Validate: a first layer is enough.
ValidateOnce ==
    /\ pc = "validating"
    /\ pc' = IF Ready(Steps, {}) = {} THEN "rejected" ELSE "loaded"
    /\ checked' = Steps
    /\ UNCHANGED <<deps, tolerant, pending, layer, work, completed, seen>>

\* One round of the loop of validate_workflow_is_acyclic.
Validate ==
    /\ pc = "validating"
    /\ LET todo == Steps \ checked IN
       IF todo = {}
       THEN pc' = "loaded" /\ UNCHANGED checked
       ELSE IF Ready(todo, checked) = {}
       THEN pc' = "rejected" /\ UNCHANGED checked
       ELSE checked' = checked \cup Ready(todo, checked) /\ UNCHANGED pc
    /\ UNCHANGED <<deps, tolerant, pending, layer, work, completed, seen>>

-----------------------------------------------------------------------------
\* A request.

Call ==
    /\ pc = "loaded"
    /\ pc' = "scheduling"
    /\ UNCHANGED <<config, pending, layer, work, completed, seen>>

\* A step of the layer is spawned with a clone of what is completed.  The others follow,
\* in the order of their identifiers, whatever becomes of it meanwhile.
Spawn(s) ==
    /\ pc \in {"scheduling", "spawning"}
    /\ s \in Ready(pending, completed)
    /\ pending' = pending \ {s}
    /\ layer' = layer \cup {s}
    /\ work' = [work EXCEPT ![s] = "working"]
    /\ seen' = [seen EXCEPT ![s] = completed]
    /\ pc' = IF Ready(pending, completed) = {s} THEN "joining" ELSE "spawning"
    /\ UNCHANGED <<config, completed>>

\* Steps are left and none is ready: the error the validation should prevent.
FindCycle ==
    /\ pc = "scheduling"
    /\ pending # {}
    /\ Ready(pending, completed) = {}
    /\ pc' = "cycle"
    /\ UNCHANGED <<config, pending, layer, work, completed, seen>>

\* One round of the loop of run_workflow.
Schedule ==
    IF pending # {} /\ Ready(pending, completed) = {} THEN FindCycle ELSE \E s \in Steps : Spawn(s)

\* No step is left: the result is rendered, which may fail.
Render ==
    /\ pc = "scheduling"
    /\ pending = {}
    /\ pc' \in {"answered", "failed"}
    /\ UNCHANGED <<config, pending, layer, work, completed, seen>>

\* The task of s comes to its end, with a value, an error or a panic.
StepEnds(s) ==
    /\ work[s] = "working"
    /\ \E end \in {"succeeded", "errored", "panicked"} : work' = [work EXCEPT ![s] = end]
    /\ UNCHANGED <<config, pc, pending, layer, completed, seen>>

\* Mutant of Aborted: the tasks are detached from the JoinSet instead.
KeptWorking == work

\* The JoinSet is dropped: every task still working is told to stop.
Aborted == [s \in Steps |-> IF s \in layer /\ work[s] = "working" THEN "cancelled" ELSE work[s]]

\* Mutant of Usable: any error is continued after.
UsableAlways(s) == work[s] \in {"succeeded", "errored"}

\* s came to a value, or to an error that continue_on_error makes into one.
Usable(s) == work[s] = "succeeded" \/ (work[s] = "errored" /\ s \in tolerant)

\* Mutant of Join: after the last layer, join_next() is awaited once more.
JoinForever(s) ==
    /\ pc = "joining"
    /\ s \in layer
    /\ Usable(s)
    /\ completed' = completed \cup {s}
    /\ layer' = layer \ {s}
    /\ pc' = IF layer = {s} /\ pending # {} THEN "scheduling" ELSE "joining"
    /\ UNCHANGED <<config, pending, work, seen>>

\* Mutant of Join: the next layer does not wait for the whole of this one.
JoinWithoutBarrier(s) ==
    /\ pc = "joining"
    /\ s \in layer
    /\ Usable(s)
    /\ completed' = completed \cup {s}
    /\ layer' = layer \ {s}
    /\ pc' = IF layer = {s} \/ Ready(pending, completed') # {}
             THEN "scheduling"
             ELSE "joining"
    /\ UNCHANGED <<config, pending, work, seen>>

\* join_next() returns s, whose output the later layers will see.
Join(s) ==
    /\ pc = "joining"
    /\ s \in layer
    /\ Usable(s)
    /\ completed' = completed \cup {s}
    /\ layer' = layer \ {s}
    /\ pc' = IF layer = {s} THEN "scheduling" ELSE "joining"
    /\ UNCHANGED <<config, pending, work, seen>>

\* continue_on_error makes nothing of a panic.
Fatal(s) == work[s] = "panicked" \/ (work[s] = "errored" /\ s \notin tolerant)

\* join_next() returns s with an error that ends the workflow.
JoinError(s) ==
    /\ pc = "joining"
    /\ s \in layer
    /\ Fatal(s)
    /\ pc' = "failed"
    /\ layer' = {}
    /\ work' = Aborted
    /\ UNCHANGED <<config, pending, completed, seen>>

\* The deadline passes or the client leaves while steps are working.
Drop ==
    /\ pc = "joining"
    /\ pc' = "dropped"
    /\ layer' = {}
    /\ work' = Aborted
    /\ UNCHANGED <<config, pending, completed, seen>>

\* The task of a cancelled step is gone, unless the poll it was in, perhaps its first,
\* came to its end.
LetGo(s) ==
    /\ work[s] = "cancelled"
    /\ \E end \in {"aborted", "succeeded", "errored", "panicked"}
                     \cup (IF s \in Remote THEN {"detached"} ELSE {}) :
          work' = [work EXCEPT ![s] = end]
    /\ UNCHANGED <<config, pc, pending, layer, completed, seen>>

\* The other side ends what nobody waits for, with or without effect.
Land(s) ==
    /\ work[s] = "detached"
    /\ \E end \in {"landed", "aborted"} : work' = [work EXCEPT ![s] = end]
    /\ UNCHANGED <<config, pc, pending, layer, completed, seen>>

-----------------------------------------------------------------------------
RunWorkflow ==
    \/ Schedule \/ Render
    \/ \E s \in Steps : Join(s) \/ JoinError(s)

Next ==
    \/ Validate \/ Call \/ RunWorkflow \/ Drop
    \/ \E s \in Steps : StepEnds(s) \/ LetGo(s) \/ Land(s)

Spec == Init /\ [][Next]_vars

\* The runtime polls a workflow that can proceed and stops cancelled tasks.  That a
\* step ends is assumed: a task (whose input fits its pipe) and an HTTP request have
\* timeouts, while SQL without a deadline depends on its database.
FairSpec ==
    /\ Spec
    /\ WF_vars(Validate)
    /\ WF_vars(RunWorkflow)
    /\ \A s \in Steps : WF_vars(StepEnds(s)) /\ WF_vars(LetGo(s))

-----------------------------------------------------------------------------
\* No set of steps whose members each depend on another of the set.
Acyclic(d) == \A S \in (SUBSET Steps) \ {{}} : \E s \in S : d[s] \cap S = {}

Started == {s \in Steps : work[s] # "unstarted"}

\* The validation refuses exactly the workflows with a dependency cycle
\* (config.rs:852-882).
RejectsExactlyCycles ==
    /\ pc = "rejected" => ~Acyclic(deps)
    /\ pc \notin Validation => Acyclic(deps)

\* A workflow that passed the validation never meets the cycle error of
\* workflow.rs:62-67: some step is ready as long as one is left.
NeverStuck == pc # "cycle"

\* "A step can see only completed earlier layers": of two steps that ran, one
\* saw the output of the other exactly when it started from a later snapshot,
\* and every step saw the outputs of all its dependencies.
SeesEarlierLayers ==
    \A s \in Started :
        /\ deps[s] \subseteq seen[s]
        /\ \A t \in Started :
              t \in seen[s] <=> seen[t] \subseteq seen[s] /\ seen[t] # seen[s]

\* An answer means that every step ran and succeeded, or failed and was
\* tolerated.
AnswerIsComplete ==
    pc = "answered" =>
        /\ completed = Steps
        /\ \A s \in Steps : work[s] = "succeeded" \/ (work[s] = "errored" /\ s \in tolerant)

\* Nothing works on for a workflow that was answered.  Of one that failed or was dropped
\* every step still working was told to stop, and what goes on after that is in the
\* hands of a database or an HTTP server (workflow.rs:101).
OnlyRemoteOutlive ==
    /\ pc = "answered" => \A s \in Steps : work[s] \in {"succeeded", "errored"}
    /\ pc \in Over => \A s \in Steps : work[s] # "working"
    /\ \A s \in Steps : work[s] \in {"detached", "landed"} => s \in Remote

\* A step starts at most once, and after an error that ends the workflow only steps of
\* the layer in which it happened start (workflow.rs:70-82 spawns them one by one),
\* even while that error waits to be joined.
NoLayerAfterAnError ==
    [][\A s \in Steps : work'[s] = "working" /\ work[s] # "working" =>
          /\ work[s] = "unstarted"
          /\ \A t \in Started : Fatal(t) => seen[t] = seen'[s]]_vars

\* A called workflow is answered or fails, and in the end none of its tasks is left.
EveryWorkflowEnds ==
    pc = "scheduling" ~>
        pc \in Over /\ \A s \in Steps : work[s] \notin {"working", "cancelled"}

\* The workflow runs its steps as a dataflow graph.
Verdict ==
    CASE pc = "answered" -> "ok"
      [] pc \in {"failed", "dropped"} -> "failed"
      [] pc = "cycle" -> "stuck"
      [] OTHER -> "none"

Dataflow == INSTANCE WorkflowPromise WITH
    started <- Steps \ pending, done <- completed, verdict <- Verdict

\* run_workflow implements WorkflowPromise.
RunsAsDataflow == Dataflow!Spec

=============================================================================
