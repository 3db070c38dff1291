-------------------------- MODULE WorkflowRunProofs --------------------------
(***************************************************************************)
(* Proofs about WorkflowRun, for every set of steps and every graph.       *)
(*                                                                         *)
(* The inductive invariant has two halves.  The rounds of the validation   *)
(* keep `checked` free of cycles and closed under dependencies, so that an *)
(* admitted graph is acyclic; and between layers what is not pending is    *)
(* completed, so that the pending steps, a set like any other, have a      *)
(* member that is ready.                                                   *)
(***************************************************************************)
EXTENDS WorkflowRun, FiniteSetTheorems, WellFoundedInduction, TLAPS

\* Checked steps depend on checked steps only, and contain no cycle.
CheckedIsSound ==
    /\ \A s \in checked : deps[s] \subseteq checked
    /\ \A S \in (SUBSET Steps) \ {{}} :
          S \subseteq checked => \E s \in S : deps[s] \cap S = {}

\* What the validation decided.
Decided ==
    /\ pc = "rejected" => checked # Steps /\ Ready(Steps \ checked, checked) = {}
    /\ pc \notin Validation => checked = Steps

\* A step is pending, in the current layer or completed, and not two of them.
Partition ==
    /\ pc \in Validation \cup {"loaded"} => pending = Steps
    /\ pc \notin {"spawning", "joining"} => layer = {}
    /\ pc \notin {"spawning", "joining", "failed", "dropped"} => completed = Steps \ pending
    /\ pc \in {"spawning", "joining"} => layer # {} /\ pending \cup layer \cup completed = Steps
    /\ pc = "spawning" => Ready(pending, completed) # {}
    /\ pc = "answered" => pending = {}
    /\ layer \cap pending = {}
    /\ layer \cap completed = {}
    /\ pending \cap completed = {}

\* Only members of the layer are working, and what is completed is usable.
WorkIsTracked ==
    /\ \A s \in Steps : work[s] = "unstarted" <=> s \in pending
    /\ \A s \in Steps : work[s] = "working" => s \in layer
    /\ \A s \in layer : work[s] \in {"working", "succeeded", "errored", "panicked"}
    /\ \A s \in completed : Usable(s)
    /\ \A s \in Steps : work[s] \in {"detached", "landed"} => s \in Remote

\* Snapshots are of completed steps; those of the layer being spawned, of all of them.
SnapshotsAreCompleted ==
    /\ \A s \in Started : seen[s] \subseteq completed
    /\ pc = "spawning" => \A s \in layer : seen[s] = completed

IInv ==
    /\ TypeOK
    /\ CheckedIsSound
    /\ Decided
    /\ Partition
    /\ WorkIsTracked
    /\ SnapshotsAreCompleted
    /\ SeesEarlierLayers
    /\ pc # "cycle"

-----------------------------------------------------------------------------
\* Between layers an acyclic graph has a ready step.
LEMMA SomeStepIsReady ==
    ASSUME TypeOK, NEW todo \in SUBSET Steps, NEW done, done = Steps \ todo,
           todo # {}, Acyclic(deps)
    PROVE  Ready(todo, done) # {}
<1>1. PICK s \in todo : deps[s] \cap todo = {}
  BY DEF Acyclic
<1>2. deps[s] \subseteq done
  BY <1>1 DEF TypeOK
<1> QED
  BY <1>1, <1>2 DEF Ready

\* A validated graph is acyclic.
LEMMA CheckedIsAcyclic ==
    ASSUME CheckedIsSound, checked = Steps
    PROVE  Acyclic(deps)
<1> QED
  BY DEF CheckedIsSound, Acyclic

\* A graph on which a round finds nothing ready has a cycle among the steps left.
LEMMA StuckIsCyclic ==
    ASSUME TypeOK, checked # Steps, Ready(Steps \ checked, checked) = {}
    PROVE  ~Acyclic(deps)
<1>1. SUFFICES ASSUME Acyclic(deps) PROVE FALSE
  OBVIOUS
<1>2. checked = Steps \ (Steps \ checked) /\ Steps \ checked # {}
  BY DEF TypeOK
<1> QED
  BY <1>1, <1>2, SomeStepIsReady

-----------------------------------------------------------------------------
LEMMA InitEstablishesIInv == Init => IInv
<1> SUFFICES ASSUME Init PROVE IInv
  OBVIOUS
<1>1. TypeOK
  BY StepsAssumption DEF Init, TypeOK, Validation, Over, Work
<1>2. CheckedIsSound
  BY DEF Init, CheckedIsSound
<1>3. Decided /\ Partition
  BY DEF Init, Decided, Partition, Validation
<1>4. WorkIsTracked
  BY DEF Init, WorkIsTracked
<1>5. SnapshotsAreCompleted /\ SeesEarlierLayers /\ pc # "cycle"
  BY DEF Init, SnapshotsAreCompleted, SeesEarlierLayers, Started
<1> QED
  BY <1>1, <1>2, <1>3, <1>4, <1>5 DEF IInv

\* A round of the validation: the ready steps depend on checked ones, so a set
\* that contains some of each has a witness among the checked ones.
LEMMA ValidatePreserves ==
    ASSUME IInv, Validate
    PROVE  IInv'
<1> DEFINE ready == Ready(Steps \ checked, checked)
<1>1. TypeOK'
  BY DEF IInv, TypeOK, Validate, Validation, Ready
<1>2. CheckedIsSound'
  <2>1. CASE UNCHANGED checked
    BY <2>1 DEF IInv, Validate, CheckedIsSound
  <2>2. CASE checked' = checked \cup ready
    <3>1. deps' = deps /\ \A s \in ready : deps[s] \subseteq checked
      BY DEF Validate, Ready
    <3>2. \A s \in checked' : deps'[s] \subseteq checked'
      BY <2>2, <3>1 DEF IInv, CheckedIsSound
    <3>3. ASSUME NEW S \in (SUBSET Steps) \ {{}}, S \subseteq checked'
          PROVE  \E s \in S : deps'[s] \cap S = {}
      <4>1. CASE S \cap checked = {}
        <5>1. PICK s \in S : TRUE
          BY <3>3
        <5>2. s \in ready
          BY <2>2, <3>3, <4>1, <5>1
        <5>3. deps[s] \cap S = {}
          BY <3>1, <4>1, <5>2
        <5> QED
          BY <3>1, <5>1, <5>3
      <4>2. CASE S \cap checked # {}
        <5>1. PICK s \in S \cap checked : deps[s] \cap (S \cap checked) = {}
          BY <4>2 DEF IInv, CheckedIsSound
        <5>2. deps[s] \subseteq checked
          BY <5>1 DEF IInv, CheckedIsSound
        <5>3. deps[s] \cap S = {}
          BY <5>1, <5>2
        <5> QED
          BY <3>1, <5>1, <5>3
      <4> QED
        BY <4>1, <4>2
    <3> QED
      BY <3>2, <3>3 DEF CheckedIsSound
  <2> QED
    BY <2>1, <2>2 DEF Validate
<1>3. Decided'
  <2>1. pc' = "rejected" => /\ checked' = checked /\ deps' = deps
                            /\ Steps \ checked # {} /\ ready = {}
    BY DEF Validate
  <2>2. pc' \notin Validation => checked' = checked /\ Steps \ checked = {}
    BY DEF Validate, Validation
  <2>3. pc' = "rejected" => checked' # Steps /\ Ready(Steps \ checked, checked)' = {}
    BY <2>1 DEF Ready
  <2>4. pc' \notin Validation => checked' = Steps
    BY <2>2 DEF IInv, TypeOK
  <2> QED
    BY <2>3, <2>4 DEF Decided
<1>4. Partition'
  BY DEF IInv, Partition, Validate, Validation
<1>5. WorkIsTracked' /\ SnapshotsAreCompleted' /\ SeesEarlierLayers' /\ pc' # "cycle"
  BY DEF IInv, Validate, WorkIsTracked, Usable, SnapshotsAreCompleted, SeesEarlierLayers, Started
<1> QED
  BY <1>1, <1>2, <1>3, <1>4, <1>5 DEF IInv

\* A step starts from the snapshot of all that started before its layer.
LEMMA SpawnPreserves ==
    ASSUME IInv, NEW s \in Steps, Spawn(s)
    PROVE  IInv'
<1>1. /\ completed' = completed /\ deps' = deps /\ tolerant' = tolerant /\ checked' = checked
      /\ pc \in {"scheduling", "spawning"} /\ pc' \in {"spawning", "joining"}
      /\ layer' = layer \cup {s} /\ pending' = pending \ {s}
      /\ s \in pending /\ deps[s] \subseteq completed
      /\ Ready(pending, completed) # {s} => pc' = "spawning"
      /\ pc' = "spawning" => Ready(pending, completed) # {s} /\ s \in Ready(pending, completed)
  BY DEF Spawn, config, Ready
<1>2. /\ work'[s] = "working" /\ seen'[s] = completed
      /\ \A t \in Steps \ {s} : work'[t] = work[t] /\ seen'[t] = seen[t]
      /\ work' \in [Steps -> Work] /\ seen' \in [Steps -> SUBSET Steps]
  BY DEF Spawn, IInv, TypeOK, Work
<1>3. TypeOK'
  BY <1>1, <1>2 DEF IInv, TypeOK
<1>4. CheckedIsSound' /\ Decided'
  BY <1>1 DEF IInv, CheckedIsSound, Decided, Validation, Ready
<1>5. completed \cup layer = Steps \ pending
  BY <1>1 DEF IInv, TypeOK, Partition
<1>6. Partition'
  <2>1. pc' = "spawning" => Ready(pending, completed)' # {}
    BY <1>1 DEF Ready
  <2>2. /\ layer' # {} /\ pending' \cup layer' \cup completed' = Steps
        /\ layer' \cap pending' = {} /\ layer' \cap completed' = {}
        /\ pending' \cap completed' = {}
    BY <1>1, <1>5 DEF IInv, TypeOK, Partition
  <2> QED
    BY <1>1, <2>1, <2>2 DEF Partition, Validation
<1>7. WorkIsTracked'
  BY <1>1, <1>2 DEF IInv, TypeOK, Partition, WorkIsTracked, Usable
<1>8. /\ Started' = Started \cup {s} /\ Started = completed \cup layer
      /\ s \notin completed /\ s \notin layer
  <2>1. Started = Steps \ pending
    BY DEF IInv, TypeOK, WorkIsTracked, Started
  <2>2. Started' = Started \cup {s}
    BY <1>2 DEF Started
  <2> QED
    BY <1>1, <1>5, <2>1, <2>2
<1>9. \A t \in layer : seen[t] = completed
  BY <1>1 DEF IInv, Partition, SnapshotsAreCompleted
<1>10. SnapshotsAreCompleted'
  BY <1>1, <1>2, <1>8, <1>9 DEF IInv, TypeOK, SnapshotsAreCompleted, Started
<1>11. SeesEarlierLayers'
  <2>1. ASSUME NEW q \in Started' PROVE deps'[q] \subseteq seen'[q]
    BY <1>1, <1>2, <1>8 DEF IInv, TypeOK, SeesEarlierLayers, Started
  <2>2. ASSUME NEW q \in Started', NEW t \in Started'
        PROVE  t \in seen'[q] <=> seen'[t] \subseteq seen'[q] /\ seen'[t] # seen'[q]
    <3>1. q \in Steps /\ t \in Steps
      BY DEF Started
    <3>2. CASE q = s /\ t = s
      BY <1>2, <1>8, <3>2
    <3>3. CASE q = s /\ t \in completed
      <4>1. t \notin seen[t] /\ seen[t] \subseteq completed
        BY <1>8, <3>3 DEF IInv, SeesEarlierLayers, SnapshotsAreCompleted
      <4> QED
        BY <1>2, <1>8, <3>1, <3>3, <4>1
    <3>4. CASE q = s /\ t \in layer
      <4>1. t \notin completed
        BY <3>4 DEF IInv, Partition
      <4> QED
        BY <1>2, <1>8, <1>9, <3>1, <3>4, <4>1
    <3>5. CASE q \in Started /\ t = s
      <4>1. seen[q] \subseteq completed
        BY <3>5 DEF IInv, SnapshotsAreCompleted
      <4> QED
        BY <1>2, <1>8, <3>1, <3>5, <4>1
    <3>6. CASE q \in Started /\ t \in Started
      BY <1>2, <1>8, <3>1, <3>6 DEF IInv, SeesEarlierLayers
    <3> QED
      BY <1>8, <3>2, <3>3, <3>4, <3>5, <3>6
  <2> QED
    BY <2>1, <2>2 DEF SeesEarlierLayers
<1>12. pc' # "cycle"
  BY <1>1
<1> QED
  BY <1>3, <1>4, <1>6, <1>7, <1>10, <1>11, <1>12 DEF IInv

\* The steps that only move the control keep everything else.
LEMMA ControlPreserves ==
    ASSUME IInv, Call \/ Render \/ UNCHANGED vars
    PROVE  IInv'
<1>1. /\ deps' = deps /\ tolerant' = tolerant /\ checked' = checked /\ pending' = pending
      /\ layer' = layer /\ work' = work /\ completed' = completed /\ seen' = seen
  BY DEF Call, Render, config, vars
<1>2. \/ pc = "loaded" /\ pc' = "scheduling"
      \/ pc = "scheduling" /\ pending = {} /\ pc' \in {"answered", "failed"}
      \/ pc' = pc
  BY DEF Call, Render, vars
<1>3. TypeOK'
  BY <1>1, <1>2 DEF IInv, TypeOK, Validation, Over
<1>4. CheckedIsSound' /\ WorkIsTracked' /\ SnapshotsAreCompleted' /\ SeesEarlierLayers'
  BY <1>1, <1>2 DEF IInv, CheckedIsSound, WorkIsTracked, Usable, SnapshotsAreCompleted,
              SeesEarlierLayers, Started
<1>5. Decided' /\ pc' # "cycle"
  BY <1>1, <1>2 DEF IInv, Decided, Validation, Ready
<1>6. Partition'
  BY <1>1, <1>2 DEF IInv, TypeOK, Partition, Validation, Ready
<1> QED
  BY <1>3, <1>4, <1>5, <1>6 DEF IInv

\* The cycle error needs an admitted graph with no ready step.
LEMMA FindCycleIsImpossible ==
    ASSUME IInv
    PROVE  ~FindCycle
<1> SUFFICES ASSUME FindCycle PROVE FALSE
  OBVIOUS
<1>1. /\ pc = "scheduling" /\ pending # {} /\ Ready(pending, completed) = {}
      /\ completed = Steps \ pending /\ checked = Steps /\ pending \subseteq Steps
  BY DEF FindCycle, IInv, TypeOK, Partition, Decided, Validation
<1>2. Acyclic(deps)
  BY <1>1, CheckedIsAcyclic DEF IInv
<1> QED
  BY <1>1, <1>2, SomeStepIsReady DEF IInv

LEMMA JoinPreserves ==
    ASSUME IInv, NEW s \in Steps, Join(s)
    PROVE  IInv'
<1>1. /\ s \in layer /\ pc = "joining" /\ Usable(s)
      /\ completed' = completed \cup {s} /\ layer' = layer \ {s}
      /\ pc' = IF layer = {s} THEN "scheduling" ELSE "joining"
      /\ deps' = deps /\ tolerant' = tolerant /\ checked' = checked
      /\ pending' = pending /\ work' = work /\ seen' = seen
  BY DEF Join, config
<1>2. TypeOK'
  BY <1>1 DEF IInv, TypeOK, Validation, Over
<1>3. CheckedIsSound' /\ SeesEarlierLayers'
  BY <1>1 DEF IInv, CheckedIsSound, SeesEarlierLayers, Started
<1>4. Decided' /\ pc' # "cycle"
  BY <1>1 DEF IInv, Decided, Validation
<1>5. Partition'
  BY <1>1 DEF IInv, TypeOK, Partition, Validation
<1>6. WorkIsTracked'
  BY <1>1 DEF IInv, WorkIsTracked, Usable
<1>7. SnapshotsAreCompleted'
  BY <1>1 DEF IInv, SnapshotsAreCompleted, Started
<1> QED
  BY <1>2, <1>3, <1>4, <1>5, <1>6, <1>7 DEF IInv

\* An error or a drop gives up the whole layer.
LEMMA AbortPreserves ==
    ASSUME IInv, Drop \/ \E s \in Steps : JoinError(s)
    PROVE  IInv'
<1>1. /\ pc = "joining" /\ pc' \in {"failed", "dropped"} /\ layer' = {} /\ work' = Aborted
      /\ deps' = deps /\ tolerant' = tolerant /\ checked' = checked
      /\ pending' = pending /\ completed' = completed /\ seen' = seen
  BY DEF Drop, JoinError, config
<1>2. \A t \in Steps :
        \/ work'[t] = work[t] /\ ~(t \in layer /\ work[t] = "working")
        \/ t \in layer /\ work[t] = "working" /\ work'[t] = "cancelled"
  BY <1>1 DEF Aborted
<1>3. work' \in [Steps -> Work]
  <2>1. \A t \in Steps : work'[t] \in Work
    BY <1>2 DEF IInv, TypeOK, Work
  <2> QED
    BY <1>1, <2>1 DEF Aborted
<1>4. TypeOK'
  BY <1>1, <1>3 DEF IInv, TypeOK, Validation, Over
<1>5. CheckedIsSound'
  BY <1>1 DEF IInv, CheckedIsSound
<1>6. Decided' /\ pc' # "cycle"
  BY <1>1 DEF IInv, Decided, Validation
<1>7. Partition'
  BY <1>1 DEF IInv, TypeOK, Partition, Validation
<1>8. \A t \in completed : work'[t] = work[t]
  BY <1>2 DEF IInv, TypeOK, Partition
<1>9. WorkIsTracked'
  BY <1>1, <1>2, <1>8 DEF IInv, TypeOK, WorkIsTracked, Usable
<1>10. Started' = Started
  BY <1>2 DEF Started
<1>11. SnapshotsAreCompleted' /\ SeesEarlierLayers'
  BY <1>1, <1>10 DEF IInv, SnapshotsAreCompleted, SeesEarlierLayers
<1> QED
  BY <1>4, <1>5, <1>6, <1>7, <1>9, <1>11 DEF IInv

\* One step ends: in its task, as that is stopped, or on the other side of what it left.
LEMMA EndPreserves ==
    ASSUME IInv, NEW s \in Steps, StepEnds(s) \/ LetGo(s) \/ Land(s)
    PROVE  IInv'
<1>1. /\ deps' = deps /\ tolerant' = tolerant /\ checked' = checked /\ pending' = pending
      /\ layer' = layer /\ completed' = completed /\ seen' = seen /\ pc' = pc
  BY DEF StepEnds, LetGo, Land, config
<1>2. /\ work' \in [Steps -> Work]
      /\ \A t \in Steps \ {s} : work'[t] = work[t]
      /\ \/ work[s] = "working" /\ work'[s] \in {"succeeded", "errored", "panicked"}
         \/ work[s] = "cancelled" /\ work'[s] \in {"aborted", "succeeded", "errored", "panicked"}
         \/ work[s] = "cancelled" /\ work'[s] = "detached" /\ s \in Remote
         \/ work[s] = "detached" /\ work'[s] \in {"landed", "aborted"}
  BY DEF IInv, TypeOK, Work, StepEnds, LetGo, Land
<1>3. TypeOK'
  BY <1>1, <1>2 DEF IInv, TypeOK
<1>4. CheckedIsSound' /\ Decided' /\ Partition' /\ pc' # "cycle"
  BY <1>1 DEF IInv, CheckedIsSound, Decided, Partition, Ready
<1>5. s \notin completed
  BY <1>2 DEF IInv, WorkIsTracked, Usable
<1>6. WorkIsTracked'
  BY <1>1, <1>2, <1>5 DEF IInv, TypeOK, WorkIsTracked, Usable
<1>7. Started' = Started
  BY <1>2 DEF Started
<1>8. SnapshotsAreCompleted' /\ SeesEarlierLayers'
  BY <1>1, <1>7 DEF IInv, SnapshotsAreCompleted, SeesEarlierLayers
<1> QED
  BY <1>3, <1>4, <1>6, <1>8 DEF IInv

\* The inductive invariant holds of every behaviour.
THEOREM Invariance == Spec => []IInv
<1>1. IInv /\ [Next]_vars => IInv'
  <2> SUFFICES ASSUME IInv, [Next]_vars PROVE IInv'
    OBVIOUS
  <2> QED
    BY ValidatePreserves, SpawnPreserves, ControlPreserves, FindCycleIsImpossible,
       JoinPreserves, AbortPreserves, EndPreserves DEF Next, RunWorkflow, Schedule
<1> QED
  BY <1>1, InitEstablishesIInv, PTL DEF Spec

\* Type correctness.
THEOREM TypeCorrect == Spec => []TypeOK
<1>1. IInv => TypeOK
  BY DEF IInv
<1> QED
  BY <1>1, Invariance, PTL

\* The validation admits exactly the acyclic workflows.
THEOREM ValidationTheorem == Spec => []RejectsExactlyCycles
<1>1. IInv => RejectsExactlyCycles
  <2> SUFFICES ASSUME IInv PROVE RejectsExactlyCycles
    OBVIOUS
  <2>1. pc = "rejected" => ~Acyclic(deps)
    BY StuckIsCyclic DEF IInv, Decided
  <2>2. pc \notin Validation => Acyclic(deps)
    BY CheckedIsAcyclic DEF IInv, Decided
  <2> QED
    BY <2>1, <2>2 DEF RejectsExactlyCycles
<1> QED
  BY <1>1, Invariance, PTL

\* The cycle error of run_workflow is unreachable.
THEOREM NeverStuckTheorem == Spec => []NeverStuck
<1>1. IInv => NeverStuck
  BY DEF IInv, NeverStuck
<1> QED
  BY <1>1, Invariance, PTL

\* Steps see the layers before theirs, all of them and nothing else.
THEOREM SnapshotTheorem == Spec => []SeesEarlierLayers
<1>1. IInv => SeesEarlierLayers
  BY DEF IInv
<1> QED
  BY <1>1, Invariance, PTL

\* A workflow is answered only after all of its steps.
THEOREM AnswerTheorem == Spec => []AnswerIsComplete
<1>1. IInv => AnswerIsComplete
  BY DEF IInv, TypeOK, Partition, WorkIsTracked, Usable, AnswerIsComplete
<1> QED
  BY <1>1, Invariance, PTL

\* What outlives an aborted workflow is in a database or with an HTTP server, and
\* nothing outlives an answered one.
THEOREM OutliveTheorem == Spec => []OnlyRemoteOutlive
<1>1. IInv => OnlyRemoteOutlive
  BY DEF IInv, TypeOK, Partition, WorkIsTracked, OnlyRemoteOutlive, Usable, Over
<1> QED
  BY <1>1, Invariance, PTL

\* Steps start once, and not in a later layer than an error that ends the workflow:
\* what has started when a step does is completed, hence usable, or of its own layer.
THEOREM StartTheorem == Spec => NoLayerAfterAnError
<1> DEFINE A == \A s \in Steps : work'[s] = "working" /\ work[s] # "working" =>
          /\ work[s] = "unstarted"
          /\ \A t \in Started : Fatal(t) => seen[t] = seen'[s]
<1>1. IInv /\ [Next]_vars => [A]_vars
  <2> SUFFICES ASSUME IInv, Next, NEW s \in Steps, work'[s] = "working", work[s] # "working"
               PROVE  /\ work[s] = "unstarted"
                      /\ \A t \in Started : Fatal(t) => seen[t] = seen'[s]
    OBVIOUS
  <2>1. Spawn(s)
    <3>1. work' # work
      OBVIOUS
    <3>2. ~(Validate \/ Call \/ FindCycle \/ Render \/ \E t \in Steps : Join(t))
      BY <3>1 DEF Validate, Call, FindCycle, Render, Join
    <3>3. ~(Drop \/ \E t \in Steps : JoinError(t))
      BY DEF Drop, JoinError, Aborted
    <3>4. ~ \E t \in Steps : StepEnds(t) \/ LetGo(t) \/ Land(t)
      BY DEF StepEnds, LetGo, Land, IInv, TypeOK
    <3>5. \A t \in Steps \ {s} : ~Spawn(t)
      BY DEF Spawn, IInv, TypeOK
    <3> QED
      BY <3>2, <3>3, <3>4, <3>5 DEF Next, RunWorkflow, Schedule
  <2>2. s \in pending /\ seen'[s] = completed /\ completed \cup layer = Steps \ pending
        /\ \A t \in layer : seen[t] = completed
    BY <2>1 DEF Spawn, Ready, IInv, TypeOK, Partition, SnapshotsAreCompleted
  <2>3. work[s] = "unstarted"
    BY <2>2 DEF IInv, WorkIsTracked
  <2>4. ASSUME NEW t \in Started, Fatal(t) PROVE seen[t] = seen'[s]
    <3>1. t \in completed \cup layer
      BY <2>2, <2>4 DEF IInv, WorkIsTracked, Started
    <3>2. t \notin completed
      BY <2>4 DEF IInv, WorkIsTracked, Usable, Fatal
    <3> QED
      BY <2>2, <3>1, <3>2
  <2> QED
    BY <2>3, <2>4
<1> QED
  BY <1>1, Invariance, PTL DEF Spec, NoLayerAfterAnError

-----------------------------------------------------------------------------
\* run_workflow implements WorkflowPromise.
LEMMA InitRefines == Init => Dataflow!Init
  BY DEF Init, Dataflow!Init, Verdict

LEMMA StepRefines ==
    ASSUME IInv, IInv', [Next]_vars
    PROVE  [Dataflow!Next]_(Dataflow!vars)
<1> USE DEF Dataflow!vars
<1>1. CASE Validate
  BY <1>1 DEF Validate, Verdict, IInv
<1>2. CASE Call
  BY <1>2 DEF Call, config, Verdict
<1>3. ASSUME NEW s \in Steps, Spawn(s) PROVE Dataflow!Next
  <2>1. Verdict = "none" /\ Verdict' = "none"
    BY <1>3 DEF Spawn, Verdict
  <2>2. s \in pending /\ deps[s] \subseteq completed /\ UNCHANGED <<deps, completed>>
        /\ pending' = pending \ {s}
    BY <1>3 DEF Spawn, Ready, config
  <2>3. Steps \ pending' = (Steps \ pending) \cup {s}
    BY <2>2
  <2>4. Dataflow!Start(s)
    BY <2>1, <2>2, <2>3 DEF Dataflow!Start
  <2> QED
    BY <2>4 DEF Dataflow!Next
<1>4. CASE Render
  <2>1. completed = Steps /\ pending = {}
    BY <1>4 DEF Render, IInv, TypeOK, Partition
  <2>2. Verdict = "none" /\ Verdict' \in {"ok", "failed"}
    BY <1>4 DEF Render, Verdict
  <2>3. Dataflow!Succeed \/ Dataflow!Fail
    BY <1>4, <2>1, <2>2, StepsAssumption DEF Render, config, Dataflow!Succeed, Dataflow!Fail
  <2> QED
    BY <2>3 DEF Dataflow!Next
<1>5. CASE \E s \in Steps : Join(s)
  <2>1. PICK s \in Steps : Join(s)
    BY <1>5
  <2>2. s \in Steps \ pending /\ s \notin completed
    BY <2>1 DEF Join, IInv, Partition
  <2>3. Verdict = "none" /\ Verdict' = "none"
    BY <2>1 DEF Join, Verdict
  <2>4. Dataflow!Done(s)
    BY <2>1, <2>2, <2>3 DEF Join, config, Dataflow!Done
  <2> QED
    BY <2>4 DEF Dataflow!Next
<1>6. CASE Drop \/ \E s \in Steps : JoinError(s)
  <2>1. /\ pc = "joining" /\ pc' \in {"failed", "dropped"}
        /\ UNCHANGED <<deps, pending, completed>>
    BY <1>6 DEF Drop, JoinError, config
  <2>2. Steps \ pending # {}
    BY <2>1, StepsAssumption DEF IInv, Partition
  <2>3. Dataflow!Fail
    BY <2>1, <2>2 DEF Dataflow!Fail, Verdict
  <2> QED
    BY <2>3 DEF Dataflow!Next
<1>7. CASE \E s \in Steps : StepEnds(s) \/ LetGo(s) \/ Land(s)
  BY <1>7 DEF StepEnds, LetGo, Land, config, Verdict
<1>8. CASE UNCHANGED vars
  BY <1>8 DEF vars, Verdict
<1> QED
  BY <1>1, <1>2, <1>3, <1>4, <1>5, <1>6, <1>7, <1>8, FindCycleIsImpossible DEF Next, RunWorkflow, Schedule

THEOREM Refinement == Spec => RunsAsDataflow
<1>1. Init => Dataflow!Init
  BY InitRefines
<1>2. IInv /\ IInv' /\ [Next]_vars => [Dataflow!Next]_(Dataflow!vars)
  BY StepRefines
<1> QED
  BY <1>1, <1>2, Invariance, PTL DEF Spec, RunsAsDataflow, Dataflow!Spec

-----------------------------------------------------------------------------
(***************************************************************************)
(* A cycle, the way one draws it, is a walk along depends_on that comes    *)
(* back to where it began.  Acyclic, which speaks of sets of steps, is the *)
(* absence of such walks: a set whose members each depend on another has   *)
(* walks of any length, and a walk longer than Steps meets a step twice.   *)
(***************************************************************************)

Walk(d, n, p) == p \in [0..n -> Steps] /\ \A i \in 0..n - 1 : p[i + 1] \in d[p[i]]

DependencyCycle(d) == \E n \in Nat \ {0} : \E p : Walk(d, n, p) /\ p[0] = p[n]

LEMMA LeastNumber ==
    ASSUME NEW S, S \subseteq Nat, S # {}
    PROVE  \E n \in S : \A m \in S : n <= m
<1> DEFINE Below == OpToRel(<, Nat)
<1>1. PICK n \in S : \A m \in S : ~(<<m, n>> \in Below)
  BY WFMin, NatLessThanWellFounded
<1>2. ASSUME NEW m \in S PROVE n <= m
  <2>1. m \in Nat /\ n \in Nat /\ ~(<<m, n>> \in Below)
    BY <1>1
  <2> QED
    BY <2>1 DEF OpToRel
<1> QED
  BY <1>2

LEMMA CycleIsStuck ==
    ASSUME NEW d \in [Steps -> SUBSET Steps], DependencyCycle(d)
    PROVE  ~Acyclic(d)
<1>0. PICK n \in Nat \ {0} : \E p : Walk(d, n, p) /\ p[0] = p[n]
  BY DEF DependencyCycle
<1>1. PICK p : Walk(d, n, p) /\ p[0] = p[n]
  BY <1>0
<1> DEFINE S == {p[i] : i \in 0..n - 1}
<1>2. S \in (SUBSET Steps) \ {{}}
  <2>1. p[0] \in S /\ 0..n - 1 \subseteq 0..n
    BY <1>1
  <2> QED
    BY <1>1, <2>1 DEF Walk
<1>3. ASSUME NEW s \in S PROVE d[s] \cap S # {}
  <2>1. PICK i \in 0..n - 1 : s = p[i]
    BY <1>3
  <2>2. p[i + 1] \in d[s]
    BY <1>1, <2>1 DEF Walk
  <2>3. p[i + 1] \in S
    <3>1. CASE i + 1 = n
      BY <1>1, <3>1
    <3>2. CASE i + 1 # n
      <4>1. i + 1 \in 0..n - 1
        BY <1>1, <3>2
      <4> QED
        BY <4>1
    <3> QED
      BY <3>1, <3>2
  <2> HIDE DEF S
  <2> QED
    BY <2>2, <2>3
<1> HIDE DEF S
<1> QED
  BY <1>2, <1>3 DEF Acyclic

LEMMA StuckSetsHaveWalks ==
    ASSUME NEW d \in [Steps -> SUBSET Steps], NEW S \in (SUBSET Steps) \ {{}},
           \A s \in S : d[s] \cap S # {}, NEW n \in Nat
    PROVE  \E p \in [0..n -> S] : Walk(d, n, p)
<1> DEFINE Has(m) == \E p \in [0..m -> S] : Walk(d, m, p)
           Without == {m \in Nat : ~Has(m)}
<1> SUFFICES ASSUME Without # {} PROVE FALSE
  OBVIOUS
<1>1. PICK m \in Without : \A k \in Without : m <= k
  <2>1. Without \subseteq Nat
    OBVIOUS
  <2> HIDE DEF Without
  <2> QED
    BY <2>1, LeastNumber
<1>2. CASE m = 0
  <2>1. PICK s \in S : TRUE
    OBVIOUS
  <2> DEFINE p == [i \in 0..0 |-> s]
  <2>2. p \in [0..0 -> S] /\ p \in [0..0 -> Steps] /\ 0..0 - 1 = {}
    OBVIOUS
  <2>3. Walk(d, 0, p)
    BY <2>2 DEF Walk
  <2> QED
    BY <1>1, <1>2, <2>2, <2>3
<1>3. CASE m # 0
  <2>1. m - 1 \in Nat /\ m \in Nat /\ ~(m <= m - 1)
    BY <1>1, <1>3
  <2>2. PICK q \in [0..m - 1 -> S] : Walk(d, m - 1, q)
    BY <1>1, <2>1
  <2>3. PICK t \in S : t \in d[q[m - 1]]
    <3>1. q[m - 1] \in S
      BY <2>1, <2>2
    <3> QED
      BY <3>1
  <2> DEFINE p == [i \in 0..m |-> IF i = m THEN t ELSE q[i]]
  <2>4. p \in [0..m -> S]
    <3>1. \A i \in 0..m : i = m \/ i \in 0..m - 1
      BY <2>1
    <3> QED
      BY <2>2, <3>1
  <2>5. ASSUME NEW i \in 0..m - 1 PROVE p[i + 1] \in d[p[i]]
    <3>1. p[i] = q[i] /\ i \in 0..m /\ i + 1 \in 0..m
      BY <2>1
    <3>2. CASE i = m - 1
      <4>1. p[i + 1] = t
        BY <2>1, <3>2
      <4> QED
        BY <2>3, <3>1, <3>2, <4>1
    <3>3. CASE i # m - 1
      <4>1. i \in 0..(m - 1) - 1 /\ i + 1 # m
        BY <2>1, <3>3
      <4>2. p[i + 1] = q[i + 1]
        BY <3>1, <4>1
      <4> HIDE DEF p
      <4> QED
        BY <2>2, <3>1, <4>1, <4>2 DEF Walk
    <3> QED
      BY <3>2, <3>3
  <2> HIDE DEF p
  <2>6. Walk(d, m, p)
    BY <2>4, <2>5 DEF Walk
  <2> QED
    BY <1>1, <2>4, <2>6
<1> QED
  BY <1>2, <1>3

LEMMA StuckHasCycle ==
    ASSUME NEW d \in [Steps -> SUBSET Steps], ~Acyclic(d)
    PROVE  DependencyCycle(d)
<1>1. PICK S \in (SUBSET Steps) \ {{}} : \A s \in S : d[s] \cap S # {}
  BY DEF Acyclic
<1> DEFINE N == Cardinality(S)
<1>2. IsFiniteSet(S) /\ N \in Nat
  BY <1>1, StepsAssumption, FS_Subset, FS_CardinalityType
<1>3. PICK q \in [0..N -> S] : Walk(d, N, q)
  <2> HIDE DEF N
  <2> QED
    BY <1>1, <1>2, StuckSetsHaveWalks
<1>4. PICK i \in 0..N, j \in 0..N : i # j /\ q[i] = q[j]
  <2>1. IsFiniteSet(0..N) /\ Cardinality(0..N) = N + 1
    <3>1. 0 \in Int /\ N \in Int /\ ~(0 > N) /\ N - 0 + 1 = N + 1
      BY <1>2
    <3> HIDE DEF N
    <3> QED
      BY <3>1, FS_Interval
  <2>2. Cardinality(S) < Cardinality(0..N)
    BY <1>2, <2>1
  <2> HIDE DEF N
  <2> QED
    BY <1>2, <1>3, <2>1, <2>2, FS_PigeonHole
<1>5. \E a \in 0..N, b \in 0..N : a < b /\ q[a] = q[b]
  <2>1. i < j \/ j < i
    BY <1>2, <1>4
  <2> HIDE DEF N
  <2> QED
    BY <1>4, <2>1
<1>6. PICK a \in 0..N, b \in 0..N : a < b /\ q[a] = q[b]
  BY <1>5
<1> HIDE DEF N
<1> DEFINE n == b - a
           p == [k \in 0..n |-> q[a + k]]
<1>7. n \in Nat \ {0} /\ \A k \in 0..n : a + k \in 0..N
  BY <1>2, <1>6
<1>8. p \in [0..n -> Steps]
  BY <1>1, <1>3, <1>7
<1>9. ASSUME NEW k \in 0..n - 1 PROVE p[k + 1] \in d[p[k]]
  <2>1. /\ a + k \in 0..N - 1 /\ k \in 0..n /\ k + 1 \in 0..n
        /\ (a + k) + 1 = a + (k + 1)
    BY <1>2, <1>6, <1>7
  <2>2. p[k] = q[a + k] /\ p[k + 1] = q[(a + k) + 1]
    BY <2>1
  <2> HIDE DEF p, n
  <2> QED
    BY <1>3, <2>1, <2>2 DEF Walk
<1>10. p[0] = q[a] /\ p[n] = q[b]
  <2>1. 0 \in 0..n /\ n \in 0..n /\ a + 0 = a /\ a + n = b
    BY <1>2, <1>6, <1>7
  <2> QED
    BY <2>1
<1> HIDE DEF p, n
<1>11. Walk(d, n, p)
  BY <1>8, <1>9 DEF Walk
<1> QED
  BY <1>6, <1>7, <1>10, <1>11 DEF DependencyCycle

\* The validation refuses a workflow exactly when its steps depend on each other in
\* a circle (config.rs:852-882).
RejectsExactlyCircles ==
    /\ pc = "rejected" => DependencyCycle(deps)
    /\ pc \notin Validation => ~DependencyCycle(deps)

THEOREM CirclesTheorem == Spec => []RejectsExactlyCircles
<1>1. TypeOK /\ RejectsExactlyCycles => RejectsExactlyCircles
  BY CycleIsStuck, StuckHasCycle DEF TypeOK, RejectsExactlyCycles, RejectsExactlyCircles
<1> QED
  BY <1>1, TypeCorrect, ValidationTheorem, PTL

-----------------------------------------------------------------------------
(***************************************************************************)
(* What EveryWorkflowEnds rests on, fairness apart: a called workflow has  *)
(* finitely many things to do, and until it is over one of them can be     *)
(* done or is being done.                                                  *)
(***************************************************************************)

Working == {s \in Steps : work[s] \in {"working", "cancelled"}}

\* The steps that are still to be started, to end and to be joined.
Todo == (pending \X {"start"}) \cup ((pending \cup Working) \X {"end"})
            \cup ((pending \cup layer) \X {"join"})

StepsLeft == Cardinality(Todo) + IF pc \in Over THEN 0 ELSE 1

\* The workflow can go on, or waits for a step that is working.
GoesOn ==
    /\ pc = "scheduling" => pending = {} \/ Ready(pending, completed) # {}
    /\ pc = "spawning" => Ready(pending, completed) # {}
    /\ pc = "joining" => \E s \in layer : work[s] = "working" \/ Usable(s) \/ Fatal(s)

\* Every step of run_workflow, and every end of a step that it waits for or has
\* cancelled, leaves less to do, and nothing leaves more.
WorkflowsAreFinite ==
    [][/\ StepsLeft' <= StepsLeft
       /\ RunWorkflow \/ (\E s \in Steps : StepEnds(s) \/ LetGo(s)) => StepsLeft' < StepsLeft]_vars

LEMMA TodoIsFinite ==
    ASSUME TypeOK
    PROVE  IsFiniteSet(Todo) /\ Cardinality(Todo) \in Nat
<1>1. IsFiniteSet({"start", "end", "join"})
  <2>1. IsFiniteSet({"start"} \cup {"end"} \cup {"join"})
    BY FS_Singleton, FS_AddElement
  <2>2. {"start"} \cup {"end"} \cup {"join"} = {"start", "end", "join"}
    OBVIOUS
  <2> QED
    BY <2>1, <2>2
<1>2. IsFiniteSet(Steps \X {"start", "end", "join"})
  BY <1>1, StepsAssumption, FS_Product
<1>3. Todo \in SUBSET (Steps \X {"start", "end", "join"})
  BY DEF TypeOK, Todo, Working
<1> QED
  BY <1>2, <1>3, FS_Subset, FS_CardinalityType

\* To take something off one of the three lists is to take something off Todo.
LEMMA ShorterLists ==
    ASSUME pending' \subseteq pending,
           pending' \cup Working' \subseteq pending \cup Working,
           pending' \cup layer' \subseteq pending \cup layer
    PROVE  /\ Todo' \subseteq Todo
           /\ \/ \E s \in pending : s \notin pending'
              \/ \E s \in pending \cup Working : s \notin pending' \cup Working'
              \/ \E s \in pending \cup layer : s \notin pending' \cup layer'
              => Todo' # Todo
<1>1. /\ \A s : <<s, "start">> \in Todo <=> s \in pending
      /\ \A s : <<s, "end">> \in Todo <=> s \in pending \cup Working
      /\ \A s : <<s, "join">> \in Todo <=> s \in pending \cup layer
  BY DEF Todo
<1>2. /\ \A s : <<s, "start">> \in Todo' <=> s \in pending'
      /\ \A s : <<s, "end">> \in Todo' <=> s \in pending' \cup Working'
      /\ \A s : <<s, "join">> \in Todo' <=> s \in pending' \cup layer'
  BY DEF Todo
<1>3. Todo' \subseteq Todo
  BY DEF Todo
<1> QED
  BY <1>1, <1>2, <1>3

LEMMA StepsLeftShrink ==
    ASSUME TypeOK, TypeOK', Todo' \subseteq Todo, pc \in Over => pc' \in Over
    PROVE  /\ StepsLeft' <= StepsLeft
           /\ Todo' # Todo \/ (pc \notin Over /\ pc' \in Over) => StepsLeft' < StepsLeft
<1>1. IsFiniteSet(Todo) /\ Cardinality(Todo) \in Nat
  BY TodoIsFinite
<1>2. /\ IsFiniteSet(Todo') /\ Cardinality(Todo') <= Cardinality(Todo)
      /\ Cardinality(Todo') = Cardinality(Todo) => Todo' = Todo
  BY <1>1, FS_Subset
<1>3. Cardinality(Todo') \in Nat
  BY <1>2, FS_CardinalityType
<1>4. StepsLeft' = Cardinality(Todo') + IF pc' \in Over THEN 0 ELSE 1
  BY DEF StepsLeft
<1> QED
  BY <1>1, <1>2, <1>3, <1>4 DEF StepsLeft

LEMMA StartsShrink ==
    ASSUME IInv, NEW s \in Steps, Spawn(s)
    PROVE  Todo' \subseteq Todo /\ Todo' # Todo
<1>1. /\ s \in pending /\ pending' = pending \ {s} /\ layer' = layer \cup {s}
      /\ work' = [work EXCEPT ![s] = "working"]
  BY DEF Spawn, Ready
<1>2. Working' = Working \cup {s}
  BY <1>1 DEF Working, IInv, TypeOK
<1> QED
  BY <1>1, <1>2, ShorterLists

LEMMA JoinsShrink ==
    ASSUME IInv, NEW s \in Steps, Join(s)
    PROVE  Todo' \subseteq Todo /\ Todo' # Todo
<1>1. /\ s \in layer /\ layer' = layer \ {s} /\ pending' = pending /\ Working' = Working
      /\ s \notin pending
  BY DEF Join, Working, IInv, Partition
<1> QED
  BY <1>1, ShorterLists

LEMMA EndsShrink ==
    ASSUME IInv, NEW s \in Steps, StepEnds(s) \/ LetGo(s)
    PROVE  Todo' \subseteq Todo /\ Todo' # Todo
<1>1. /\ s \in Working /\ Working' = Working \ {s} /\ UNCHANGED <<pending, layer>>
      /\ s \notin pending
  BY DEF StepEnds, LetGo, Working, IInv, TypeOK, WorkIsTracked
<1> QED
  BY <1>1, ShorterLists

LEMMA OthersSpare ==
    ASSUME IInv,
           \/ Validate \/ Call \/ Render \/ Drop \/ UNCHANGED vars
           \/ \E s \in Steps : JoinError(s) \/ Land(s)
    PROVE  Todo' \subseteq Todo
<1>1. CASE Validate \/ Call \/ Render \/ UNCHANGED vars
  BY <1>1 DEF Validate, Call, Render, vars, Todo, Working
<1>2. CASE Drop \/ \E s \in Steps : JoinError(s)
  <2>1. pending' = pending /\ layer' = {} /\ work' = Aborted
    BY <1>2 DEF Drop, JoinError
  <2>2. Working' \subseteq Working
    BY <2>1 DEF Working, Aborted
  <2> QED
    BY <2>1, <2>2, ShorterLists
<1>3. ASSUME NEW s \in Steps, Land(s) PROVE Todo' \subseteq Todo
  <2>1. Working' = Working /\ UNCHANGED <<pending, layer>>
    BY <1>3 DEF Land, Working, IInv, TypeOK
  <2> QED
    BY <2>1, ShorterLists
<1> QED
  BY <1>1, <1>2, <1>3

\* A called workflow takes boundedly many steps and is never without one to take or
\* to wait for: what is left to fairness in EveryWorkflowEnds is that the steps of
\* the workflow end and that the runtime polls it.
THEOREM FiniteTheorem == Spec => []GoesOn /\ WorkflowsAreFinite
<1> DEFINE A == /\ StepsLeft' <= StepsLeft
                /\ RunWorkflow \/ (\E s \in Steps : StepEnds(s) \/ LetGo(s))
                      => StepsLeft' < StepsLeft
<1>1. IInv => GoesOn
  <2> SUFFICES ASSUME IInv PROVE GoesOn
    OBVIOUS
  <2>1. pc = "scheduling" => pending = {} \/ Ready(pending, completed) # {}
    BY FindCycleIsImpossible, SomeStepIsReady, CheckedIsAcyclic
       DEF IInv, TypeOK, Partition, Decided, Validation
  <2>2. ASSUME pc = "joining"
        PROVE  \E s \in layer : work[s] = "working" \/ Usable(s) \/ Fatal(s)
    <3>1. PICK s \in layer : TRUE
      BY <2>2 DEF IInv, Partition
    <3>2. work[s] \in {"working", "succeeded", "errored", "panicked"}
      BY <3>1 DEF IInv, WorkIsTracked
    <3>3. work[s] = "working" \/ Usable(s) \/ Fatal(s)
      BY <3>2 DEF Usable, Fatal
    <3> QED
      BY <3>1, <3>3
  <2>3. pc = "spawning" => Ready(pending, completed) # {}
    BY DEF IInv, Partition
  <2> QED
    BY <2>1, <2>2, <2>3 DEF GoesOn
<1>2. IInv /\ IInv' /\ [Next]_vars => [A]_vars
  <2> SUFFICES ASSUME IInv, IInv', [Next]_vars PROVE A
    OBVIOUS
  <2>1. pc \in Over => pc' \in Over
    BY DEF Next, vars, Validate, Call, RunWorkflow, Schedule, FindCycle, Spawn, Render,
           Join, JoinError, Drop, StepEnds, LetGo, Land, Over
  <2>2. CASE \E s \in Steps : Spawn(s) \/ Join(s) \/ StepEnds(s) \/ LetGo(s)
    BY <2>1, <2>2, StartsShrink, JoinsShrink, EndsShrink, StepsLeftShrink DEF IInv
  <2>3. CASE Render \/ \E s \in Steps : JoinError(s)
    <3>1. pc \notin Over /\ pc' \in Over
      BY <2>3 DEF Render, JoinError, Over
    <3> QED
      BY <2>1, <2>3, <3>1, OthersSpare, StepsLeftShrink DEF IInv
  <2>4. CASE /\ Validate \/ Call \/ Drop \/ UNCHANGED vars \/ \E s \in Steps : Land(s)
             /\ ~RunWorkflow
             /\ ~\E s \in Steps : StepEnds(s) \/ LetGo(s)
    BY <2>1, <2>4, OthersSpare, StepsLeftShrink DEF IInv
  <2>5. ~FindCycle
    BY FindCycleIsImpossible
  <2>6. CASE UNCHANGED vars
    <3>1. Todo' = Todo /\ pc' = pc /\ work' = work /\ layer' = layer
      BY <2>6 DEF vars, Todo, Working
    <3>2. ~RunWorkflow /\ ~\E s \in Steps : StepEnds(s) \/ LetGo(s)
      <4>1. ~Render /\ ~FindCycle /\ \A s \in Steps : ~JoinError(s)
        BY <3>1 DEF Render, FindCycle, JoinError
      <4>2. \A s \in Steps : ~Spawn(s) /\ ~Join(s) /\ ~StepEnds(s) /\ ~LetGo(s)
        BY <3>1, StartsShrink, JoinsShrink, EndsShrink
      <4> QED
        BY <4>1, <4>2 DEF RunWorkflow, Schedule
    <3> QED
      BY <2>1, <2>6, <3>2, OthersSpare, StepsLeftShrink DEF IInv
  <2> QED
    BY <2>2, <2>3, <2>4, <2>5, <2>6 DEF Next, RunWorkflow, Schedule
<1> QED
  BY <1>1, <1>2, Invariance, PTL DEF Spec, WorkflowsAreFinite

=============================================================================
