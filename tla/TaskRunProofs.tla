---------------------------- MODULE TaskRunProofs ----------------------------
(***************************************************************************)
(* Proofs about TaskRun, for every set of runs, every configuration of a   *)
(* task and every program it may start.                                    *)
(*                                                                         *)
(* Each part of the inductive invariant relates one run's control to one   *)
(* other thing: its child, its outcome, its job.                           *)
(***************************************************************************)
EXTENDS TaskRun, TLAPS

\* A child exists from Spawn on, and is dead when run_task is over.
ChildFollows(t) ==
    /\ pc[t] \in {"idle", "called"} => child[t] = "none"
    /\ pc[t] \in {"returned", "answered", "dropped"} => child[t] # "alive"

\* There is an outcome exactly when run_task returned.
OutcomeFollows(t) ==
    /\ pc[t] \in InTask \cup {"idle", "dropped"} => outcome[t] = "none"
    /\ pc[t] \in {"returned", "answered"} => outcome[t] \in Outcomes

\* What makes an outcome ok.
Earned(t) ==
    outcome[t] = "ok" =>
        /\ child[t] = "exited"
        /\ exit[t].success /\ ~exit[t].held
        /\ task[t].format = "json" => Parses(t)

\* An async run that is going on has its job; a job that ended tells how.
JobFollows(t) ==
    /\ jobs[t] # "absent" => task[t].mode = "async"
    /\ pc[t] = "idle" => jobs[t] = "absent"
    /\ pc[t] \in InTask \cup {"returned"} /\ task[t].mode = "async" => jobs[t] = "running"
    /\ jobs[t] = "running" => pc[t] \in InTask \cup {"returned"}
    /\ jobs[t] = "completed" => pc[t] = "answered" /\ outcome[t] = "ok"
    /\ jobs[t] = "failed" => pc[t] = "answered" /\ outcome[t] # "ok"

IInv ==
    /\ TypeOK
    /\ \A t \in Runs : ChildFollows(t) /\ OutcomeFollows(t) /\ Earned(t) /\ JobFollows(t)

-----------------------------------------------------------------------------
\* run_task returns from inside itself, with a justified outcome.
LEMMA ReturnPreserves ==
    ASSUME IInv, NEW t \in Runs, NEW what \in Outcomes, Return(t, what), pc[t] \in InTask,
           what = "ok" => /\ child[t] = "exited" /\ exit[t].success /\ ~exit[t].held
                          /\ task[t].format = "json" => Parses(t)
    PROVE  IInv'
<1>1. /\ pc' = [pc EXCEPT ![t] = "returned"] /\ outcome' = [outcome EXCEPT ![t] = what]
      /\ child' = [child EXCEPT ![t] = IF @ = "alive" THEN "killed" ELSE @]
      /\ stdin' = [stdin EXCEPT ![t].written = FALSE]
      /\ task' = task /\ left' = left /\ owed' = owed /\ made' = made /\ exit' = exit
      /\ jobs' = jobs /\ crashes' = crashes
  BY DEF Return, Goto, Killed
<1>2. TypeOK'
  BY <1>1, ZenonT(60) DEF IInv, TypeOK, Stdin
<1>3. ASSUME NEW u \in Runs
      PROVE  ChildFollows(u)' /\ OutcomeFollows(u)' /\ JobFollows(u)'
  BY <1>1 DEF IInv, TypeOK, ChildFollows, OutcomeFollows, JobFollows, InTask, Outcomes
<1>4. ASSUME NEW u \in Runs
      PROVE  Earned(u)'
  BY <1>1 DEF IInv, TypeOK, Earned, Parses
<1> QED
  BY <1>2, <1>3, <1>4 DEF IInv

LEMMA RunTaskPreserves ==
    ASSUME IInv, NEW t \in Runs, RunTask(t)
    PROVE  IInv'
<1>1. CASE Spawn(t)
  <2>1. /\ pc[t] = "called" /\ pc' \in {[pc EXCEPT ![t] = "waiting"], [pc EXCEPT ![t] = "writing"]}
        /\ child' = [child EXCEPT ![t] = "alive"]
        /\ task' = task /\ owed' = owed /\ made' = made /\ exit' = exit
        /\ outcome' = outcome /\ jobs' = jobs /\ crashes' = crashes
    BY <1>1 DEF Spawn, Goto
  <2>2. task[t].payload = NoStdin \/ task[t].payload \in Nat
    BY TaskAssumption DEF IInv, TypeOK, Task
  <2>3. left' \in [Runs -> Nat]
    BY <1>1, <2>2 DEF Spawn, IInv, TypeOK
  <2>4. stdin' \in [Runs -> Stdin]
    <3>1. [chunks |-> 0, written |-> TRUE, read |-> TRUE] \in Stdin
      BY DEF Stdin
    <3> QED
      BY <1>1, <3>1 DEF Spawn, IInv, TypeOK
  <2>5. TypeOK'
    BY <2>1, <2>3, <2>4 DEF IInv, TypeOK, InTask
  <2>6. \A u \in Runs : (ChildFollows(u) /\ OutcomeFollows(u) /\ JobFollows(u))'
    BY <2>1 DEF IInv, TypeOK, ChildFollows, OutcomeFollows, JobFollows, InTask
  <2>7. \A u \in Runs : Earned(u)'
    BY <2>1 DEF IInv, TypeOK, Earned, Parses, ChildFollows
  <2> QED
    BY <2>5, <2>6, <2>7 DEF IInv
<1>2. CASE Write(t)
  <2>1. /\ UNCHANGED <<task, pc, child, owed, made, exit, outcome, jobs, crashes>>
        /\ left' \in [Runs -> Nat]
        /\ stdin' \in [Runs -> Stdin]
    BY <1>2, SMTT(30) DEF Write, IInv, TypeOK, Stdin
  <2> QED
    BY <2>1 DEF IInv, TypeOK, ChildFollows, OutcomeFollows, Earned, JobFollows, Parses
<1>3. CASE Written(t)
  <2>1. /\ pc[t] = "writing" /\ pc' = [pc EXCEPT ![t] = "waiting"]
        /\ UNCHANGED <<task, left, child, owed, made, exit, outcome, jobs, crashes>>
        /\ stdin' \in [Runs -> Stdin]
    BY <1>3 DEF Written, Goto, IInv, TypeOK, Stdin
  <2>2. TypeOK'
    BY <2>1 DEF IInv, TypeOK, InTask
  <2>3. \A u \in Runs : (ChildFollows(u) /\ OutcomeFollows(u) /\ JobFollows(u))'
    BY <2>1 DEF IInv, TypeOK, ChildFollows, OutcomeFollows, JobFollows, InTask
  <2>4. \A u \in Runs : Earned(u)'
    BY <2>1 DEF IInv, Earned, Parses
  <2> QED
    BY <2>2, <2>3, <2>4 DEF IInv
<1>4. CASE SpawnFails(t) \/ WriteBreaks(t) \/ CollectFails(t) \/ TimesOut(t)
  BY <1>4, ReturnPreserves DEF SpawnFails, WriteBreaks, CollectFails, TimesOut, InTask, Outcomes
<1>5. CASE Collect(t)
  <2>1. Judged(t) \in Outcomes /\ Return(t, Judged(t)) /\ pc[t] \in InTask
    BY <1>5 DEF Collect, Judged, Outcomes, InTask
  <2>2. Judged(t) = "ok" => /\ child[t] = "exited" /\ exit[t].success /\ ~exit[t].held
                            /\ task[t].format = "json" => Parses(t)
    BY <1>5 DEF Collect, Judged
  <2> QED
    BY <2>1, <2>2, ReturnPreserves
<1>6. CASE Finish(t) \/ Answer(t)
  <2>1. /\ pc[t] = "returned" /\ pc' = [pc EXCEPT ![t] = "answered"]
        /\ UNCHANGED <<task, left, child, stdin, owed, made, exit, outcome, crashes>>
        /\ \/ /\ task[t].mode = "async"
              /\ jobs' = [jobs EXCEPT ![t] = IF @ = "absent" THEN @
                              ELSE IF outcome[t] = "ok" THEN "completed" ELSE "failed"]
           \/ task[t].mode = "sync" /\ jobs' = jobs
    BY <1>6 DEF Finish, Answer, Goto, childVars
  <2>2. TypeOK'
    BY <2>1 DEF IInv, TypeOK
  <2>3. \A u \in Runs : (ChildFollows(u) /\ OutcomeFollows(u) /\ JobFollows(u))'
    BY <2>1 DEF IInv, TypeOK, ChildFollows, OutcomeFollows, JobFollows, InTask
  <2>4. \A u \in Runs : Earned(u)'
    BY <2>1 DEF IInv, Earned, Parses
  <2> QED
    BY <2>2, <2>3, <2>4 DEF IInv
<1> QED
  BY <1>1, <1>2, <1>3, <1>4, <1>5, <1>6 DEF RunTask, Proceed

\* What children do leaves the control alone; only a living child does it, so
\* that an outcome already judged stays justified.
LEMMA ChildPreserves ==
    ASSUME IInv, NEW t \in Runs, Live(t) \/ CloseStdin(t) \/ LetGo(t)
    PROVE  IInv'
<1>1. UNCHANGED <<task, pc, left, outcome, jobs, crashes>>
  BY DEF Live, Read, Emit, ExitChild, CloseStdin, LetGo
<1>2. stdin' \in [Runs -> Stdin] /\ owed' \in [Runs -> Nat] /\ made' \in [Runs -> Nat]
  <2>1. CASE Read(t)
    <3>1. owed' \in [Runs -> Nat] /\ made' = made
      BY <2>1 DEF Read, IInv, TypeOK
    <3>2. stdin' \in [Runs -> Stdin]
      BY <2>1 DEF Read, IInv, TypeOK, Stdin
    <3> QED
      BY <3>1, <3>2 DEF IInv, TypeOK
  <2>2. CASE Emit(t)
    BY <2>2 DEF Emit, IInv, TypeOK
  <2>3. CASE ExitChild(t) \/ CloseStdin(t) \/ LetGo(t)
    <3>1. owed' = owed /\ made' = made
      BY <2>3 DEF ExitChild, CloseStdin, LetGo
    <3>2. [stdin EXCEPT ![t].read = FALSE] \in [Runs -> Stdin]
      BY ZenonT(60) DEF IInv, TypeOK, Stdin
    <3>3. stdin' \in [Runs -> Stdin]
      BY <2>3, <3>2 DEF ExitChild, CloseStdin, LetGo, IInv, TypeOK
    <3> QED
      BY <3>1, <3>3 DEF IInv, TypeOK
  <2> QED
    BY <2>1, <2>2, <2>3 DEF Live
<1>3. \/ /\ child[t] = "alive" /\ child' \in {child, [child EXCEPT ![t] = "exited"]}
         /\ \A u \in Runs \ {t} : made'[u] = made[u] /\ exit'[u] = exit[u]
      \/ /\ child' = child /\ made' = made /\ exit[t].held
         /\ \A u \in Runs \ {t} : exit'[u] = exit[u]
  BY DEF IInv, TypeOK, Live, Read, Emit, ExitChild, CloseStdin, LetGo
<1>4. exit' \in [Runs -> Exit]
  <2>1. CASE Read(t) \/ Emit(t) \/ CloseStdin(t)
    BY <2>1 DEF Read, Emit, CloseStdin, IInv, TypeOK
  <2>2. CASE ExitChild(t)
    BY <2>2 DEF ExitChild, IInv, TypeOK
  <2>3. CASE LetGo(t)
    BY <2>3, ZenonT(60) DEF LetGo, IInv, TypeOK, Exit
  <2> QED
    BY <2>1, <2>2, <2>3 DEF Live
<1>5. TypeOK'
  BY <1>1, <1>2, <1>3, <1>4 DEF IInv, TypeOK
<1>6. \A u \in Runs : (ChildFollows(u) /\ OutcomeFollows(u) /\ JobFollows(u))'
  BY <1>1, <1>3 DEF IInv, TypeOK, ChildFollows, OutcomeFollows, JobFollows
<1>7. ASSUME NEW u \in Runs PROVE Earned(u)'
  <2>1. CASE u = t
    BY <1>1, <1>3, <2>1 DEF IInv, Earned
  <2>2. CASE u # t
    BY <1>1, <1>3, <2>2 DEF IInv, TypeOK, Earned, Parses
  <2> QED
    BY <2>1, <2>2
<1> QED
  BY <1>5, <1>6, <1>7 DEF IInv

\* Requests come and go, and the gateway may crash.
LEMMA OtherPreserves ==
    ASSUME IInv, Crash \/ (\E t \in Runs : Call(t) \/ Drop(t)) \/ UNCHANGED vars
    PROVE  IInv'
<1>1. CASE Crash
  <2>1. stdin' \in [Runs -> Stdin] /\ crashes' \in 0..MaxCrashes
    <3>1. \A u \in Runs : [stdin[u] EXCEPT !.written = FALSE] \in Stdin
      BY ZenonT(60) DEF IInv, TypeOK, Stdin
    <3>2. stdin' \in [Runs -> Stdin]
      BY <1>1, <3>1 DEF Crash
    <3>3. crashes' \in 0..MaxCrashes
      BY <1>1, TaskAssumption DEF Crash, IInv, TypeOK
    <3> QED
      BY <3>2, <3>3
  <2>2. TypeOK'
    BY <1>1, <2>1 DEF Crash, IInv, TypeOK
  <2>3. \A u \in Runs : (ChildFollows(u) /\ OutcomeFollows(u) /\ JobFollows(u))'
    BY <1>1 DEF Crash, IInv, TypeOK, ChildFollows, OutcomeFollows, JobFollows, InTask
  <2>4. \A u \in Runs : Earned(u)'
    BY <1>1 DEF Crash, IInv, Earned, Parses
  <2> QED
    BY <2>2, <2>3, <2>4 DEF IInv
<1>2. ASSUME NEW t \in Runs, Call(t) PROVE IInv'
  <2>1. TypeOK'
    BY <1>2 DEF Call, Goto, childVars, IInv, TypeOK, InTask
  <2>2. \A u \in Runs : (ChildFollows(u) /\ OutcomeFollows(u) /\ JobFollows(u))'
    BY <1>2 DEF Call, Goto, childVars, IInv, TypeOK, Task, ChildFollows, OutcomeFollows,
                JobFollows, InTask
  <2>3. \A u \in Runs : Earned(u)'
    BY <1>2 DEF Call, childVars, IInv, Earned, Parses
  <2> QED
    BY <2>1, <2>2, <2>3 DEF IInv
<1>3. ASSUME NEW t \in Runs, Drop(t) PROVE IInv'
  <2>1. TypeOK'
    BY <1>3, ZenonT(60) DEF Drop, Goto, Killed, IInv, TypeOK, Stdin
  <2>2. \A u \in Runs : (ChildFollows(u) /\ OutcomeFollows(u) /\ JobFollows(u))'
    BY <1>3 DEF Drop, Goto, Killed, IInv, TypeOK, ChildFollows, OutcomeFollows, JobFollows, InTask
  <2>3. \A u \in Runs : Earned(u)'
    BY <1>3 DEF Drop, Killed, IInv, TypeOK, Earned, Parses
  <2> QED
    BY <2>1, <2>2, <2>3 DEF IInv
<1>4. CASE UNCHANGED vars
  BY <1>4 DEF vars, IInv, TypeOK, ChildFollows, OutcomeFollows, Earned, JobFollows, Parses
<1> QED
  BY <1>1, <1>2, <1>3, <1>4

\* The inductive invariant holds of every behaviour.
THEOREM Invariance == Spec => []IInv
<1>1. Init => IInv
  <2>1. Init => TypeOK
    BY TaskAssumption DEF Init, TypeOK, NoExit, Exit, Stdin
  <2>2. Init => \A t \in Runs : ChildFollows(t) /\ OutcomeFollows(t) /\ Earned(t) /\ JobFollows(t)
    BY DEF Init, ChildFollows, OutcomeFollows, Earned, JobFollows, InTask
  <2> QED
    BY <2>1, <2>2 DEF IInv
<1>2. IInv /\ [Next]_vars => IInv'
  BY RunTaskPreserves, ChildPreserves, OtherPreserves DEF Next
<1> QED
  BY <1>1, <1>2, PTL DEF Spec

\* Type correctness.
THEOREM TypeCorrect == Spec => []TypeOK
<1>1. IInv => TypeOK
  BY DEF IInv
<1> QED
  BY <1>1, Invariance, PTL

\* No process outlives the request or the job it was started for.
THEOREM ChildTheorem == Spec => []NoChildOutlivesRun
<1>1. IInv => NoChildOutlivesRun
  BY DEF IInv, ChildFollows, NoChildOutlivesRun
<1> QED
  BY <1>1, Invariance, PTL

\* "ok" stays earned, whatever the child's descendants do later.
THEOREM OkTheorem == Spec => []OkIsEarned
<1>1. IInv => OkIsEarned
  BY DEF IInv, Earned, OkIsEarned
<1> QED
  BY <1>1, Invariance, PTL

\* The JobStore agrees with the runs.
THEOREM JobsTheorem == Spec => []JobsTellTheOutcome
<1>1. IInv => JobsTellTheOutcome
  BY DEF IInv, OutcomeFollows, JobFollows, JobsTellTheOutcome
<1> QED
  BY <1>1, Invariance, PTL

\* Whoever was given the identifier of a job finds it running until its task ends.
THEOREM AcceptedTheorem == Spec => []AcceptedJobIsFound
<1>1. IInv => AcceptedJobIsFound
  BY DEF IInv, JobFollows, AcceptedJobIsFound
<1> QED
  BY <1>1, Invariance, PTL

\* A job moves forward and is lost only to a crash.
THEOREM ForwardTheorem == Spec => JobsMoveForward
<1> DEFINE A == \A t \in Runs : jobs'[t] # jobs[t] =>
          \/ jobs[t] = "absent" /\ jobs'[t] = "running" /\ pc[t] = "idle"
          \/ jobs[t] = "running" /\ jobs'[t] \in {"completed", "failed"}
          \/ jobs'[t] = "absent" /\ crashes' > crashes
<1>1. IInv /\ [Next]_vars => [A]_vars
  <2> SUFFICES ASSUME IInv, Next, NEW t \in Runs, jobs'[t] # jobs[t]
               PROVE  \/ jobs[t] = "absent" /\ jobs'[t] = "running" /\ pc[t] = "idle"
                      \/ jobs[t] = "running" /\ jobs'[t] \in {"completed", "failed"}
                      \/ jobs'[t] = "absent" /\ crashes' > crashes
    OBVIOUS
  <2>1. CASE Crash
    BY <2>1, TaskAssumption DEF Crash, IInv, TypeOK
  <2>2. ASSUME NEW u \in Runs, Call(u)
        PROVE  jobs[t] = "absent" /\ jobs'[t] = "running" /\ pc[t] = "idle"
    BY <2>2 DEF Call, IInv, TypeOK, JobFollows
  <2>3. ASSUME NEW u \in Runs, Finish(u)
        PROVE  jobs[t] = "running" /\ jobs'[t] \in {"completed", "failed"}
    BY <2>3 DEF Finish, IInv, TypeOK, JobFollows
  <2>4. ASSUME NEW u \in Runs, RunTask(u) /\ ~Finish(u)
        PROVE  FALSE
    BY <2>4 DEF RunTask, Proceed, Spawn, SpawnFails, Write, WriteBreaks, Written, Collect, CollectFails, TimesOut,
                Answer, Return
  <2>5. ASSUME NEW u \in Runs, Drop(u) \/ Live(u) \/ CloseStdin(u) \/ LetGo(u)
        PROVE  FALSE
    BY <2>5 DEF Drop, Live, Read, Emit, ExitChild, CloseStdin, LetGo
  <2> QED
    BY <2>1, <2>2, <2>3, <2>4, <2>5 DEF Next
<1> QED
  BY <1>1, Invariance, PTL DEF Spec, JobsMoveForward

-----------------------------------------------------------------------------
(***************************************************************************)
(* What FittingTaskEnds rests on, fairness apart: run_task has boundedly   *)
(* many steps to take, and nothing but a full pipe keeps it from the next, *)
(* which an input that fits never fills.                                   *)
(***************************************************************************)

\* What is in the pipe and what is still to be written are parts of the payload.
PipeFollows(t) ==
    pc[t] = "writing" =>
        task[t].payload \in Nat /\ stdin[t].chunks + left[t] <= task[t].payload

\* An input that fits the pipe is written whatever the child does.
FittingWriterGoesOn ==
    \A t \in Runs :
        pc[t] = "writing" /\ task[t].payload <= PipeCapacity =>
            left[t] = 0 \/ ~stdin[t].read \/ stdin[t].chunks < PipeCapacity

LEMMA PipeStep ==
    ASSUME TypeOK, [Next]_vars, NEW t \in Runs, PipeFollows(t)
    PROVE  PipeFollows(t)'
<1> USE DEF PipeFollows
<1>1. /\ left[t] \in Nat /\ stdin[t].chunks \in Nat
      /\ task[t].payload = NoStdin \/ task[t].payload \in Nat
  BY TaskAssumption DEF TypeOK, Stdin, Task
<1>2. CASE Spawn(t)
  <2>1. task' = task /\ pc' \in {[pc EXCEPT ![t] = "waiting"], [pc EXCEPT ![t] = "writing"]}
    BY <1>2 DEF Spawn, Goto
  <2>2. CASE task[t].payload = NoStdin
    BY <1>2, <2>2 DEF Spawn, Goto, TypeOK
  <2>3. CASE task[t].payload # NoStdin
    <3>1. left'[t] = task[t].payload /\ stdin'[t].chunks = 0
      BY <1>2, <2>3 DEF Spawn, TypeOK
    <3> QED
      BY <1>1, <2>1, <2>3, <3>1
  <2> QED
    BY <2>2, <2>3
<1>3. CASE Write(t)
  <2>1. task' = task /\ pc[t] = "writing" /\ left[t] > 0
    BY <1>3 DEF Write
  <2>2. left'[t] = left[t] - 1
    BY <1>3 DEF Write, TypeOK
  <2>3. stdin'[t].chunks = stdin[t].chunks + 1
    BY <1>3 DEF Write, TypeOK, Stdin
  <2> QED
    BY <1>1, <2>1, <2>2, <2>3
<1>4. CASE Read(t)
  <2>1. UNCHANGED <<task, pc, left>> /\ stdin[t].chunks > 0
    BY <1>4 DEF Read
  <2>2. stdin'[t].chunks = stdin[t].chunks - 1
    BY <1>4 DEF Read, TypeOK, Stdin
  <2> QED
    BY <1>1, <2>1, <2>2
<1>5. CASE pc'[t] # "writing"
  BY <1>5
<1>6. CASE /\ pc'[t] = "writing"
           /\ ~(Spawn(t) \/ Write(t) \/ Read(t))
  <2> DEFINE Same == /\ task' = task /\ pc[t] = "writing" /\ left'[t] = left[t]
                     /\ stdin'[t].chunks = stdin[t].chunks
  <2>1. Same
    <3> USE DEF TypeOK, Stdin
    <3>1. ASSUME NEW u \in Runs, u # t, RunTask(u) PROVE Same
      <4>1. CASE Spawn(u)
        BY <1>6, <3>1, <4>1 DEF Spawn, Goto
      <4>2. CASE Write(u)
        BY <1>6, <3>1, <4>2 DEF Write
      <4>3. CASE Written(u)
        BY <1>6, <3>1, <4>3 DEF Written, Goto
      <4>4. CASE SpawnFails(u) \/ WriteBreaks(u) \/ Collect(u) \/ CollectFails(u) \/ TimesOut(u)
        BY <1>6, <3>1, <4>4 DEF SpawnFails, WriteBreaks, Collect, CollectFails, TimesOut, Return, Goto
      <4>5. CASE Finish(u) \/ Answer(u)
        BY <1>6, <3>1, <4>5 DEF Finish, Answer, Goto, childVars
      <4> QED
        BY <3>1, <4>1, <4>2, <4>3, <4>4, <4>5 DEF RunTask, Proceed
    <3>2. ASSUME RunTask(t) PROVE Same
      BY <1>6, <3>2 DEF RunTask, Proceed, SpawnFails, WriteBreaks, Written, Collect, CollectFails, TimesOut,
                        Finish, Answer, Return, Goto, childVars
    <3>3. ASSUME NEW u \in Runs, Call(u) \/ Drop(u) PROVE Same
      BY <1>6, <3>3 DEF Call, Drop, Goto, childVars
    <3>4. ASSUME NEW u \in Runs, Live(u) \/ CloseStdin(u) \/ LetGo(u) PROVE Same
      BY <1>6, <3>4, SMTT(30) DEF Live, Read, Emit, ExitChild, CloseStdin, LetGo
    <3>5. ASSUME Crash \/ UNCHANGED vars PROVE Same
      BY <1>6, <3>5, SMTT(30) DEF Crash, vars
    <3> QED
      BY <3>1, <3>2, <3>3, <3>4, <3>5 DEF Next
  <2> QED
    BY <2>1
<1> QED
  BY <1>2, <1>3, <1>4, <1>5, <1>6

\* A writer whose input fits is never held up.
THEOREM WriterTheorem == Spec => []FittingWriterGoesOn
<1> DEFINE Pipes == \A t \in Runs : PipeFollows(t)
<1>1. Init => Pipes
  BY DEF Init, PipeFollows
<1>2. TypeOK /\ Pipes /\ [Next]_vars => Pipes'
  BY PipeStep
<1>3. TypeOK /\ Pipes => FittingWriterGoesOn
  <2> SUFFICES ASSUME TypeOK, Pipes, NEW t \in Runs, pc[t] = "writing",
                      task[t].payload <= PipeCapacity, left[t] # 0
               PROVE  stdin[t].chunks < PipeCapacity
    BY DEF FittingWriterGoesOn
  <2>1. left[t] \in Nat /\ stdin[t].chunks \in Nat
    BY DEF TypeOK, Stdin
  <2> QED
    BY <2>1, TaskAssumption DEF PipeFollows
<1> QED
  BY <1>1, <1>2, <1>3, TypeCorrect, PTL DEF Spec

\* A bound on the steps run_task still has to take.
Size(t) == IF task[t].payload = NoStdin THEN 0 ELSE task[t].payload

StepsLeft(t) ==
    CASE pc[t] = "idle" -> Size(t) + 5
      [] pc[t] = "called" -> Size(t) + 4
      [] pc[t] = "writing" -> left[t] + 3
      [] pc[t] = "waiting" -> 2
      [] pc[t] = "returned" -> 1
      [] OTHER -> 0

\* run_task never goes round in circles: each of its steps leaves it fewer to take,
\* and nothing that requests, children, other runs or a crash do leaves it more.
RunsAreFinite ==
    [][\A t \in Runs : /\ StepsLeft(t)' <= StepsLeft(t)
                       /\ RunTask(t) => StepsLeft(t)' < StepsLeft(t)]_vars

LEMMA StepsLeftType ==
    ASSUME TypeOK, NEW t \in Runs
    PROVE  Size(t) \in Nat /\ StepsLeft(t) \in Nat
<1>1. Size(t) \in Nat
  BY TaskAssumption DEF TypeOK, Task, Size
<1>2. left[t] \in Nat
  BY DEF TypeOK
<1> QED
  BY <1>1, <1>2 DEF StepsLeft

LEMMA NextStepsType ==
    ASSUME TypeOK', NEW t \in Runs
    PROVE  StepsLeft(t)' \in Nat
<1>1. Size(t)' \in Nat
  BY TaskAssumption DEF TypeOK, Task, Size
<1>2. left'[t] \in Nat
  BY DEF TypeOK
<1> QED
  BY <1>1, <1>2 DEF StepsLeft

LEMMA OwnStepsShrink ==
    ASSUME TypeOK, NEW t \in Runs, RunTask(t)
    PROVE  StepsLeft(t)' < StepsLeft(t)
<1>1. Size(t) \in Nat /\ left[t] \in Nat
  BY StepsLeftType DEF TypeOK
<1> USE DEF StepsLeft
<1>2. CASE Spawn(t)
  <2>1. /\ pc[t] = "called"
        /\ \/ pc'[t] = "waiting"
           \/ pc'[t] = "writing" /\ left'[t] = Size(t)
    BY <1>2 DEF Spawn, Goto, TypeOK, Size
  <2> QED
    BY <1>1, <2>1
<1>3. CASE Write(t)
  <2>1. /\ pc[t] = "writing" /\ pc'[t] = "writing"
        /\ left'[t] = left[t] - 1 /\ left[t] > 0
    BY <1>3 DEF Write, TypeOK
  <2> QED
    BY <1>1, <2>1
<1>4. CASE Written(t)
  <2>1. pc[t] = "writing" /\ pc'[t] = "waiting"
    BY <1>4 DEF Written, Goto, TypeOK
  <2> QED
    BY <1>1, <2>1
<1>5. CASE SpawnFails(t) \/ WriteBreaks(t) \/ Collect(t) \/ CollectFails(t) \/ TimesOut(t)
  <2>1. pc[t] \in InTask /\ pc'[t] = "returned"
    BY <1>5 DEF SpawnFails, WriteBreaks, Collect, CollectFails, TimesOut, Return, Goto, TypeOK, InTask
  <2> QED
    BY <1>1, <2>1 DEF InTask
<1>6. CASE Finish(t) \/ Answer(t)
  <2>1. pc[t] = "returned" /\ pc'[t] = "answered"
    BY <1>6 DEF Finish, Answer, Goto, TypeOK
  <2> QED
    BY <1>1, <2>1
<1> QED
  BY <1>2, <1>3, <1>4, <1>5, <1>6 DEF RunTask, Proceed

LEMMA OtherStepsSpare ==
    ASSUME TypeOK, [Next]_vars, NEW t \in Runs, ~RunTask(t)
    PROVE  StepsLeft(t)' <= StepsLeft(t)
<1> DEFINE Same == task' = task /\ pc'[t] = pc[t] /\ left'[t] = left[t]
           Over == pc'[t] \in {"dropped", "lost"}
           Called == task' = task /\ pc[t] = "idle" /\ pc'[t] = "called"
<1>1. Same \/ Over \/ Called
  <2> USE DEF TypeOK
  <2>1. ASSUME NEW u \in Runs, RunTask(u) PROVE Same
    <3>0. u # t
      BY <2>1
    <3>1. CASE Spawn(u)
      BY <3>0, <3>1 DEF Spawn, Goto
    <3>2. CASE Write(u)
      BY <3>0, <3>2 DEF Write
    <3>3. CASE Written(u) \/ Finish(u) \/ Answer(u)
      BY <3>0, <3>3 DEF Written, Finish, Answer, Goto
    <3>4. CASE SpawnFails(u) \/ WriteBreaks(u) \/ Collect(u) \/ CollectFails(u) \/ TimesOut(u)
      BY <3>0, <3>4 DEF SpawnFails, WriteBreaks, Collect, CollectFails, TimesOut, Return, Goto
    <3> QED
      BY <2>1, <3>1, <3>2, <3>3, <3>4 DEF RunTask, Proceed
  <2>2. ASSUME NEW u \in Runs, Call(u) PROVE Same \/ Called
    BY <2>2 DEF Call, Goto
  <2>3. ASSUME NEW u \in Runs, Drop(u) PROVE Same \/ Over
    BY <2>3 DEF Drop, Goto
  <2>4. ASSUME NEW u \in Runs, Live(u) \/ CloseStdin(u) \/ LetGo(u) PROVE Same
    BY <2>4 DEF Live, Read, Emit, ExitChild, CloseStdin, LetGo
  <2>5. CASE Crash
    BY <2>5 DEF Crash
  <2>6. CASE UNCHANGED vars
    BY <2>6 DEF vars
  <2> QED
    BY <2>1, <2>2, <2>3, <2>4, <2>5, <2>6 DEF Next
<1>2. Size(t) \in Nat /\ StepsLeft(t) \in Nat
  BY StepsLeftType
<1>3. CASE Same
  <2>1. StepsLeft(t)' = StepsLeft(t)
    BY <1>3 DEF StepsLeft, Size
  <2> QED
    BY <1>2, <2>1
<1>4. CASE Over
  BY <1>2, <1>4 DEF StepsLeft
<1>5. CASE Called
  <2>1. Size(t)' = Size(t)
    BY <1>5 DEF Size
  <2> QED
    BY <1>2, <1>5, <2>1 DEF StepsLeft
<1> QED
  BY <1>1, <1>3, <1>4, <1>5

\* A call of run_task takes boundedly many steps: with WriterTheorem, all that is
\* left to fairness in FittingTaskEnds is that steps which can be taken are.
THEOREM FiniteTheorem == Spec => RunsAreFinite
<1>1. TypeOK /\ TypeOK' /\ [Next]_vars
        => [\A t \in Runs : /\ StepsLeft(t)' <= StepsLeft(t)
                            /\ RunTask(t) => StepsLeft(t)' < StepsLeft(t)]_vars
  <2> SUFFICES ASSUME TypeOK, TypeOK', [Next]_vars, NEW t \in Runs
               PROVE  /\ StepsLeft(t)' <= StepsLeft(t)
                      /\ RunTask(t) => StepsLeft(t)' < StepsLeft(t)
    OBVIOUS
  <2>1. CASE RunTask(t)
    <3>1. StepsLeft(t) \in Nat /\ StepsLeft(t)' \in Nat
      BY StepsLeftType, NextStepsType
    <3> QED
      BY <2>1, <3>1, OwnStepsShrink
  <2>2. CASE ~RunTask(t)
    BY <2>2, OtherStepsSpare
  <2> QED
    BY <2>1, <2>2
<1> QED
  BY <1>1, TypeCorrect, PTL DEF Spec, RunsAreFinite

=============================================================================
