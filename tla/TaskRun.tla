------------------------------- MODULE TaskRun -------------------------------
(***************************************************************************)
(* Child processes and in-memory jobs: run_or_enqueue, run_task and the    *)
(* JobStore of process.rs.                                                 *)
(*                                                                         *)
(* run_task spawns the child, writes all of its standard input, and only   *)
(* then starts the timeout under which it reads standard output and waits. *)
(* A sync task runs inside its request and dies with it; an async task is  *)
(* detached and reports to the JobStore, which lives in memory.  Data is   *)
(* counted in chunks, and the pipes between the two hold PipeCapacity.     *)
(***************************************************************************)
EXTENDS Naturals, FiniteSets

CONSTANTS
    Runs,           \* calls of run_or_enqueue
    Modes,          \* a subset of {"sync", "async"}
    Payloads,       \* sizes of the rendered stdin, NoStdin for type = "none"
    NoStdin,
    Programs,       \* a subset of {"filter", "free"}: what the children are
    Formats,        \* a subset of {"text", "json"}
    PipeCapacity,   \* what the operating system buffers in each pipe
    MaxStdout,      \* max_stdout_bytes
    MaxOutput,      \* bound on what a free child prints
    MaxCrashes      \* bound on the crashes of the gateway

Task == [mode : Modes, payload : Payloads, program : Programs, format : Formats]

ASSUME TaskAssumption ==
    /\ IsFiniteSet(Runs)
    /\ Modes \subseteq {"sync", "async"}
    /\ NoStdin \notin Nat
    /\ Payloads \subseteq Nat \cup {NoStdin}
    /\ Programs \subseteq {"filter", "free"}
    /\ Formats \subseteq {"text", "json"}
    /\ {PipeCapacity, MaxStdout, MaxOutput, MaxCrashes} \subseteq Nat

VARIABLES
    task,       \* the configuration and input of each run
    pc,         \* where run_task is
    left,       \* chunks of stdin not yet in the pipe
    child,      \* the child process of each run
    stdin,      \* the pipe to the child: chunks in it, whether each end is open
    owed,       \* chunks a filter has read and not yet printed
    made,       \* chunks the child has printed
    exit,       \* how the child ended, if it did by itself
    outcome,    \* what run_task returned
    jobs,       \* the JobStore, with the job of each run under the run's name
    crashes

vars == <<task, pc, left, child, stdin, owed, made, exit, outcome, jobs, crashes>>
childVars == <<child, stdin, owed, made, exit>>

InTask == {"called", "writing", "waiting"}
Outcomes == {"ok", "not_ok", "timed_out", "error"}

\* success: the exit code is one of success_exit_codes; whole, prefix: all of
\* the output, and its first MaxStdout chunks, parse as JSON; held: a process
\* the child left behind keeps standard output open.
Exit == [success : BOOLEAN, whole : BOOLEAN, prefix : BOOLEAN, held : BOOLEAN]
NoExit == [success |-> FALSE, whole |-> FALSE, prefix |-> FALSE, held |-> FALSE]

Stdin == [chunks : Nat, written : BOOLEAN, read : BOOLEAN]

TypeOK ==
    /\ task \in [Runs -> Task]
    /\ pc \in [Runs -> InTask \cup {"idle", "returned", "answered", "dropped", "lost"}]
    /\ left \in [Runs -> Nat]
    /\ child \in [Runs -> {"none", "alive", "exited", "killed"}]
    /\ stdin \in [Runs -> Stdin]
    /\ owed \in [Runs -> Nat]
    /\ made \in [Runs -> Nat]
    /\ exit \in [Runs -> Exit]
    /\ outcome \in [Runs -> Outcomes \cup {"none"}]
    /\ jobs \in [Runs -> {"absent", "running", "completed", "failed"}]
    /\ crashes \in 0..MaxCrashes

Init ==
    /\ task \in [Runs -> Task]
    /\ pc = [t \in Runs |-> "idle"]
    /\ left = [t \in Runs |-> 0]
    /\ child = [t \in Runs |-> "none"]
    /\ stdin = [t \in Runs |-> [chunks |-> 0, written |-> FALSE, read |-> FALSE]]
    /\ owed = [t \in Runs |-> 0]
    /\ made = [t \in Runs |-> 0]
    /\ exit = [t \in Runs |-> NoExit]
    /\ outcome = [t \in Runs |-> "none"]
    /\ jobs = [t \in Runs |-> "absent"]
    /\ crashes = 0

-----------------------------------------------------------------------------
\* The gateway.

Goto(t, p) == pc' = [pc EXCEPT ![t] = p]

\* run_or_enqueue: an async task is in the store before anything else happens.
Call(t) ==
    /\ pc[t] = "idle"
    /\ Goto(t, "called")
    /\ jobs' = [jobs EXCEPT ![t] = IF task[t].mode = "async" THEN "running" ELSE @]
    /\ UNCHANGED <<task, left, childVars, outcome, crashes>>

Spawn(t) ==
    /\ pc[t] = "called"
    /\ child' = [child EXCEPT ![t] = "alive"]
    /\ IF task[t].payload = NoStdin
       THEN /\ Goto(t, "waiting")
            /\ UNCHANGED <<left, stdin>>
       ELSE /\ Goto(t, "writing")
            /\ left' = [left EXCEPT ![t] = task[t].payload]
            /\ stdin' = [stdin EXCEPT ![t] = [chunks |-> 0, written |-> TRUE, read |-> TRUE]]
    /\ UNCHANGED <<task, owed, made, exit, outcome, jobs, crashes>>

\* write_all puts what fits into the pipe.
Write(t) ==
    /\ pc[t] = "writing"
    /\ left[t] > 0
    /\ stdin[t].read
    /\ stdin[t].chunks < PipeCapacity
    /\ left' = [left EXCEPT ![t] = @ - 1]
    /\ stdin' = [stdin EXCEPT ![t].chunks = @ + 1]
    /\ UNCHANGED <<task, pc, child, owed, made, exit, outcome, jobs, crashes>>

\* All is written: stdin is dropped, which closes it, and the timeout starts.
Written(t) ==
    /\ pc[t] = "writing"
    /\ left[t] = 0
    /\ stdin' = [stdin EXCEPT ![t].written = FALSE]
    /\ Goto(t, "waiting")
    /\ UNCHANGED <<task, left, child, owed, made, exit, outcome, jobs, crashes>>

\* Mutant of Killed: kill_on_drop is not set.
LeftAlone(t) == child

\* kill_on_drop: dropping the future of run_task kills a child still alive.
Killed(t) == [child EXCEPT ![t] = IF @ = "alive" THEN "killed" ELSE @]

\* run_task returns, and what it held is dropped.
Return(t, what) ==
    /\ Goto(t, "returned")
    /\ outcome' = [outcome EXCEPT ![t] = what]
    /\ child' = Killed(t)
    /\ stdin' = [stdin EXCEPT ![t].written = FALSE]
    /\ UNCHANGED <<task, left, owed, made, exit, jobs, crashes>>

\* A template does not render, or the command cannot be spawned.
SpawnFails(t) ==
    /\ pc[t] = "called"
    /\ Return(t, "error")

\* Nobody will read what is left to write: `write_all(..).await?` returns EPIPE.
WriteBreaks(t) ==
    /\ pc[t] = "writing"
    /\ left[t] > 0
    /\ ~stdin[t].read
    /\ Return(t, "error")

\* The captured output is cut to MaxStdout before it is parsed.
Parses(t) == IF made[t] > MaxStdout THEN exit[t].prefix ELSE exit[t].whole

\* Mutant of Judged: any exit is a success.
JudgedOk(t) == "ok"

\* exit_ok && json_ok
Judged(t) ==
    IF exit[t].success /\ (task[t].format = "json" => Parses(t)) THEN "ok" ELSE "not_ok"

\* wait_with_output: the child has exited and its output has ended.
Collect(t) ==
    /\ pc[t] = "waiting"
    /\ child[t] = "exited"
    /\ ~exit[t].held
    /\ Return(t, Judged(t))

\* wait_with_output fails to read a pipe or to wait for the child.
CollectFails(t) ==
    /\ pc[t] = "waiting"
    /\ Return(t, "error")

\* Mutant of TimesOut: the timeout covers the child, not its output.
TimesOutOnExit(t) ==
    /\ pc[t] = "waiting"
    /\ child[t] = "alive"
    /\ Return(t, "timed_out")

\* timeout_ms elapses, counted from the end of Written (or from Spawn).
TimesOut(t) ==
    /\ pc[t] = "waiting"
    /\ Return(t, "timed_out")

\* Mutant of Finish: a job whose run returned is completed.
FinishCompleted(t) ==
    /\ pc[t] = "returned"
    /\ task[t].mode = "async"
    /\ Goto(t, "answered")
    /\ jobs' = [jobs EXCEPT ![t] = IF @ = "absent" THEN @ ELSE "completed"]
    /\ UNCHANGED <<task, left, childVars, outcome, crashes>>

\* JobStore::finish, which looks the job up and keeps quiet if it is gone.
Finish(t) ==
    /\ pc[t] = "returned"
    /\ task[t].mode = "async"
    /\ Goto(t, "answered")
    /\ jobs' = [jobs EXCEPT ![t] = IF @ = "absent" THEN @
                                   ELSE IF outcome[t] = "ok" THEN "completed" ELSE "failed"]
    /\ UNCHANGED <<task, left, childVars, outcome, crashes>>

\* Mutant of Answer: a sync task that returned is also stored.
AnswerStored(t) ==
    /\ pc[t] = "returned"
    /\ task[t].mode = "sync"
    /\ Goto(t, "answered")
    /\ jobs' = [jobs EXCEPT ![t] = "completed"]
    /\ UNCHANGED <<task, left, childVars, outcome, crashes>>

\* The TaskOutput (or the error) of a sync task becomes the response.
Answer(t) ==
    /\ pc[t] = "returned"
    /\ task[t].mode = "sync"
    /\ Goto(t, "answered")
    /\ UNCHANGED <<task, left, childVars, outcome, jobs, crashes>>

\* The request ends first: its deadline passes or its client leaves.  Only a
\* sync task is part of the request's future.
Drop(t) ==
    /\ pc[t] \in InTask
    /\ task[t].mode = "sync"
    /\ Goto(t, "dropped")
    /\ child' = Killed(t)
    /\ stdin' = [stdin EXCEPT ![t].written = FALSE]
    /\ UNCHANGED <<task, left, owed, made, exit, outcome, jobs, crashes>>

\* The gateway dies and starts again: its runs and jobs are gone, and nobody
\* kills the children.
Crash ==
    /\ crashes < MaxCrashes
    /\ crashes' = crashes + 1
    /\ pc' = [t \in Runs |-> IF pc[t] = "idle" THEN "idle" ELSE "lost"]
    /\ stdin' = [t \in Runs |-> [stdin[t] EXCEPT !.written = FALSE]]
    /\ jobs' = [t \in Runs |-> "absent"]
    /\ UNCHANGED <<task, left, child, owed, made, exit, outcome>>

-----------------------------------------------------------------------------
\* The children.  A filter prints a chunk for each chunk it reads and exits at
\* the end of its input; a free child does anything, or nothing.

Read(t) ==
    /\ child[t] = "alive"
    /\ stdin[t].read
    /\ stdin[t].chunks > 0
    /\ task[t].program = "filter" => owed[t] = 0
    /\ stdin' = [stdin EXCEPT ![t].chunks = @ - 1]
    /\ owed' = [owed EXCEPT ![t] = IF task[t].program = "filter" THEN 1 ELSE 0]
    /\ UNCHANGED <<task, pc, left, child, made, exit, outcome, jobs, crashes>>

\* While run_task waits it empties the pipe; while it writes nobody does.
Emit(t) ==
    /\ child[t] = "alive"
    /\ \/ pc[t] = "waiting"
       \/ pc[t] = "writing" /\ made[t] < PipeCapacity
    /\ IF task[t].program = "filter" THEN owed[t] > 0 ELSE made[t] < MaxOutput
    /\ made' = [made EXCEPT ![t] = @ + 1]
    /\ owed' = [owed EXCEPT ![t] = 0]
    /\ UNCHANGED <<task, pc, left, child, stdin, exit, outcome, jobs, crashes>>

CloseStdin(t) ==
    /\ child[t] = "alive"
    /\ task[t].program = "free"
    /\ stdin[t].read
    /\ stdin' = [stdin EXCEPT ![t].read = FALSE]
    /\ UNCHANGED <<task, pc, left, child, owed, made, exit, outcome, jobs, crashes>>

\* A child without a gateway may also be ended by the closed pipes.
MayExit(t) ==
    \/ task[t].program = "free"
    \/ pc[t] = "lost"
    \/ stdin[t].chunks = 0 /\ ~stdin[t].written /\ owed[t] = 0

ExitChild(t) ==
    /\ child[t] = "alive"
    /\ MayExit(t)
    /\ \E e \in Exit :
          /\ task[t].program = "filter" => ~e.held
          /\ task[t].format = "text" => e.whole /\ e.prefix
          /\ exit' = [exit EXCEPT ![t] = e]
    /\ child' = [child EXCEPT ![t] = "exited"]
    /\ stdin' = [stdin EXCEPT ![t].read = FALSE]
    /\ UNCHANGED <<task, pc, left, owed, made, outcome, jobs, crashes>>

\* The process the child left behind closes standard output.
LetGo(t) ==
    /\ child[t] = "exited"
    /\ exit[t].held
    /\ exit' = [exit EXCEPT ![t].held = FALSE]
    /\ UNCHANGED <<task, pc, left, child, stdin, owed, made, outcome, jobs, crashes>>

-----------------------------------------------------------------------------
Proceed(t) ==
    \/ Spawn(t) \/ SpawnFails(t)
    \/ Write(t) \/ WriteBreaks(t) \/ Written(t)
    \/ Collect(t) \/ TimesOut(t)
    \/ Finish(t) \/ Answer(t)

RunTask(t) == Proceed(t) \/ CollectFails(t)

Live(t) == Read(t) \/ Emit(t) \/ ExitChild(t)

Next ==
    \/ \E t \in Runs : \/ Call(t) \/ RunTask(t) \/ Drop(t)
                       \/ Live(t) \/ CloseStdin(t) \/ LetGo(t)
    \/ Crash

Spec == Init /\ [][Next]_vars

\* The runtime polls what can proceed and the timer fires, while I/O need not fail;
\* a filter is never idle when it could read, print or exit.
FairSpec ==
    /\ Spec
    /\ \A t \in Runs : /\ WF_vars(Proceed(t))
                       /\ WF_vars(task[t].program = "filter" /\ Live(t))

-----------------------------------------------------------------------------
\* When a run is over the child it spawned is not running, whether it ended by a
\* timeout, a broken pipe or a dropped request (process.rs:226).  This is about the
\* child only: nothing kills a process that the child itself started.
NoChildOutlivesRun ==
    \A t \in Runs : pc[t] \in {"returned", "answered", "dropped"} => child[t] # "alive"

\* "ok" is earned: the child exited by itself with a success code, its output
\* had ended, and a json task's captured output parsed.
OkIsEarned ==
    \A t \in Runs : outcome[t] = "ok" =>
        /\ child[t] = "exited"
        /\ exit[t].success /\ ~exit[t].held
        /\ task[t].format = "json" => Parses(t)

\* The JobStore agrees with what happened: only async tasks have jobs, one is
\* running until its task returned, and completed means that it was ok.
JobsTellTheOutcome ==
    \A t \in Runs :
        /\ jobs[t] # "absent" => task[t].mode = "async"
        /\ jobs[t] = "running" => pc[t] \in InTask \cup {"returned"}
        /\ jobs[t] = "completed" => outcome[t] = "ok"
        /\ jobs[t] = "failed" => outcome[t] \in Outcomes \ {"ok"}

\* Whoever polls a job sees it run, end at most once, and after that always the
\* same; only a crash takes a job away.
JobsMoveForward ==
    [][\A t \in Runs : jobs'[t] # jobs[t] =>
          \/ jobs[t] = "absent" /\ jobs'[t] = "running" /\ pc[t] = "idle"
          \/ jobs[t] = "running" /\ jobs'[t] \in {"completed", "failed"}
          \/ jobs'[t] = "absent" /\ crashes' > crashes]_vars

\* An accepted job of a gateway that stays up is found by its identifier.
AcceptedJobIsFound ==
    \A t \in Runs : pc[t] \in InTask /\ task[t].mode = "async" => jobs[t] = "running"

\* Every task that was called ends, and an async one reports: the timeout ends
\* what does not end by itself.
EveryTaskEnds ==
    \A t \in Runs : pc[t] = "called" ~> pc[t] \in {"answered", "dropped", "lost"}

\* A task whose input fits the pipe ends, whatever its child does: hang, close
\* its input unread, or leave standard output open to another process.
FittingTaskEnds ==
    \A t \in Runs :
        pc[t] = "called" /\ (task[t].payload = NoStdin \/ task[t].payload <= PipeCapacity)
            ~> pc[t] \in {"answered", "dropped", "lost"}

=============================================================================
