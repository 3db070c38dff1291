------------------------------ MODULE Lifecycle ------------------------------
(***************************************************************************)
(* The life of an artur process: main.rs, with load_config and the router. *)
(*                                                                         *)
(* The process loads its configuration, and ends (check), or builds its    *)
(* router, binds, serves until a signal, drains its connections for at     *)
(* most the shutdown timeout, and drops its runtime.  Each request comes   *)
(* over a connection of its own; idle connections are closed by the drain  *)
(* and hold nothing up.  Dropping the runtime aborts every task, that is   *)
(* connections with their handlers, enqueued jobs and the connections to   *)
(* PostgreSQL, but waits for SQLite, which runs in blocking threads.       *)
(***************************************************************************)
EXTENDS Configuration, FiniteSets

CONSTANTS
    Requests,
    Sources     \* what may be loaded: [raw, config, parses], the text, what it parses to,
                \* and whether it can be read and, expanded, parses at all

\* A text is read, EndpointAction and WorkflowStepKind are enums, endpoints and steps lists.
ASSUME SourcesAssumption ==
    \A s \in Sources :
        /\ s.raw \in Seq(STRING)
        /\ EnumsKnown(s.config) /\ DOMAIN s.config.endpoints \subseteq Nat
        /\ \A i \in DOMAIN s.config.endpoints :
              LET steps == s.config.endpoints[i].steps IN steps \in Seq(Range(steps))

ASSUME RequestsAssumption == IsFiniteSet(Requests)

ASSUME NoneAssumption == None \notin {"ok", "error", "panic", "killed"}

VARIABLES
    source,     \* what the process is started with
    command,    \* "check" or "serve"
    phase,
    text,       \* the expanded text of the configuration
    code,       \* how the process ends: "ok" or "error", by a "panic" or "killed"; None before
    conn,       \* the connection of each request, or how it ended
    target,     \* the endpoint of each request
    sql,        \* SQL of each request: "local" is SQLite's in a blocking thread, "remote"
                \* PostgreSQL's over a task of the runtime; it is "done", "cut" off in
                \* the middle, or "unheard", when no one learns how the server ends it
    job         \* the job that each request enqueued

vars == <<source, command, phase, text, code, conn, target, sql, job>>

config == source.config
endpoint(r) == config.endpoints[target[r]]

Running == {"serving", "draining"}
Open == {"reading", "handling"}

TypeOK ==
    /\ source \in Sources
    /\ command \in {"check", "serve"}
    /\ phase \in {"start", "loaded", "built", "stopping", "exited"} \cup Running
    /\ code \in {None, "ok", "error", "panic", "killed"}
    /\ conn \in [Requests -> Open \cup {"none", "answered", "misconfigured", "gone", "aborted"}]
    /\ target \in [Requests -> Nat]
    /\ sql \in [Requests -> {"none", "local", "remote", "done", "cut", "unheard"}]
    /\ job \in [Requests -> {"none", "running", "done", "lost"}]

Init ==
    /\ source \in Sources
    /\ command \in {"check", "serve"}
    /\ phase = "start"
    /\ text = <<>>
    /\ code = None
    /\ conn = [r \in Requests |-> "none"]
    /\ target = [r \in Requests |-> 0]
    /\ sql = [r \in Requests |-> "none"]
    /\ job = [r \in Requests |-> "none"]

-----------------------------------------------------------------------------
ExitWith(c) == phase' = "exited" /\ code' = c

\* load_config(); the check command ends here.
Load ==
    /\ phase = "start"
    /\ text' = Expand(source.raw).text
    /\ IF source.parses /\ Expand(source.raw).ok /\ Accepts(config)
       THEN IF command = "check" THEN ExitWith("ok") ELSE phase' = "loaded" /\ code' = code
       ELSE ExitWith("error")
    /\ UNCHANGED <<source, command, conn, target, sql, job>>

\* build_router(): registering the routes succeeds or panics.
Build ==
    /\ phase = "loaded"
    /\ IF RoutesClash(config) THEN ExitWith("panic") ELSE phase' = "built" /\ code' = code
    /\ UNCHANGED <<source, command, text, conn, target, sql, job>>

\* The address parses and can be bound, or else the process ends.
Bind ==
    /\ phase = "built"
    /\ ExitWith("error") \/ (phase' = "serving" /\ code' = code)
    /\ UNCHANGED <<source, command, text, conn, target, sql, job>>

-----------------------------------------------------------------------------
Becomes(r, c) == conn' = [conn EXCEPT ![r] = c]

\* The server accepts a connection and the head of a request begins to arrive.
Connect(r) ==
    /\ phase = "serving"
    /\ conn[r] = "none"
    /\ Becomes(r, "reading")
    /\ \E i \in DOMAIN config.endpoints : target' = [target EXCEPT ![r] = i]
    /\ UNCHANGED <<source, command, phase, text, code, sql, job>>

\* The request is complete and its handler starts, during the drain too.
Receive(r) ==
    /\ phase \in Running
    /\ conn[r] = "reading"
    /\ Becomes(r, "handling")
    /\ UNCHANGED <<source, command, phase, text, code, target, sql, job>>

\* A store operation of the handler begins; the first of each request stands for all.
StartSql(r) ==
    /\ phase \in Running
    /\ conn[r] = "handling"
    /\ sql[r] = "none"
    /\ \/ UsesDriver(config, endpoint(r), "sqlite") /\ sql' = [sql EXCEPT ![r] = "local"]
       \/ UsesDriver(config, endpoint(r), "postgres") /\ sql' = [sql EXCEPT ![r] = "remote"]
    /\ UNCHANGED <<source, command, phase, text, code, conn, target, job>>

\* SQL ends whether or not its handler still waits for it, SQLite's even while the
\* runtime is dropped.
SqlEnds(r) ==
    /\ sql[r] \in {"local", "remote"}
    /\ phase # "exited"
    /\ sql' = [sql EXCEPT ![r] = "done"]
    /\ UNCHANGED <<source, command, phase, text, code, conn, target, job>>

\* The handler has a response: one that is the gateway's own fault only if it looked
\* up something that is not there.  It awaits its SQL, unless a step of a workflow
\* failed beside it.  An async task is enqueued and answered.
Answer(r) ==
    /\ phase \in Running
    /\ conn[r] = "handling"
    /\ sql[r] \in {"local", "remote"} => endpoint(r).action = "workflow.run"
    /\ \/ Becomes(r, "answered") /\ UNCHANGED job
       \/ Becomes(r, "misconfigured") /\ UNCHANGED job
          /\ ~(ReferencesResolve(config, endpoint(r)) /\ ValuesServe(config, endpoint(r)))
       \/ /\ IsAsync(config, endpoint(r))
          /\ Becomes(r, "answered") /\ job' = [job EXCEPT ![r] = "running"]
    /\ UNCHANGED <<source, command, phase, text, code, target, sql>>

\* The deadline of the endpoint answers for the handler and drops it.
DeadlinePasses(r) ==
    /\ phase \in Running
    /\ conn[r] = "handling"
    /\ endpoint(r).timeout_ms # None
    /\ Becomes(r, "answered")
    /\ UNCHANGED <<source, command, phase, text, code, target, sql, job>>

\* The client closes its connection.
Leave(r) ==
    /\ phase \in Running
    /\ conn[r] \in Open
    /\ Becomes(r, "gone")
    /\ UNCHANGED <<source, command, phase, text, code, target, sql, job>>

JobEnds(r) ==
    /\ phase \in Running
    /\ job[r] = "running"
    /\ job' = [job EXCEPT ![r] = "done"]
    /\ UNCHANGED <<source, command, phase, text, code, conn, target, sql>>

-----------------------------------------------------------------------------
\* SIGINT or SIGTERM: the listener is closed.
Signal ==
    /\ phase = "serving"
    /\ phase' = "draining"
    /\ UNCHANGED <<source, command, text, code, conn, target, sql, job>>

Unheard(r) == IF sql[r] = "remote" THEN "unheard" ELSE sql[r]

\* main() returns, and its runtime begins to be dropped, the connections of
\* postgres_client() with it.
Stop(c) ==
    /\ phase' = "stopping"
    /\ code' = c
    /\ conn' = [r \in Requests |-> IF conn[r] \in Open THEN "aborted" ELSE conn[r]]
    /\ job' = [r \in Requests |-> IF job[r] = "running" THEN "lost" ELSE job[r]]
    /\ sql' = [r \in Requests |-> Unheard(r)]
    /\ UNCHANGED <<source, command, text, target>>

\* Mutant of Drained: a request that is still being read does not count.
DrainedOfHandlers ==
    /\ phase = "draining"
    /\ \A r \in Requests : conn[r] # "handling"
    /\ Stop("ok")

\* Every connection has been closed.
Drained ==
    /\ phase = "draining"
    /\ \A r \in Requests : conn[r] \notin Open
    /\ Stop("ok")

\* Mutant of DrainTimesOut: the timeout waits for the handlers.
DrainTimesOutLate ==
    /\ phase = "draining"
    /\ config.shutdown_timeout # None
    /\ \A r \in Requests : conn[r] # "handling"
    /\ Stop("error")

\* The drain takes longer than runtime.shutdown_timeout_secs.
DrainTimesOut ==
    /\ phase = "draining"
    /\ config.shutdown_timeout # None
    /\ Stop("error")

\* Mutant of Exit: blocking threads are not waited for.
ExitAtOnce ==
    /\ phase = "stopping"
    /\ phase' = "exited"
    /\ sql' = [r \in Requests |-> IF sql[r] = "local" THEN "cut" ELSE sql[r]]
    /\ UNCHANGED <<source, command, text, code, conn, target, job>>

\* The runtime is gone when its blocking threads have ended.
Exit ==
    /\ phase = "stopping"
    /\ \A r \in Requests : sql[r] # "local"
    /\ phase' = "exited"
    /\ UNCHANGED <<source, command, text, code, conn, target, sql, job>>

\* SIGKILL, or the end of the host.
Kill ==
    /\ phase # "exited"
    /\ ExitWith("killed")
    /\ conn' = [r \in Requests |-> IF conn[r] \in Open THEN "aborted" ELSE conn[r]]
    /\ job' = [r \in Requests |-> IF job[r] = "running" THEN "lost" ELSE job[r]]
    /\ sql' = [r \in Requests |-> IF sql[r] = "local" THEN "cut" ELSE Unheard(r)]
    /\ UNCHANGED <<source, command, text, target>>

Next ==
    \/ Load \/ Build \/ Bind
    \/ \E r \in Requests :
          \/ Connect(r) \/ Receive(r) \/ StartSql(r) \/ SqlEnds(r) \/ Answer(r)
          \/ DeadlinePasses(r) \/ Leave(r) \/ JobEnds(r)
    \/ Signal \/ Drained \/ DrainTimesOut \/ Exit \/ Kill

Spec == Init /\ [][Next]_vars

\* The timer of the drain fires and the runtime is dropped.  That SQL ends is the
\* one assumption about the outside: no timeout covers SQLite's.  Nothing else is fair,
\* neither clients nor handlers.
Fairness ==
    /\ WF_vars(Drained \/ DrainTimesOut)
    /\ WF_vars(Exit)
    /\ \A r \in Requests : WF_vars(SqlEnds(r))

FairSpec == Spec /\ Fairness

-----------------------------------------------------------------------------
\* Expansion replaces every reference by the value of its variable, once, and leaves
\* everything else as it is.  A process comes past loading only if each reference is
\* well-formed and names a variable that is set, and the check of a configuration that
\* is otherwise accepted fails only if one is not.
ExpansionIsExact ==
    /\ phase \in {"loaded", "built", "stopping"} \cup Running =>
          Expandable(source.raw) /\ text = Expansion(source.raw)
    /\ command = "check" /\ code = "error" /\ source.parses /\ Accepts(config) =>
          ~Expandable(source.raw)

\* What an accepted configuration refers to is there whenever a request looks it up:
\* an answer that is the configuration's fault is due to a value, not to a reference.
AcceptedReferencesResolve ==
    \A r \in Requests :
        conn[r] \in {"handling", "answered", "misconfigured"} =>
            ReferencesResolve(config, endpoint(r))

\* A request that was received or was being read is given up by the gateway only if
\* the drain took longer than the configured timeout, and then the process says so.
AbortIsReported ==
    \A r \in Requests :
        conn[r] = "aborted" =>
            code = "killed" \/ (code = "error" /\ config.shutdown_timeout # None)

\* No one waits for the SQL of the request: its client has left, its deadline may
\* have passed, or another step of its workflow may have failed.
MayOutliveHandler(r) ==
    \/ conn[r] = "gone"
    \/ endpoint(r).timeout_ms # None
    \/ endpoint(r).action = "workflow.run"

\* A process that ends by itself cuts off no SQLite that it has begun: it waits for
\* the blocking threads.  For PostgreSQL it does not wait, its connections go with
\* the runtime, but if the drain went well such SQL had lost its handler before.
CleanExit ==
    phase = "exited" /\ code # "killed" =>
        \A r \in Requests :
            /\ sql[r] \notin {"local", "cut"}
            /\ sql[r] = "unheard" /\ code = "ok" => MayOutliveHandler(r)

\* With a shutdown timeout a signal ends the process, whatever clients and handlers do.
ShutdownEnds ==
    phase = "draining" /\ config.shutdown_timeout # None ~> phase = "exited"

=============================================================================
