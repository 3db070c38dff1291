---------------------------- MODULE Configuration ----------------------------
(***************************************************************************)
(* Configurations: the expansion of environment references, the validation *)
(* and the lookups that requests make later.  config.rs:455-980, with the  *)
(* lookups of server.rs, security.rs, workflow.rs and store.rs.            *)
(*                                                                         *)
(* A configuration is a record shaped like AppConfig.  Strings stand for   *)
(* themselves where they are names; "" is a blank one, None an absent      *)
(* field.  A path is what stands between its slashes, a sequence of        *)
(* segments [kind, name]: nothing ("empty"), a literal ("text"), a         *)
(* parameter written :name ("colon") or {name} ("brace"), a literal with   *)
(* :name inside ("inner"), or one that axum refuses, such as a lone colon  *)
(* ("odd").                                                                *)
(***************************************************************************)
EXTENDS Integers, Sequences, SequencesExt

CONSTANTS
    None,       \* an absent field
    I64Max,     \* i64::MAX
    Env         \* the environment: the value of each variable, names and values in tokens

\* Names are free: an environment may define what no reference can name.
ASSUME EnvAssumption == \A n \in DOMAIN Env : Env[n] \in Seq(STRING)

-----------------------------------------------------------------------------
(* Expansion.  A text is a sequence of tokens: "open" is what opens a      *)
(* reference, $ and {, "close" is }, and the others stand for themselves.  *)

Letters == {"A", "B"}
Word == Letters \cup {"1"}

Failed == [ok |-> FALSE, text |-> <<>>]

\* The name between two positions: letters, digits and underscores, no digit first.
NameBetween(raw, i, j) == SubSeq(raw, i + 1, j - 1)
IsName(name) == name # <<>> /\ name[1] \in Letters /\ \A n \in DOMAIN name : name[n] \in Word

\* Mutant of CloseAfter: the last "close" of the text.
CloseLast(raw, i) ==
    IF \E j \in DOMAIN raw : j > i /\ raw[j] = "close"
    THEN CHOOSE j \in DOMAIN raw : raw[j] = "close" /\ \A k \in DOMAIN raw : raw[k] = "close" => k <= j
    ELSE 0

\* The first "close" after a position; 0 if there is none.
CloseAfter(raw, i) ==
    IF \E j \in DOMAIN raw : j > i /\ raw[j] = "close"
    THEN CHOOSE j \in DOMAIN raw :
            /\ j > i /\ raw[j] = "close"
            /\ \A k \in DOMAIN raw : k > i /\ raw[k] = "close" => j <= k
    ELSE 0

Prefixed(text, rest) == IF rest.ok THEN [ok |-> TRUE, text |-> text \o rest.text] ELSE Failed

\* The text from position i on, given what later positions expand to.
ExpandAt(raw, from, i) ==
    IF i > Len(raw) THEN [ok |-> TRUE, text |-> <<>>]
    ELSE IF raw[i] # "open" THEN Prefixed(<<raw[i]>>, from[i + 1])
    ELSE LET j == CloseAfter(raw, i)
             name == NameBetween(raw, i, j)
         IN IF j = 0 \/ ~IsName(name) \/ name \notin DOMAIN Env
            THEN Failed
            ELSE Prefixed(Env[name], from[j + 1])

\* One pass from the left: what a variable stands for is not looked at again.
Expanded(raw) == LET from[i \in 1..Len(raw) + 1] == ExpandAt(raw, from, i) IN from
Expand(raw) == Expanded(raw)[1]

\* The reference: a position that refers to a variable, the variable, and what
\* every position of the text contributes.
RefersTo(raw, i, name) ==
    /\ IsName(name)
    /\ \E j \in DOMAIN raw : /\ i < j /\ raw[i] = "open" /\ raw[j] = "close"
                            /\ name = SubSeq(raw, i + 1, j - 1)

Inside(raw, p) ==
    \E i \in 1..p - 1, n \in DOMAIN Env : RefersTo(raw, i, n) /\ p - i <= Len(n) + 1

Expandable(raw) == \A i \in DOMAIN raw : raw[i] = "open" => \E n \in DOMAIN Env : RefersTo(raw, i, n)

Contribution(raw) ==
    [p \in DOMAIN raw |->
        IF Inside(raw, p) THEN <<>>
        ELSE IF raw[p] = "open" THEN Env[CHOOSE n \in DOMAIN Env : RefersTo(raw, p, n)]
        ELSE <<raw[p]>>]

Expansion(raw) == FlattenSeq(Contribution(raw))

-----------------------------------------------------------------------------
(* Validation.                                                             *)

\* The fields whose values are enums.
EnumsKnown(c) ==
    \A i \in DOMAIN c.endpoints :
        /\ c.endpoints[i].action \in {"task.run", "workflow.run", "respond.static", "job.get"}
        /\ \A n \in DOMAIN c.endpoints[i].steps :
              c.endpoints[i].steps[n].kind \in {"task", "store", "http.request", "respond"}

TaskNames(c) == {c.tasks[i].name : i \in DOMAIN c.tasks}
StepIds(e) == {e.steps[i].id : i \in DOMAIN e.steps}
Distinct(s) == \A i, j \in DOMAIN s : s[i] = s[j] => i = j

SharedProfilesValid(c) ==
    /\ \A id \in DOMAIN c.stores : id # "" /\ c.stores[id].url # ""
    /\ \A id \in DOMAIN c.transports : id # "" /\ c.transports[id] # ""

ClientIpValid(c) == "junk" \notin c.cidrs /\ (c.header => c.cidrs # {})

EmptySegment == [kind |-> "empty", name |-> ""]

\* normalize_path_for_validation, and normalize_axum_path, which is the same text:
\* empty segments are dropped but for one at the end, and :name becomes {name}.
Route(path) ==
    LET kept == SelectSeq(path, LAMBDA s : s.kind # "empty")
        braced == [i \in DOMAIN kept |-> IF kept[i].kind = "colon" THEN [kept[i] EXCEPT !.kind = "brace"]
                                                                  ELSE kept[i]]
    IN IF kept # <<>> /\ Last(path).kind = "empty" THEN Append(braced, EmptySegment) ELSE braced

\* The path contains {job_id} or :job_id, the latter also as the beginning of a name.
MentionsJobId(path) ==
    \E i \in DOMAIN path :
        \/ path[i].kind = "brace" /\ path[i].name = "job_id"
        \/ path[i].kind \in {"colon", "inner"} /\ path[i].name \in {"job_id", "job_id2"}

\* Mutant of KeepsRows: no store is looked up.
KeepsRowsAnywhere(c, id) == id # None

\* A store for rows that outlive the connection.
KeepsRows(c, id) ==
    /\ id \in DOMAIN c.stores
    /\ ~(c.stores[id].driver = "sqlite" /\ c.stores[id].url = ":memory:")

SecurityValid(c, e) ==
    /\ {e.challenge, e.x402} \subseteq TaskNames(c) \cup {None}
    /\ e.api_key # ""
    /\ e.failure_block # None => 0 \notin Range(e.failure_block)
    /\ e.rate_limit # None =>
          /\ KeepsRows(c, e.rate_limit.store)
          /\ e.rate_limit.key # ""
          /\ {e.rate_limit.requests, e.rate_limit.window_secs} \subseteq 1..I64Max

IdempotencyValid(c, e) ==
    e.idempotency # None =>
        /\ e.method # "GET"
        /\ KeepsRows(c, e.idempotency.store)
        /\ e.idempotency.header # ""
        /\ e.idempotency.ttl_secs \in 1..I64Max
        /\ e.idempotency.max_response_bytes # 0

RestrictionsValid(e) ==
    /\ "junk" \notin e.allowed_content_types \cup e.required_headers
    /\ e.timeout_ms # None => e.timeout_ms \in 1..86400000
    /\ e.max_concurrency # None => e.max_concurrency \in 1..1000000

StepValid(c, s) ==
    CASE s.kind = "task" -> s.task \in TaskNames(c)
      [] s.kind = "store" -> s.store \in DOMAIN c.stores /\ s.sql \notin {None, ""}
      [] s.kind = "http.request" -> IF s.transport # None THEN s.transport \in DOMAIN c.transports
                                                          ELSE s.url \notin {None, ""}
      [] s.kind = "respond" -> TRUE

\* That validate_workflow_is_acyclic accepts just these graphs is shown in WorkflowRun.
Acyclic(e) ==
    \A S \in SUBSET (DOMAIN e.steps) \ {{}} :
        \E i \in S : \A j \in S : e.steps[j].id \notin e.steps[i].depends_on

WorkflowValid(c, e) ==
    /\ e.steps # <<>>
    /\ \A i \in DOMAIN e.steps : e.steps[i].id # ""
    /\ Distinct([i \in DOMAIN e.steps |-> e.steps[i].id])
    /\ \A i \in DOMAIN e.steps : e.steps[i].depends_on \subseteq StepIds(e)
                                 /\ StepValid(c, e.steps[i])
    /\ Acyclic(e)

ActionValid(c, e) ==
    CASE e.action = "task.run" -> e.task \in TaskNames(c)
      [] e.action = "workflow.run" -> WorkflowValid(c, e)
      [] e.action = "respond.static" -> e.response # None
      [] e.action = "job.get" -> MentionsJobId(e.path)

TaskValid(t) ==
    /\ t.name # "" /\ t.command # ""
    /\ t.timeout_ms # 0
    /\ t.success_exit_codes # {}
    /\ t.max_stdout_bytes # 0 /\ t.max_stderr_bytes # 0

\* validate()
Accepts(c) ==
    /\ c.version = 1
    /\ c.endpoints # <<>>
    /\ SharedProfilesValid(c)
    /\ ClientIpValid(c)
    /\ Distinct([i \in DOMAIN c.endpoints |-> c.endpoints[i].name])
    /\ Distinct([i \in DOMAIN c.endpoints |->
                    <<c.endpoints[i].method, Route(c.endpoints[i].path)>>])
    /\ \A i \in DOMAIN c.endpoints :
          LET e == c.endpoints[i] IN
          /\ e.name # "" /\ e.rooted
          /\ ActionValid(c, e) /\ SecurityValid(c, e) /\ IdempotencyValid(c, e)
          /\ RestrictionsValid(e)
    /\ Distinct([i \in DOMAIN c.tasks |-> c.tasks[i].name])
    /\ \A i \in DOMAIN c.tasks : TaskValid(c.tasks[i])

-----------------------------------------------------------------------------
(* The router.                                                             *)

\* What axum matches a request with: the names of parameters do not count.
Shape(route) ==
    [i \in DOMAIN route |-> IF route[i].kind = "brace" THEN [route[i] EXCEPT !.name = ""]
                                                       ELSE route[i]]

Healthz == <<[kind |-> "text", name |-> "healthz"]>>

\* Router::route() panics for the health check's own route, for segments of an older
\* syntax, and for one route with the same method twice or its parameters named twice.
RoutesClash(c) ==
    \/ \E i \in DOMAIN c.endpoints :
          LET route == Route(c.endpoints[i].path) IN
          \/ c.endpoints[i].method = "GET" /\ route = Healthz
          \/ \E s \in DOMAIN route : route[s].kind = "odd"
    \/ \E i, j \in DOMAIN c.endpoints :
          LET p == Route(c.endpoints[i].path)
              q == Route(c.endpoints[j].path)
          IN /\ i # j /\ Shape(p) = Shape(q)
             /\ p # q \/ c.endpoints[i].method = c.endpoints[j].method

-----------------------------------------------------------------------------
(* What a request looks up.                                                *)

\* The store is there and sqlite_path() finds a path in its url.
StoreOpens(c, id) == id \in DOMAIN c.stores /\ c.stores[id].url \notin {"", "sqlite://"}

StepResolves(c, s) ==
    CASE s.kind = "task" -> s.task \in TaskNames(c)
      [] s.kind = "store" -> s.store \in DOMAIN c.stores /\ s.sql # None
      [] s.kind = "http.request" ->
            \/ s.url \notin {None, ""}
            \/ s.transport \in DOMAIN c.transports /\ c.transports[s.transport] # ""
      [] s.kind = "respond" -> TRUE

ReferencesResolve(c, e) ==
    /\ {e.challenge, e.x402} \subseteq TaskNames(c) \cup {None}
    /\ e.rate_limit # None => e.rate_limit.store \in DOMAIN c.stores
    /\ e.idempotency # None => e.idempotency.store \in DOMAIN c.stores
    /\ CASE e.action = "task.run" -> e.task \in TaskNames(c)
         [] e.action = "workflow.run" -> \A i \in DOMAIN e.steps : StepResolves(c, e.steps[i])
         [] e.action = "respond.static" -> e.response # None
         [] e.action = "job.get" -> TRUE

\* The stores that a request to the endpoint opens.
StoresOf(c, e) ==
    (IF e.rate_limit = None THEN {} ELSE {e.rate_limit.store})
    \cup (IF e.idempotency = None THEN {} ELSE {e.idempotency.store})
    \cup (IF e.action = "workflow.run"
          THEN {e.steps[i].store : i \in {n \in DOMAIN e.steps : e.steps[n].kind = "store"}}
          ELSE {})

\* What validation lets pass: a url without a path, a job_id that is no parameter,
\* a status that is none.
ValuesServe(c, e) ==
    /\ \A id \in StoresOf(c, e) : StoreOpens(c, id)
    /\ e.action = "job.get" =>
          [kind |-> "brace", name |-> "job_id"] \in Range(Route(e.path))
    /\ e.action = "respond.static" => e.response \in 100..999
    /\ e.action = "workflow.run" => e.result \in 100..999

\* The endpoint uses a store of the driver, "sqlite" or "postgres".
UsesDriver(c, e, driver) ==
    \E id \in StoresOf(c, e) \cap DOMAIN c.stores : c.stores[id].driver = driver

\* The task of the endpoint is enqueued.
IsAsync(c, e) ==
    /\ e.action = "task.run"
    /\ \E i \in DOMAIN c.tasks : c.tasks[i].name = e.task /\ c.tasks[i].mode = "async"

=============================================================================
