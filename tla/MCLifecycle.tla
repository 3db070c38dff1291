----------------------------- MODULE MCLifecycle -----------------------------
(* A small instance of Lifecycle: a configuration with every kind of       *)
(* reference, its variations, one or two fields at a time, and texts.      *)
EXTENDS Lifecycle, TLC

Text(n) == [kind |-> "text", name |-> n]
Colon(n) == [kind |-> "colon", name |-> n]
Brace(n) == [kind |-> "brace", name |-> n]

Endpoint == [name |-> "e1", rooted |-> TRUE, method |-> "POST", path |-> <<Text("a")>>,
    action |-> "respond.static", task |-> None, response |-> 200, result |-> 200, steps |-> <<>>,
    challenge |-> None, x402 |-> None, api_key |-> None, failure_block |-> None,
    rate_limit |-> None, idempotency |-> None, allowed_content_types |-> {},
    required_headers |-> {}, timeout_ms |-> None, max_concurrency |-> None]

Step == [id |-> "s1", kind |-> "respond", depends_on |-> {}, task |-> None, store |-> None,
         sql |-> None, transport |-> None, url |-> None]

Rate == [store |-> "db", key |-> "ip", requests |-> 1, window_secs |-> 1]
Idem == [store |-> "db", header |-> "h", ttl_secs |-> 1, max_response_bytes |-> 1]

Task == [name |-> "t1", command |-> "c", mode |-> "sync", timeout_ms |-> 1,
         success_exit_codes |-> {0}, max_stdout_bytes |-> 1, max_stderr_bytes |-> 1]

Guarded == [Endpoint EXCEPT !.action = "task.run", !.task = "t2", !.challenge = "t1",
                            !.rate_limit = Rate, !.idempotency = Idem, !.timeout_ms = 1]

Flow == [Endpoint EXCEPT
    !.name = "e2", !.path = <<Text("b"), Colon("x")>>, !.action = "workflow.run",
    !.steps = <<[Step EXCEPT !.kind = "store", !.store = "pg", !.sql = "q"],
                [Step EXCEPT !.id = "s2", !.kind = "http.request", !.transport = "net",
                             !.depends_on = {"s1"}]>>]

Base == [version |-> 1, shutdown_timeout |-> 1, header |-> FALSE, cidrs |-> {},
    stores |-> ("db" :> [driver |-> "sqlite", url |-> "file"])
               @@ ("pg" :> [driver |-> "postgres", url |-> "host"]),
    transports |-> ("net" :> "url"),
    endpoints |-> <<Guarded, Flow>>,
    tasks |-> <<Task, [Task EXCEPT !.name = "t2", !.mode = "async"]>>]

Other(e) == [Base EXCEPT !.endpoints[1] = e]

Roots ==
    {[Base EXCEPT !.version = 2], [Base EXCEPT !.endpoints = <<>>],
     [Base EXCEPT !.shutdown_timeout = None],
     [Base EXCEPT !.header = TRUE], [Base EXCEPT !.header = TRUE, !.cidrs = {"net"}],
     [Base EXCEPT !.cidrs = {"junk"}], [Base EXCEPT !.tasks = <<Task, Task>>],
     [Base EXCEPT !.tasks = <<Task>>], [Base EXCEPT !.tasks[1].timeout_ms = 0],
     [Base EXCEPT !.transports = <<>>], [Base EXCEPT !.transports = "net" :> ""]}
    \cup {[Base EXCEPT !.stores["db"].url = u] : u \in {"", ":memory:", "sqlite://"}}

\* Two endpoints and their paths: the same route, or the same but for a name, a slash
\* at the end (another route) or slashes in the middle (no other).
Paths == {<<Text("a")>>, <<EmptySegment>>, <<Text("b"), Colon("x"), EmptySegment>>,
          <<Text("b"), EmptySegment, Colon("x")>>, <<Text("healthz")>>, <<Text("b"), Colon("x")>>, <<Text("b"), Brace("x")>>,
          <<Text("b"), Brace("y")>>, <<[kind |-> "odd", name |-> "*"]>>}
Routes == {[Base EXCEPT !.endpoints[1] = [Endpoint EXCEPT !.method = m, !.path = p]] :
              m \in {"GET", "POST"}, p \in Paths}

Endpoints ==
    {Other([Endpoint EXCEPT !.name = "e2"]), Other([Endpoint EXCEPT !.response = None]),
     Other([Endpoint EXCEPT !.response = 0]), Other([Endpoint EXCEPT !.timeout_ms = 0])}
    \cup {Other([Guarded EXCEPT !.task = t, !.challenge = c]) :
             t \in {None, "t1", "t3"}, c \in {None, "t1", "t3"}}
    \cup {Other([Guarded EXCEPT !.rate_limit.store = s, !.idempotency.store = i]) :
             s \in {"db", "pg", "xx"}, i \in {"db", "pg", "xx"}}
    \cup {Other([Guarded EXCEPT !.task = t, !.rate_limit.store = "pg", !.timeout_ms = None]) :
             t \in {"t1", "t2"}}
    \cup {Other([Endpoint EXCEPT !.action = "job.get", !.method = "GET", !.path = <<p>>]) :
             p \in {Text("job_id"), Colon("job_id"), Brace("job_id"), Colon("job_id2"), Brace("job_id2"),
                    [kind |-> "inner", name |-> "job_id"]}}

Steps ==
    {[Base EXCEPT !.endpoints[2].steps[1] = s] :
        s \in {[Step EXCEPT !.kind = k, !.task = t, !.store = o, !.sql = q] :
                  k \in {"task", "store"}, t \in {None, "t1", "t3"},
                  o \in {"db", "xx"}, q \in {None, "q"}}
              \cup {[Step EXCEPT !.id = "s2"], [Step EXCEPT !.depends_on = {"s2"}]}}
    \cup {[Base EXCEPT !.endpoints[2].steps[2].transport = t,
                       !.endpoints[2].steps[2].url = u] :
             t \in {None, "net", "xx"}, u \in {None, "u"}}

MCEnv == <<"A">> :> <<"open", "B", "close">> @@ <<"B">> :> <<"x">> @@ <<"A", "1">> :> <<>>
         @@ <<"1">> :> <<"y">>

Plain == <<"x">>
Tokens == {"open", "close", "A", "1"}

MCSources ==
    [parses : {TRUE}, raw : {Plain}, config : {Base} \cup Roots \cup Routes \cup Endpoints \cup Steps]
    \cup [parses : {FALSE}, raw : {Plain}, config : {Base}]
    \cup [parses : {TRUE}, raw : UNION {[1..n -> Tokens] : n \in 0..5}
                \cup {<<"x", "open", "B", "close", "-", "open", "A", "1", "close", "close">>,
                      <<"open", "B", "close", "open", "A", "close", "open", "B", "close">>},
          config : {[Base EXCEPT !.endpoints = <<Endpoint>>]}]

=============================================================================
