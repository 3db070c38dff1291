# Artur in TLA+

Artur is an HTTP gateway: one Rust process reads a TOML file and serves endpoints
that run a local command, SQL, an HTTP request, or a workflow of those, behind
API keys, rate limits, failure blocks, concurrency limits and idempotency keys.
This directory holds specifications of its stateful parts, the TLC runs that check
them on small instances, and TLAPS proofs of their main properties for every
value of the constants. Paths below are relative to the repository.

Each module stays at the level of control: every state change, guard, early return and
error path is there, in the order of the code, while payloads, names and texts are
model values. Every component has at most four modules: the specification, `MC...` with
the model values of its runs, `...Promise` with what it promises in the abstract, and
`...Proofs`.

## The system

A request passes, in `src/server.rs:250-365`: body and metadata limits; client
identity; then, under the endpoint deadline (`restrictions.timeout_ms`), a
concurrency permit, the rate limiter, the guards with the failure block, the
idempotency claim, the action, and the completion of the claim. When the deadline
passes or the client leaves, the whole future is dropped *wherever it waits*; there is
no cleanup code on that path except destructors. Most hazards below come from this one fact.

| Component | State | Operations | Talks to |
|---|---|---|---|
| Idempotency (`idempotency.rs`) | table `artur_idempotency`, shared by processes | claim, complete, release, replay, purge | the handler, by awaiting; SQLite through `spawn_blocking`, PostgreSQL by a connection per call |
| Rate limiter (`rate_limit.rs`) | table `artur_rate_limits`, shared by endpoints | check (purge, count, compare) | the handler; same two drivers |
| Failure block, permits (`security.rs`, `server.rs:367-385`) | map of failure records in memory; semaphores | check_block, record_failure, clear_failure; acquire | guards that pass or fail, after an await |
| Guards (`security.rs:57-145`) | none | API key, challenge, x402 task, output comparison | task execution |
| Task execution (`process.rs:217-312`) | a child process and its pipes | spawn, write, collect under a timeout, judge | the operating system |
| Job store (`process.rs:94-188`) | map of jobs in memory | insert_running, finish, job.get | detached tasks |
| Workflow engine (`workflow.rs`) | pending steps, outputs, a JoinSet | spawn the steps of a layer, join, abort, render | tasks, stores, HTTP |
| Workflow validation (`config.rs:852-882`) | none | acyclicity check | configuration loading |
| Store steps (`store.rs`) | the user's databases | query, execute | SQLite by `spawn_blocking`, PostgreSQL |
| Request pipeline (`server.rs:250-365`) | what the parts keep, what outlives a handler | arrive, check, claim, act, complete, release, drop | all of the above |
| Client identity (`server.rs:474-535`) | none | resolve_client_ip | the rate limiter and templates |
| Configuration (`config.rs`) | none after loading | load, expand, validate | everything |
| Router (`server.rs:40-215`) | the routes | build_router | configuration, life cycle |
| Templates, errors, metadata | none | pure functions | everything |
| Process life cycle (`main.rs`) | the listener, the drain | start, signal, graceful shutdown | connections; *not* detached jobs |

What makes each correct, and what is hard about it:

* **Idempotency.** One request acts per key; replays return the response of the same
  request; a completed response stays until it expires. Hard: a claim names no owner,
  store operations outlive dropped handlers, PostgreSQL's `NOW()` is old, the process
  may die between claim and completion.
* **Rate limiter.** A window admits its quota and nothing uses it up but requests.
  Hard: the clock is read before the transaction, one check purges rows of all endpoints,
  a commit may be hidden from the handler, a failed read of SQLite counts as zero.
* **Failure block.** A key is blocked at the threshold, stays blocked, and is not blocked
  early. Hard: guards run between the check and the record, so requests pass the check
  together and fail, or clear the record, after the key was blocked.
* **Tasks and jobs.** No child outlives its run, `ok` is earned, jobs end once and tell
  the outcome, every task ends. Hard: two pipes and a timeout that starts late.
* **Workflows.** Cycles are rejected, accepted workflows never get stuck, a step sees
  exactly the earlier layers, no layer starts after an error, nothing outlives the workflow but
  what a database or an HTTP server has been handed. Hard: steps are spawned one by one while
  earlier ones already run, end in any order, and are aborted in the middle of a poll or not at all.
* **Pipeline.** A key has one effect, tasks stay within their key and the permits, quotas
  bound effects, told jobs are known. Hard: what a dropped handler leaves behind (a row, SQL,
  a job, a store operation) meets the retry of its client, a new window, a new process.
* **Client identity.** The client is who handed the request to the first trusted proxy.
  Hard: the client writes the header first, and proxies may be chained.
* **Configuration and life cycle.** Accepted references resolve, expansion replaces each
  reference once; a signal ends the process, a cut-off connection never goes unreported, SQLite
  is never cut off, and PostgreSQL only when its handler no longer waits or the exit code tells.
  Hard: validation, router and requests look at the same fields by different code; the drain,
  its timeout and the end of the runtime race.

## Modules and code

### Idempotency

`Idempotency` is the table with the handlers around it. A key stands for the primary
key `(endpoint_name, key)`, a fingerprint for the hash of the request, a response for
the request whose action produced it. `records[k]` is the row, plus a history field
`claimer` that the code does not have. `pc` is where a handler waits or how it was
answered; `op` is the store operation under way, which may go on when `pc` is an answer:
on SQLite always, on PostgreSQL perhaps (`OpsOutlive`).

| Action | Code |
|---|---|
| `Arrive`, `Refuse`, `Authorize` | `server.rs:250-340`, up to the call of `claim` |
| `Claim` = `ClaimInserts`, `ClaimRefused`, `ClaimReplays` | `claim_sqlite`, `claim_postgres`: purge, compare, insert; the refusals return early and roll the purge back |
| `ActionSucceeds`, `ActionFails` | the action and `capture`; the second calls `release` |
| `Complete`, `Release` | the `UPDATE`/`DELETE ... AND state = 0` of either driver |
| `OpFails` | busy timeout, lost connection, aborted transaction |
| `DeadlinePasses`, `Disconnect`, `Crash` | the handler is dropped; only the table survives a crash |

In this module the steps of PostgreSQL include those of SQLite: both drivers pass every error
on, the clock readings `op[r].at..now` contain `now`, operations may or may not outlive their
handler, and commits may be hidden besides. The safety run therefore uses `Driver = "postgres"`;
the run with a restart uses `"sqlite"`, so that its branches are taken too. (The rate limiter
is different, see below.)

`IdempotencyPromise` is the table without clock, operations or handlers: a slot per key
that is free, held or completed, and answers. `KeepsPromise` says that `Idempotency`
implements it under `Slot` and `replayed`.

### RateLimit

One transaction is one action (`Allow`, `Limit`), separated from `Begin`, which reads the
clock. `rows` counts per endpoint, client and window start; `spent` is a history of what
was ever counted. `Kept` is the `DELETE` over all endpoints. The retention of 172800
seconds is a constant, and windows are small numbers next to it.

The drivers differ, and each behaviour is of one `driver`. PostgreSQL compares and counts in one
statement, and its connection may hide a commit. SQLite reads the count first, and
`rate_limit.rs:72` takes any error of that read for a count of zero: `ReadFails` counts the
request without looking, whether or not the window is full, and tells it the quota less one. `misread`
is a history of such checks. A quota is therefore exact on PostgreSQL only.

`QuotaPromise` is the limiter without clock, rows and purges: one counter per bucket, which
allowing checks raise one at a time, each told what it has left, and which a blind check
raises without looking (`AllowBlindly`), unless the counter is `exact`. `KeepsPromise` maps
`spent` to the counters, `pending` to the checks that have not ended and PostgreSQL to `exact`:
a table whose rows every endpoint deletes amounts to counters that nobody deletes.

### FailureBlock

`CheckBlock`, `RecordFailure` and `ClearFailure` are the three holders of the lock; the
guards run between them (`GuardsPass`, `GuardsFail`). The clock is read before the lock
is awaited, so a reading may be old by at most `Stall`. `Admit` takes the permit that
bounds how many requests are in between. `log` is a history of failures.

### TaskRun

Data is counted in chunks, pipes hold `PipeCapacity`. The gateway is `Call`, `Spawn`,
`Write`, `Written`, `WriteBreaks`, `Collect`, `CollectFails`, `TimesOut`, `Finish`, `Answer`; the child is
external: a *filter* prints what it reads before it reads on, a *free* child reads,
prints, closes its input, hangs, exits with any code at any time, or leaves a process
behind that holds its output open (`exit.held`). `kill_on_drop` is about the child alone: a
process that it left behind survives a timeout. What the code parses is the prefix of
the output that fits `max_stdout_bytes`. Jobs are named after their runs: a UUID is
fresh. `Crash` loses the jobs and leaves the children.

### WorkflowRun

`Validate` is one round of `validate_workflow_is_acyclic`; `Schedule` (a step is spawned, or a
cycle is found), `Join`, `JoinError` and `Render` are the loop of `run_workflow`. `Spawn` starts one
step: on a runtime with several threads the steps of a layer that are already spawned run, end
and fail while the loop of `workflow.rs:70-82` spawns the others. `StepEnds` is a step that comes to
a value, an error or a panic, which waits in the JoinSet until it is joined; a panic is an error
that nothing tolerates (`Fatal`). `Aborted` is what dropping the JoinSet does: the steps that
still work are `cancelled`, and `LetGo` is the end of each, which is not at once: a poll under
way, perhaps the first, is still finished. A step in a database or at an HTTP server (`Remote`) may
be `detached` and land later. `WorkflowPromise` is a dataflow graph: steps start once, after their
dependencies; `RunsAsDataflow` says that `run_workflow` implements it.

### Gateway

The composition: `handle_endpoint_inner` and `handle_after_guards`, with the parts at the
grain at which they meet. A window is the set of requests it has counted, and a check counts
in the window in which it read the clock, be it over by then; a row is its
claimant's, time is left out (`Expire` and `NewWindow` happen at any time). `CheckBlindly` is the check
whose read failed, `overrun` the history of those that counted in a full window. The constant `Timely` says
that the endpoint has a deadline below the ttl of its rows, so that a row that is held does
not expire: `Idempotency` has the clock and shows that a deadline does this. Without it two tasks of a
key may run side by side, as in `Idempotency_no_deadline`. What is new is the *effect* of
a request: a child, SQL or a job that begins in `Begin`, ends in `End`, and is or is not ended
with its handler (`Left`: `kill_on_drop` ends a child, nothing ends SQL or a job).

| Action | Code |
|---|---|
| `Arrive`, `Check`, `CheckBlindly`, `Refuse`, `Authorize` | permit, `rate_limit::check`, guards and key, up to the call of `claim` |
| `Claim`, `Complete`, `Release`, `OpFails` | the operations on `artur_idempotency`, in blocking threads that outlive their handler |
| `Begin`, `End`, `Respond`, `Oversize`, `Fail` | the action, `capture` and the arms of the `match` on its result |
| `Drop`, `Crash` | the deadline or a client that leaves; the process |

`givenUp` (rows released by their own request, or expired), `used` and `life` are histories.
`KeepsPromise` is the refinement of the same `IdempotencyPromise` that `Idempotency`
implements, here inside permit, rate limit and guards, with keys being optional.

### ClientIp

`resolve_client_ip` and the world around it. A request travels over a `path` of hosts: an
untrusted one sends a header of its own making (`Make`), a trusted one begins a request
(`Originate`) or appends the address of its predecessor (`PassOn`), and the gateway resolves
(`Resolve`). The other hosts are external: trusted
proxies are assumed to append and to join header lines into one, as `README.md:160` needs.
Addresses are model values; an entry that does not parse as one is `Garbled`, as are
entries with a port, which the code does not parse either.

### Configuration and Lifecycle

`Configuration` is a module of operators: `Expand` translates the scanner of
environment references (a recursive function over the positions of a text: `ExpandAt` is one
position, given what the later ones expand to), `Accepts` is `validate()` check
by check, and `RoutesClash`, `ReferencesResolve` and `ValuesServe` say what the router and the
requests need afterwards, translated from *their* code. A configuration is a record shaped
like `AppConfig`; paths are what stands between their slashes, texts of the kinds the checks
tell apart. `Route` normalizes a path (empty segments, a slash at the end, `:name`); validation and
router each have a function for it, `config.rs:959` and `server.rs:646`, and since the two are the
same text one operator stands for both.
Raw texts are sequences of tokens, of which one opens and one closes a reference; values
may contain both, and the environment variables that no reference can name.
`Expansion` and `Expandable` are the reference definition of expansion, without a scan: what
each position contributes, and which references are good.

`Lifecycle` is `main.rs`: `Load`, `Build`, `Bind`, serving (`Connect`, `Receive`, `StartSql`,
`SqlEnds`, `Answer`, `DeadlinePasses`, `Leave`, `JobEnds`), `Signal`, the drain that ends in `Drained`
or `DrainTimesOut`, `Exit`, which waits for blocking threads, and `Kill`. SQL is `local` for SQLite,
in a blocking thread that ends by itself, or `remote` for PostgreSQL, over a connection that
`postgres_client` (`store.rs:92-102`) leaves to a task of the runtime: when main() returns that
task is gone, and how the server ends the statement is `unheard`. A handler looks up what its
endpoint refers to; if that is not there it answers `misconfigured`.

## Runs

| Run | Shows | Bounds, and why they are enough |
|---|---|---|
| `Idempotency_safety` | one request runs per key, only it ends its claim, `ok` is replayable, completed rows stay, `KeepsPromise` | 3 requests, 1 key, 2 fingerprints, ttl 3, deadline 1, operations end within 1, clock to 4: an owner, a late operation and a newcomer meet before and after the expiry of a claim, and any two of them may disagree about the request. |
| `Idempotency_restart` | every request is answered or gone by its deadline, across a crash | 2 requests, 1 key, 2 fingerprints, SQLite, 1 crash: a claim that outlives its process is met by a later request, before and after it expires. |
| `Idempotency_no_deadline` | *violation*: a response is replayed to another request | 3 requests, 2 fingerprints, ttl 1, no deadline |
| `RateLimit_safety` | quotas that are exact but for failed SQLite reads, no allowance lost, useful Retry-After, `KeepsPromise` | both drivers, 3 requests, windows 1 and 2, quotas 1 and 2, retention 3, stall 1, clock to 5: rows are purged by a check of the other endpoint, stalled checks count in windows that have ended, and a read fails in a full window. |
| `RateLimit_long_window` | *violation*: the quota is exceeded when a window is longer than the retention | SQLite, window 5, retention 3 |
| `FailureBlock_race` | threshold, bounded overshoot, no early block, the block holds back | 4 requests of one key, 2 at a time, threshold 2, window 1, block 3, stall 1: a second pair meets a key that the first has blocked, cleared or lifted. |
| `TaskRun_run` | no child outlives its run, `ok` is earned, jobs tell the outcome, fitting tasks end | 1 run, every mode, format, child, exit and an input of none, 0, 1 or 2 chunks, pipes of 1, 1 chunk of captured output, 1 crash. Runs share nothing but the map of jobs, in which each has its own key, so one is enough. |
| `TaskRun_pipe` | *violation*: a task never ends | a filter with 4 chunks and pipes of 1; under fairness |
| `WorkflowRun_graphs` | exactly the cycles are refused, layers see what came before, no layer starts after an error, `RunsAsDataflow`, every workflow ends | all 512 graphs over 3 steps with all 8 choices of tolerated errors, one step that outlives its abort: chains, forks, joins, layers with an error before, beside and after the start of others, cycles and self-dependencies. |
| `Gateway_retry` | one effect per key that is not given up, tasks alone in their key and within the permits, effects per window, told jobs are known, `KeepsPromise` | `Timely`, 3 requests with a common key or none, 2 permits, quota 2, 1 new window, 1 crash: an owner, a retry that meets what is left of it and a third request that takes a permit, a count or the key; checks end in the window after theirs. |
| `ClientIp_chain` | the identity is the origin; only garbled headers are refused | 3 hosts, every set of them trusted, 4 hops, header lines of at most 2 made-up entries: trusted and untrusted stretches alternate, and made-up entries are longer than, equal to and shorter than the trusted stretch. |
| `Lifecycle_run` | exact expansion, references resolve, cut-offs are reported, clean exits, a signal ends the process | 2 requests; a configuration with every kind of reference, stores of both drivers and about 90 variations of its fields, two at a time where fields interact; every text of up to 5 tokens. `I64Max` is 2, its bound is only compared. |

`CHECK_DEADLOCK FALSE` is set everywhere because requests are finitely many and the clock
is bounded: every run may really stop.

**Fairness.** Only what the runtime does by itself is fair. *Idempotency*: the clock, the
deadline timer of tokio, and the blocking pool or connection that ends an operation; not
guards, actions or clients. *TaskRun*: the steps of `run_task` (its timeout included), and
that a filter is not idle while it can read, print or exit; a free child may do nothing for
ever, and I/O need not fail. *WorkflowRun*: the loop itself, that a cancelled step is gone in
the end, and that a step ends. The latter is an assumption: a
task whose input fits its pipe ends by `FittingTaskEnds`, an HTTP request has a timeout, SQL
depends on its database. *Lifecycle*: the timer of the drain, the end of the runtime, and
that SQL ends; not clients, handlers or jobs. `ShutdownEnds` therefore needs a shutdown
timeout, and that SQL ends: no timeout covers the wait for blocking threads.

**Disagreements found.** Three violated runs are listed with their quotations in
`PROJECT.json`: claims without owners, windows longer than the shared retention, input written before
the timeout starts. Others have no run, being plain from the code once it is modelled:

* A handler dropped between claim and completion leaves its row: until the ttl ends, retries
  get a 409 that `docs/reference/responses.md:25` explains by a request "still processing".
* A request that fails its guards after the key was blocked, but later than the window, starts a
  new record and lifts the block (`security.rs:200`), against the duration in
  `Config.example.toml:314`. `SerialBlocksLast` is what remains.
* The failure window that `Config.example.toml:313` calls rolling tumbles (`security.rs:200`).
* A child that exits with a success code without reading its input is an error, not `ok`
  (`process.rs:247`; `Config.example.toml:120`). `OkIsEarned` is the other direction.
* JSON output is cut before it is parsed, so that invalid output with a valid prefix is `ok`
  although `README.md:123` says it is not (`process.rs:261`; `OkIsEarned` is about the prefix).
* `check` "validates routes and references" (`docs/guide/getting-started.md:12`), but accepts
  routes for which the router panics at start: `GET /healthz` (`server.rs:73`), `/b/{x}` beside
  `/b/{y}`, and segments that axum refuses (`RoutesClash`).
* Other accepted values fail at every request: a response status that is no status, a
  `sqlite://` url without a path, a `job.get` path such as `/x:job_id` or `/:job_id2` (`ValuesServe`). And
  `sqlite::memory:` passes the check that refuses `:memory:` for rows (`README.md:85`).
* On SQLite a failed read lets a request through a full window (`rate_limit.rs:72`), where a failed
  open, purge or increment is an error of the store; `README.md:106` speaks of one limit for both stores.
* The drain timeout bounds the drain, not the shutdown: the end of the runtime waits for
  blocking SQL (`docs/reference/operations.md:15`).
* Only the first line of the forwarding header is read (`server.rs:507-535`): behind a proxy that
  adds a line instead of appending to it, the identity is the client's choice of words
  (`README.md:160`). `ClientIp` assumes that trusted proxies append.

## Proofs

Every theorem holds for all values of the constants that satisfy the named assumptions
of its module. Proofs are checked by `tlapm` with Z3, Zenon and LS4. Every safety property that
a passing run checks is proved. These statements are proved besides, and not among the
properties of a passing run:

* type correctness (`TypeOK` of every module);
* parts of larger promises: `CompletedByOwner`, `ReplaysSameRequest`, `ToldWhatWasLeft`,
  `RemainingIsDistinct`, `AcceptedJobIsFound`, `AnswerIsComplete`;
* statements that need counting or closed walks, which TLC would have to enumerate:
  `AllowedWithinQuota`, `RejectsExactlyCircles`, `WorkflowsAreGraphs`;
* the safety halves of the liveness properties: `FittingWriterGoesOn`, `RunsAreFinite`, `GoesOn`,
  `WorkflowsAreFinite`, `ShutdownIsFinite`.

* **IdempotencyProofs.** From `Timely` (there is a deadline, and it and one store
  operation fit into the ttl): `IInv` is inductive, and gives `CompletedByOwner`,
  `ReplaysSameRequest`, `OneRunPerKey`, `OnlyOwnerEndsClaim` and the refinement
  `KeepsPromise`. Nothing in the table says whose claim a row is, so the safety
  properties are not inductive by themselves: `OnTime` bounds the age of every handler and
  operation, `HeldRowIsMine` says that whoever holds a key finds its own unexpired row there,
  with the ttl counted from its start, and `RowOfClaimer` ties rows to requests; `OkIsReplayable`
  follows from `OkIsStored`, which is inductive on top of them. `Timely` cannot
  be dropped: `Idempotency_no_deadline` is the counterexample. `CompletedIsStable` and type
  correctness need no assumption.
* **RateLimitProofs.** From `WindowsFit` (every window and a stall fit into the retention):
  `RowsAreSpent`, that the row of a window in which some check may still count holds
  everything it has counted, with `PendingOnTime`, gives `QuotaRespected`; `MisreadOnce`, that a
  check is blind at most once and then over, lets it count blind checks. Again the
  violated run shows that the assumption is needed. `LimitedOnlyWhenSpent` needs none: a
  row never exceeds what was counted, whatever is purged (`RowsAreCovered`).
  `ToldWhatWasLeft`: an allowed request whose read did not fail was told the quota less a count that has only
  grown since, and no two of a bucket were told the same (`RemainingIsDistinct`). So these
  requests of a bucket map one-to-one into the numbers below its quota, and are at most as
  many as the quota (`AllowedWithinQuota`), whatever commits were hidden, handlers
  dropped and other reads taken for zero. The refinement `KeepsPromise` needs that a row which still counts is the counter
  itself (`RowsAreSpent`), and hence `WindowsFit`. `RetryFindsNewWindow` is arithmetic of windows.
* **FailureBlockProofs.** `BlockedIffThreshold` is inductive. `BlockHoldsBack` needs
  `Clocks`, which bounds the age of clock readings: a check that let a request pass came
  before the blocking record. With one request at a time, `SerialBlocksLast` shows that a
  block lasts (`BlockLasts`); with more it need not. `OvershootBounded` needs a count of those who may
  still fail: once a key is at its threshold, its failures and the requests past the check
  whose failure its window would still count (`Late`) are bounded together, because a new one is
  let past only after the block, and so after the window. `NoEarlyBlock` follows from
  `Counted`: a record never counts more than the log has in its window.
* **TaskRunProofs.** `IInv` ties the control of each run to its child, its outcome and its
  job; it gives `NoChildOutlivesRun`, `OkIsEarned`, `JobsTellTheOutcome`,
  `AcceptedJobIsFound` and `JobsMoveForward`. `PipeFollows` (a pipe holds what was written
  and not read) gives `FittingWriterGoesOn`: a writer whose input fits the pipe always has room.
  `RunsAreFinite` is a number, `StepsLeft`, that falls with every step of a run and rises with
  none: together they are `FittingTaskEnds` short of fairness.
* **WorkflowRunProofs.** The validation keeps `checked` closed under dependencies and free of
  cycles (`CheckedIsSound`), so an accepted graph is acyclic; between layers, what is not
  pending is completed (`Partition`); hence the pending steps, being a set without a cycle,
  have a ready member: `NeverStuck`. `Acyclic` speaks of sets of steps; `CirclesTheorem` says the
  same of closed walks, the circles an operator would draw: a set in which everyone waits
  yields an endless walk, and that visits some step twice. The rest of `IInv` (`WorkIsTracked`, snapshots) gives
  `SeesEarlierLayers`, `AnswerIsComplete`, `OnlyRemoteOutlive`, `NoLayerAfterAnError` and the
  refinement `RunsAsDataflow`. A called workflow has a finite list of things to do (`Todo`), which
  its steps shorten (`WorkflowsAreFinite`), and until it is over one of them can be done or is
  working (`GoesOn`): `EveryWorkflowEnds` short of fairness.
* **GatewayProofs.** `BaseInv` is inductive with rows that expire at any time; type correctness,
  `WorkWithinPermits`, `EffectsPerWindow` and `ToldJobIsKnown` follow from it. The rest is proved from `Timely`,
  which each theorem assumes by name. `HoldersHold`: a request that acts, or has yet to store or release, finds its own
  unexpired claim in the table; `EffectsHeld`: after that, the row is still its own until it is
  given up. Two effects of one key would be two owners of one row: `OneUnreleasedEffect`.
  `TasksAct` (a task of the living process runs under its handler) gives `TaskRunsAlone`, and
  with `PermitsBounded` also `WorkWithinPermits`. `EffectsPerWindow` counts the requests that a
  window carries over (`Carried`), those whose check counts in an ended window among them, a
  set that only shrinks. The refinement `KeepsPromise` takes the
  set of expired keys as what the promise forgets. That `Timely` follows from a deadline below
  the ttl is proved in `IdempotencyProofs`, where there is a clock (`HeldRowIsMine`).
* **ClientIpProofs.** `HeaderTellsPath`: the header ends with the hosts of the trusted stretch, so that
  the walk from the right stops at the host that entered it, for paths and headers of any length.
* **LifecycleProofs.** What `Accepts` establishes is carried through the life of the process:
  `AcceptedResolve` is about any configuration, `AbortIsReported` follows from the drain, and
  `CleanExit` needs `SqlIsWaitedFor`: SQL of PostgreSQL runs only while the process serves, under an
  open connection or without anyone who waits for it. `ExpansionIsExact` is about a recursive function. `ExpandedUnfolds`
  justifies the recursion, which refers to later positions only (`ExpandAtLocal`). Induction over
  positions is stated for sets of positions (`PositionsUp`, `PositionsDown`) and comes from the
  well-foundedness of `<`, since an induction rule that takes a predicate cannot be used: the set
  of positions outside every reference from which the scanner agrees with the definition
  contains the end of the text, and with the position after a token or reference the one
  before (`ScanStep`). The concatenation of contributions goes by the other induction
  (`Flattened`). `GraphsTheorem` ties `Configuration`, which speaks of positions in the list of
  steps, to `WorkflowRun`, which speaks of their ids: what validation accepts satisfies what
  `WorkflowRun` assumes of its steps. `ShutdownIsFinite`: from the signal on, every step of the
  process, its clients, databases and jobs leaves less to do.

Only model-checked: the liveness properties, which need fairness and ENABLED, and TLAPS handles
neither. Their safety halves are proved for `FittingTaskEnds`, `EveryWorkflowEnds` and
`ShutdownEnds`, as said above: what is left is that steps which can be taken are taken. For
`EveryRequestAnswered` the half is `OnTime`: no handler is ever past its deadline.

## Not modelled

* Templates and error bodies: text. The modules let rendering fail where the code calls it.
* Which credentials a guard accepts, SQL text and parameters, URLs and headers: data.
* TOML parsing (serde) and the matching of paths (axum): libraries. A text parses or not; a
  path finds its endpoint.
* Panics in handlers and guards (those of workflow steps are modelled), and clocks that go backwards.
* Memory growth: failure records and finished jobs are never removed.
* Times next to the ends of their integer types: `created_at + ttl` saturates on SQLite and not on
  PostgreSQL (`idempotency.rs:97`, `228`).
* Several gateways on one PostgreSQL: their requests are requests like others in
  `Idempotency` and `RateLimit`, except that a crash stops only some of them.

## Plan

Done, in this order: Idempotency (the promise with most actors), RateLimit, FailureBlock,
TaskRun, WorkflowRun, then Gateway, ClientIp, Configuration and Lifecycle, each with its proofs.
What could follow:

1. `Gateway` with workflows of several steps, of which some are repeated and some are not.
2. Several gateways on one PostgreSQL, with a crash of one of them.
3. Templates as a recursive function, as far as `{{...}}` values contain braces themselves.
