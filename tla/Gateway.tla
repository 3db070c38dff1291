------------------------------- MODULE Gateway -------------------------------
(***************************************************************************)
(* The request pipeline: handle_endpoint_inner and handle_after_guards of  *)
(* server.rs, which put a permit, the rate limit, the guards, idempotency  *)
(* and the action around each other, with what outlives a handler.         *)
(*                                                                         *)
(* One endpoint has all of them.  Its action runs a task, a workflow with  *)
(* an SQL step beside other steps, or an async task (a job), and what it   *)
(* does to the world is its effect.  Store operations are SQLite closures, *)
(* which end even if nobody awaits them any more.  The parts have modules  *)
(* of their own, so that time is left out here: windows and rows end when  *)
(* they like.  Timely says that no row ends before the handler that holds  *)
(* it, as where a deadline ends every handler before the ttl does the row  *)
(* (Idempotency has the clock).  Requests with a key are repetitions of    *)
(* the same request.                                                       *)
(***************************************************************************)
EXTENDS Integers, FiniteSets

CONSTANTS
    Requests,
    Keys,
    NoKey,          \* a request without the idempotency header, which is optional
    NoRow,          \* no row in the idempotency table
    NoOp,           \* no store operation under way
    NoRequest,
    Quota,          \* rate_limit.requests
    MaxConcurrency, \* restrictions.max_concurrency
    Timely,         \* whether handlers end before the ttl of the row they hold
    MaxWindows,     \* bound on the windows that end
    MaxCrashes      \* bound on crashes of the server process

Row == [state : {"processing", "completed"}, by : Requests, expired : BOOLEAN]
Ops == {"check", "claim", "complete", "release"}

ASSUME NamesAssumption ==
    NoKey \notin Keys /\ NoRow \notin Row /\ NoOp \notin Ops /\ NoRequest \notin Requests

ASSUME BoundsAssumption ==
    /\ IsFiniteSet(Requests)
    /\ Quota \in Nat \ {0}
    /\ MaxConcurrency \in Nat \ {0}
    /\ Timely \in BOOLEAN
    /\ MaxWindows \in Nat
    /\ MaxCrashes \in Nat

VARIABLES
    kind,       \* what the endpoint's action runs: "task", "sql" or "job"
    key,        \* the idempotency key of each request
    pc,         \* where the handler of each request is, or how it was answered
    op,         \* the store operation of each request
    counted,    \* the requests that each rate limit window has counted
    window,     \* the window in which each request's check read the clock
    rows,       \* the idempotency table; a row is its claimant's, then has its response
    effect,     \* the effect of each request's action
    jobs,       \* the JobStore: the requests whose job it knows
    replayOf,   \* whose stored response each request was answered with
    windows,    \* how many windows have ended
    crashes,    \* how often the process has crashed
    used,       \* history: the effects that began in the current window
    givenUp,    \* history: the requests whose row was released by themselves, or expired
    overrun,    \* history: the requests that a blind check counted in a full window
    life        \* history: the number of crashes before each effect began

vars == <<kind, key, pc, op, counted, window, rows, effect, jobs, replayOf, windows, crashes,
          used, givenUp, overrun, life>>

Inside == {"checking", "guarding", "claiming", "acting", "completing", "releasing"}
Answers == {"ok", "replayed", "error", "dropped"}

WindowsTyped ==
    /\ counted \in [0..MaxWindows -> SUBSET Requests]
    /\ window \in [Requests -> 0..MaxWindows]
    /\ windows \in 0..MaxWindows

TypeOK ==
    /\ kind \in {"task", "sql", "job"}
    /\ key \in [Requests -> Keys \cup {NoKey}]
    /\ pc \in [Requests -> {"idle"} \cup Inside \cup Answers]
    /\ op \in [Requests -> Ops \cup {NoOp}]
    /\ rows \in [Keys -> Row \cup {NoRow}]
    /\ effect \in [Requests -> {"none", "running", "done"}]
    /\ replayOf \in [Requests -> Requests \cup {NoRequest}]
    /\ WindowsTyped
    /\ {jobs, used, givenUp, overrun} \subseteq SUBSET Requests
    /\ crashes \in 0..MaxCrashes
    /\ life \in [Requests -> 0..MaxCrashes]

Init ==
    /\ kind \in {"task", "sql", "job"}
    /\ key \in [Requests -> Keys \cup {NoKey}]
    /\ pc = [r \in Requests |-> "idle"]
    /\ op = [r \in Requests |-> NoOp]
    /\ counted = [w \in 0..MaxWindows |-> {}]
    /\ window = [r \in Requests |-> 0]
    /\ rows = [k \in Keys |-> NoRow]
    /\ effect = [r \in Requests |-> "none"]
    /\ jobs = {}
    /\ replayOf = [r \in Requests |-> NoRequest]
    /\ windows = 0
    /\ crashes = 0
    /\ used = {}
    /\ givenUp = {}
    /\ overrun = {}
    /\ life = [r \in Requests |-> 0]

-----------------------------------------------------------------------------
Goto(r, p) == pc' = [pc EXCEPT ![r] = p]

\* The handler hands an operation to a blocking thread and awaits it.
Await(r, kindOfOp, p) == op' = [op EXCEPT ![r] = kindOfOp] /\ Goto(r, p)

\* The operation has ended, and its handler, if there is one, goes on.
Returns(r, p) ==
    /\ op' = [op EXCEPT ![r] = NoOp]
    /\ pc' = IF pc[r] \in Inside THEN [pc EXCEPT ![r] = p] ELSE pc

\* A permit is held by a handler and goes with it.
Permits == {r \in Requests : pc[r] \in Inside}

\* Mutant of Admitted: the permit is not asked for.
AdmittedAlways(r) == TRUE

\* try_acquire_owned()
Admitted(r) == Cardinality(Permits) < MaxConcurrency

\* The permit comes before the rate limit.  A request is refused if there is none, or
\* before that for a missing header, its content type or its client's address.
Arrive(r) ==
    /\ pc[r] = "idle"
    /\ \/ Goto(r, "error") /\ UNCHANGED <<op, window>>
       \/ Admitted(r) /\ Await(r, "check", "checking") /\ window' = [window EXCEPT ![r] = windows]
    /\ UNCHANGED <<kind, key, counted, rows, effect, jobs, replayOf, windows, crashes,
                   used, givenUp, overrun, life>>

\* Mutant of HasRoom: one request too many.
HasRoomAtQuota(r) == Cardinality(counted[window[r]]) <= Quota

HasRoom(r) == Cardinality(counted[window[r]]) < Quota

\* rate_limit::check() counts the request in the window that was current when the
\* check began, or finds that window full.
Check(r) ==
    /\ op[r] = "check"
    /\ \/ /\ HasRoom(r)
          /\ counted' = [counted EXCEPT ![window[r]] = @ \cup {r}]
          /\ Returns(r, "guarding")
       \/ /\ ~HasRoom(r)
          /\ counted' = counted
          /\ Returns(r, "error")
    /\ UNCHANGED <<kind, key, window, rows, effect, jobs, replayOf, windows, crashes,
                   used, givenUp, overrun, life>>

\* The SELECT of the check fails, and its count is taken to be zero: the request is
\* counted even in a full window, and goes on, or learns of the failure if the error
\* rolled the transaction back and left the INSERT to commit by itself.
CheckBlindly(r) ==
    /\ op[r] = "check"
    /\ counted' = [counted EXCEPT ![window[r]] = @ \cup {r}]
    /\ overrun' = IF HasRoom(r) THEN overrun ELSE overrun \cup {r}
    /\ Returns(r, "guarding") \/ Returns(r, "error")
    /\ UNCHANGED <<kind, key, window, rows, effect, jobs, replayOf, windows, crashes,
                   used, givenUp, life>>

\* The key is malformed, or a guard refuses the request.
Refuse(r) ==
    /\ pc[r] = "guarding"
    /\ Goto(r, "error")
    /\ UNCHANGED <<kind, key, op, counted, window, rows, effect, jobs, replayOf, windows, crashes,
                   used, givenUp, overrun, life>>

\* An authorized request claims its key, or acts at once if it has none.
Authorize(r) ==
    /\ pc[r] = "guarding"
    /\ \/ key[r] # NoKey /\ Await(r, "claim", "claiming")
       \/ key[r] = NoKey /\ Goto(r, "acting") /\ UNCHANGED op
    /\ UNCHANGED <<kind, key, counted, window, rows, effect, jobs, replayOf, windows, crashes,
                   used, givenUp, overrun, life>>

-----------------------------------------------------------------------------
Purged == [k \in Keys |-> IF rows[k] # NoRow /\ rows[k].expired THEN NoRow ELSE rows[k]]

\* Mutant of Claimable: a claim whose handler is gone is taken over.
ClaimableIfAbandoned(k) ==
    Purged[k] # NoRow => Purged[k].state = "processing" /\ pc[Purged[k].by] \notin Inside

Claimable(k) == Purged[k] = NoRow

\* claim(): the row is inserted, replayed, or in progress.  Only the first two commit.
Claim(r) ==
    LET k == key[r] IN
    /\ op[r] = "claim"
    /\ \/ /\ Claimable(k)
          /\ rows' = [Purged EXCEPT ![k] = [state |-> "processing", by |-> r, expired |-> FALSE]]
          /\ Returns(r, "acting")
          /\ UNCHANGED replayOf
       \/ /\ ~Claimable(k) /\ Purged[k].state = "completed"
          /\ rows' = Purged
          /\ replayOf' = IF pc[r] \in Inside THEN [replayOf EXCEPT ![r] = Purged[k].by] ELSE replayOf
          /\ Returns(r, "replayed")
       \/ /\ ~Claimable(k) /\ Purged[k].state = "processing"
          /\ Returns(r, "error")
          /\ UNCHANGED <<rows, replayOf>>
    /\ UNCHANGED <<kind, key, counted, window, effect, jobs, windows, crashes, used, givenUp, overrun, life>>

\* Mutant of Known: the job's own task makes it known.
KnownWhenDone(r) == jobs

\* insert_running() comes before the job is spawned.
Known(r) == IF kind = "job" THEN jobs \cup {r} ELSE jobs

\* The child is spawned, the SQL given to a blocking thread, or the job enqueued.
Begin(r) ==
    /\ pc[r] = "acting"
    /\ effect[r] = "none"
    /\ effect' = [effect EXCEPT ![r] = "running"]
    /\ life' = [life EXCEPT ![r] = crashes]
    /\ used' = used \cup {r}
    /\ jobs' = Known(r)
    /\ UNCHANGED <<kind, key, pc, op, counted, window, rows, replayOf, windows, crashes, givenUp, overrun>>

\* The child exits or its task's timeout ends it; the SQL or the job ends, with its
\* handler or after it.
End(r) ==
    /\ effect[r] = "running"
    /\ effect' = [effect EXCEPT ![r] = "done"]
    /\ UNCHANGED <<kind, key, pc, op, counted, window, rows, jobs, replayOf, windows, crashes,
                   used, givenUp, overrun, life>>

\* Without a key the outcome is the answer.  With one, it is stored, or the row
\* is released.
Conclude(r, answer, opOfKey, p) ==
    \/ key[r] = NoKey /\ Goto(r, answer) /\ UNCHANGED op
    \/ key[r] # NoKey /\ Await(r, opOfKey, p)

\* The action has a response: a job's as soon as it is enqueued.  That a task failed
\* or timed out is a response too.
Respond(r) ==
    /\ pc[r] = "acting"
    /\ effect[r] = "done" \/ (kind = "job" /\ effect[r] = "running")
    /\ Conclude(r, "ok", "complete", "completing")
    /\ UNCHANGED <<kind, key, counted, window, rows, effect, jobs, replayOf, windows, crashes,
                   used, givenUp, overrun, life>>

\* capture() finds the response larger than max_response_bytes, whatever the effect.
Oversize(r) ==
    /\ pc[r] = "acting"
    /\ key[r] # NoKey
    /\ effect[r] = "done" \/ (kind = "job" /\ effect[r] = "running")
    /\ Await(r, "release", "releasing")
    /\ UNCHANGED <<kind, key, counted, window, rows, effect, jobs, replayOf, windows, crashes,
                   used, givenUp, overrun, life>>

\* Mutant of Left: dropping a task does not kill its child.
LeftRunning(r) == effect

\* What is left of an effect that is no longer awaited: kill_on_drop ends a child,
\* but nothing ends SQL or a job.
Left(r) == IF kind = "task" /\ effect[r] = "running" THEN [effect EXCEPT ![r] = "done"] ELSE effect

\* The action ends with an Err, and only an Err releases the row: the child cannot be
\* spawned, written to or waited for, or a step beside the SQL fails.  Enqueueing does
\* not fail.
Fail(r) ==
    /\ pc[r] = "acting"
    /\ kind # "job"
    /\ effect' = Left(r)
    /\ Conclude(r, "error", "release", "releasing")
    /\ UNCHANGED <<kind, key, counted, window, rows, jobs, replayOf, windows, crashes,
                   used, givenUp, overrun, life>>

\* The row that complete() and release() find: any claim of the key.
Reserved(r) == rows[key[r]] # NoRow /\ rows[key[r]].state = "processing"

Complete(r) ==
    /\ op[r] = "complete"
    /\ \/ /\ Reserved(r)
          /\ rows' = [rows EXCEPT ![key[r]].state = "completed", ![key[r]].by = r]
          /\ Returns(r, "ok")
       \/ /\ ~Reserved(r)
          /\ Returns(r, "error")
          /\ UNCHANGED rows
    /\ UNCHANGED <<kind, key, counted, window, effect, jobs, replayOf, windows, crashes,
                   used, givenUp, overrun, life>>

Release(r) ==
    /\ op[r] = "release"
    /\ rows' = IF Reserved(r) THEN [rows EXCEPT ![key[r]] = NoRow] ELSE rows
    /\ givenUp' = givenUp \cup {r}
    /\ Returns(r, "error")
    /\ UNCHANGED <<kind, key, counted, window, effect, jobs, replayOf, windows, crashes, used, overrun, life>>

\* The store is busy or cannot be opened.
OpFails(r) ==
    /\ op[r] # NoOp
    /\ Returns(r, "error")
    /\ UNCHANGED <<kind, key, counted, window, rows, effect, jobs, replayOf, windows, crashes,
                   used, givenUp, overrun, life>>

-----------------------------------------------------------------------------
\* The endpoint's deadline passes or the client leaves: the handler is dropped.
Drop(r) ==
    /\ pc[r] \in Inside
    /\ Goto(r, "dropped")
    /\ effect' = Left(r)
    /\ UNCHANGED <<kind, key, op, counted, window, rows, jobs, replayOf, windows, crashes,
                   used, givenUp, overrun, life>>

\* The next rate limit window begins.
NewWindow ==
    /\ windows < MaxWindows
    /\ windows' = windows + 1
    /\ used' = {}
    /\ UNCHANGED <<kind, key, pc, op, counted, window, rows, effect, jobs, replayOf, crashes, givenUp, overrun, life>>

\* A row is held by the handler that claimed it, and by its last operation.
Held(k) == LET r == rows[k].by IN
    rows[k].state = "processing" /\ (pc[r] \in Inside \/ op[r] # NoOp)

\* The ttl of a row has passed.
Expire(k) ==
    /\ rows[k] # NoRow
    /\ ~rows[k].expired
    /\ Timely => ~Held(k)
    /\ rows' = [rows EXCEPT ![k].expired = TRUE]
    /\ givenUp' = givenUp \cup {rows[k].by}
    /\ UNCHANGED <<kind, key, pc, op, counted, window, effect, jobs, replayOf, windows, crashes, used, overrun, life>>

\* The process is killed and started again.  The tables survive, and so may children,
\* which nothing kills then; SQL does not.
Crash ==
    /\ crashes < MaxCrashes
    /\ crashes' = crashes + 1
    /\ pc' = [r \in Requests |-> IF pc[r] \in Inside THEN "dropped" ELSE pc[r]]
    /\ op' = [r \in Requests |-> NoOp]
    /\ jobs' = {}
    /\ effect' = [r \in Requests |->
                     IF kind = "sql" /\ effect[r] = "running" THEN "done" ELSE effect[r]]
    /\ UNCHANGED <<kind, key, counted, window, rows, replayOf, windows, used, givenUp, overrun, life>>

Next ==
    \/ \E r \in Requests :
          \/ Arrive(r) \/ Check(r) \/ CheckBlindly(r) \/ Refuse(r) \/ Authorize(r) \/ Claim(r)
          \/ Begin(r) \/ End(r) \/ Respond(r) \/ Oversize(r) \/ Fail(r)
          \/ Complete(r) \/ Release(r) \/ OpFails(r) \/ Drop(r)
    \/ \E k \in Keys : Expire(k)
    \/ NewWindow \/ Crash

Spec == Init /\ [][Next]_vars

-----------------------------------------------------------------------------
\* A key has one effect, whatever becomes of the requests that repeat it, unless the
\* first one's row was released after an error, or expired: deadlines, clients that
\* leave, failing stores and crashes never make an effect happen twice.
OneUnreleasedEffect ==
    \A q, r \in Requests :
        /\ key[q] = key[r] /\ key[q] # NoKey
        /\ effect[q] # "none" /\ effect[r] # "none"
        /\ q \notin givenUp /\ r \notin givenUp
        => q = r

\* While the process lives, two tasks of the same key do not run side by side: the row
\* of a dropped or failed handler is released or expires, and the key is claimed
\* anew, but the handler took its child with it.  This needs rows that outlive their
\* handlers (Timely): without a deadline below the ttl the row expires under the
\* first task.  (Jobs and SQL may run beside each other anyhow.)
TaskRunsAlone ==
    \A q, r \in Requests :
        /\ kind = "task" /\ key[q] = key[r] /\ key[q] # NoKey
        /\ effect[q] = "running" /\ effect[r] = "running" /\ life[q] = life[r]
        => q = r

\* max_concurrency bounds the tasks that run, and not only the handlers, until a crash
\* leaves some behind.  (It does not bound SQL, nor jobs.)
WorkWithinPermits ==
    kind = "task" =>
        Cardinality({r \in Requests : effect[r] = "running" /\ life[r] = crashes}) <= MaxConcurrency

\* The effects that begin in a window were counted in it, at most a quota of them and
\* those that a blind check counted when it was full, or belong to one of at most
\* max_concurrency requests on their way when it began.
EffectsPerWindow ==
    /\ Cardinality((used \cap counted[windows]) \ overrun) <= Quota
    /\ Cardinality(used \ counted[windows]) <= MaxConcurrency

\* The job a client is told of, at first hand or in a replay, is known to the JobStore,
\* unless the process has crashed since.
ToldJobIsKnown ==
    \A r \in Requests :
        /\ kind = "job" => (pc[r] = "ok" => r \in jobs \/ life[r] < crashes)
        /\ kind = "job" /\ replayOf[r] # NoRequest =>
              replayOf[r] \in jobs \/ life[replayOf[r]] < crashes

\* What idempotency promises holds of the whole pipeline.
Promise == INSTANCE IdempotencyPromise WITH
    Keys <- Keys \cup {NoKey},
    Fingerprints <- {"same"},
    input <- [r \in Requests |-> [key |-> key[r], fp |-> "same"]],
    slot <- [k \in Keys \cup {NoKey} |->
                IF k = NoKey \/ rows[k] = NoRow THEN [phase |-> "free", by |-> NoRequest]
                ELSE [phase |-> rows[k].state, by |-> rows[k].by]],
    answer <- replayOf

KeepsPromise == Promise!Spec

=============================================================================
