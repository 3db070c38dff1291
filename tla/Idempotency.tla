---------------------------- MODULE Idempotency ----------------------------
(***************************************************************************)
(* The idempotency table and the handlers that claim, complete and release *)
(* its records: idempotency.rs, driven by handle_after_guards of server.rs.*)
(*                                                                         *)
(* A key stands for the primary key (endpoint_name, key) of the table, a   *)
(* fingerprint for the SHA-256 of endpoint, method, path, parameters,      *)
(* query and body, and a response for the request whose action produced    *)
(* it.  Every statement runs as a store operation that its handler awaits: *)
(* on SQLite it is a closure given to spawn_blocking, which runs to its    *)
(* end even if the handler is dropped; on Postgres a dropped or broken     *)
(* call may or may not take effect.                                        *)
(*                                                                         *)
(* One unit of time is one second, the resolution of unix_seconds().       *)
(***************************************************************************)
EXTENDS Integers

CONSTANTS
    Requests,       \* requests that carry the idempotency header, one handler each
    Keys,
    Fingerprints,
    NoRequest,      \* no request
    NoRecord,       \* no row in the table
    NoOp,           \* no store operation under way
    NoDeadline,     \* an endpoint without restrictions.timeout_ms
    Driver,         \* "sqlite" or "postgres"
    Ttl,            \* ttl_secs
    Deadline,       \* restrictions.timeout_ms in seconds, rounded up
    OpBound,        \* bound on the time from issuing a store operation to its end
    Disconnects,    \* whether clients go away before they are answered
    MaxTime,        \* bound on the clock
    MaxCrashes      \* bound on crashes of the server process

Record == [fp : Fingerprints, state : {"processing", "completed"},
           response : Requests \cup {NoRequest}, expires : Nat,
           claimer : Requests]      \* history: no column says whose claim it is

Op == [kind : {"claim", "complete", "release"}, at : Nat]

ASSUME NamesAssumption ==
    /\ NoRequest \notin Requests
    /\ NoRecord \notin Record
    /\ NoOp \notin Op
    /\ NoDeadline \notin Nat

ASSUME ConfigAssumption ==
    /\ Driver \in {"sqlite", "postgres"}
    /\ Ttl \in Nat \ {0}
    /\ Deadline \in Nat \cup {NoDeadline}
    /\ OpBound \in Nat
    /\ Disconnects \in BOOLEAN
    /\ MaxTime \in Nat
    /\ MaxCrashes \in Nat

VARIABLES
    now,        \* the clock
    crashes,    \* how often the process has crashed
    records,    \* the table artur_idempotency
    pc,         \* where the handler of each request is, or how it was answered
    input,      \* key and fingerprint of each request
    started,    \* when the deadline of each handler began to run
    op,         \* the store operation of each request, and when it was issued
    replayed    \* whose stored response a replaying handler returned

vars == <<now, crashes, records, pc, input, started, op, replayed>>

-----------------------------------------------------------------------------
Alive == {"guards", "waiting", "acting"}
Answers == {"refused", "ok", "replay", "conflict", "mismatch", "error", "timeout", "dropped"}

TypeOK ==
    /\ now \in 0..MaxTime
    /\ crashes \in 0..MaxCrashes
    /\ records \in [Keys -> Record \cup {NoRecord}]
    /\ pc \in [Requests -> {"idle"} \cup Alive \cup Answers]
    /\ input \in [Requests -> [key : Keys, fp : Fingerprints]]
    /\ started \in [Requests -> Nat]
    /\ op \in [Requests -> Op \cup {NoOp}]
    /\ replayed \in [Requests -> Requests \cup {NoRequest}]

Init ==
    /\ now = 0
    /\ crashes = 0
    /\ records = [k \in Keys |-> NoRecord]
    /\ pc = [r \in Requests |-> "idle"]
    /\ input \in [Requests -> [key : Keys, fp : Fingerprints]]
    /\ started = [r \in Requests |-> 0]
    /\ op = [r \in Requests |-> NoOp]
    /\ replayed = [r \in Requests |-> NoRequest]

-----------------------------------------------------------------------------
KeyOf(r) == input[r].key
FpOf(r)  == input[r].fp

\* The handler of r issues a store operation and awaits it.
Await(r, kind) ==
    /\ pc' = [pc EXCEPT ![r] = "waiting"]
    /\ op' = [op EXCEPT ![r] = [kind |-> kind, at |-> now]]

\* The store operation of r under way is of this kind.
Doing(r, kind) == op[r] # NoOp /\ op[r].kind = kind

\* The operation of r has ended.  A handler still waiting goes on to `next`, or
\* fails when the Postgres connection breaks after the statement took effect.
OpEnds(r, next) ==
    /\ op' = [op EXCEPT ![r] = NoOp]
    /\ \E p \in {next} \cup (IF Driver = "postgres" THEN {"error"} ELSE {}) :
          pc' = IF pc[r] = "waiting" THEN [pc EXCEPT ![r] = p] ELSE pc

\* SQLite reads the clock inside its exclusive transaction; NOW() of Postgres is
\* the time the transaction began, before it waited for the advisory lock.
ClockReadings(r) == IF Driver = "sqlite" THEN {now} ELSE op[r].at..now

\* Mutant of Purged: rows are dropped a second before they expire.
PurgedEarly(t) == [k \in Keys |-> IF records[k] # NoRecord /\ records[k].expires <= t + 1
                                  THEN NoRecord ELSE records[k]]

\* DELETE FROM artur_idempotency WHERE expires_at <= t
Purged(t) == [k \in Keys |-> IF records[k] # NoRecord /\ records[k].expires <= t
                             THEN NoRecord ELSE records[k]]

\* INSERT of the processing row that expires ttl_secs from now.
NewRecord(r, t) == [fp |-> FpOf(r), state |-> "processing",
                    response |-> NoRequest, expires |-> t + Ttl, claimer |-> r]

\* The row that complete and release of r touch: any claim on r's key.
Reserved(r) == records[KeyOf(r)] # NoRecord /\ records[KeyOf(r)].state = "processing"

-----------------------------------------------------------------------------
\* The deadline starts before the concurrency limit, the rate limit and the guards.
Arrive(r) ==
    /\ pc[r] = "idle"
    /\ pc' = [pc EXCEPT ![r] = "guards"]
    /\ started' = [started EXCEPT ![r] = now]
    /\ UNCHANGED <<now, crashes, records, input, op, replayed>>

\* A guard refuses the request, which has touched no record.
Refuse(r) ==
    /\ pc[r] = "guards"
    /\ pc' = [pc EXCEPT ![r] = "refused"]
    /\ UNCHANGED <<now, crashes, records, input, started, op, replayed>>

\* An authorized request with an idempotency key calls claim().
Authorize(r) ==
    /\ pc[r] = "guards"
    /\ Await(r, "claim")
    /\ UNCHANGED <<now, crashes, records, input, started, replayed>>

\* Mutant of ClaimInserts: a row in progress is taken over.
ClaimTakesOver(r, t) ==
    /\ Purged(t)[KeyOf(r)] # NoRecord => Purged(t)[KeyOf(r)].state = "processing"
    /\ records' = [Purged(t) EXCEPT ![KeyOf(r)] = NewRecord(r, t)]
    /\ OpEnds(r, "acting")
    /\ UNCHANGED replayed

\* Mutant of ClaimInserts: a row of another request is replaced.
ClaimReplacesMismatch(r, t) ==
    /\ Purged(t)[KeyOf(r)] # NoRecord => Purged(t)[KeyOf(r)].fp # FpOf(r)
    /\ records' = [Purged(t) EXCEPT ![KeyOf(r)] = NewRecord(r, t)]
    /\ OpEnds(r, "acting")
    /\ UNCHANGED replayed

\* No row is left for the key: the claim inserts one, and the action starts.
ClaimInserts(r, t) ==
    /\ Purged(t)[KeyOf(r)] = NoRecord
    /\ records' = [Purged(t) EXCEPT ![KeyOf(r)] = NewRecord(r, t)]
    /\ OpEnds(r, "acting")
    /\ UNCHANGED replayed

\* A row with another fingerprint, or one still in progress: the early return
\* rolls the transaction back, the purge included.
ClaimRefused(r, t) ==
    LET row == Purged(t)[KeyOf(r)] IN
    /\ row # NoRecord
    /\ \/ row.fp # FpOf(r) /\ OpEnds(r, "mismatch")
       \/ row.fp = FpOf(r) /\ row.state = "processing" /\ OpEnds(r, "conflict")
    /\ UNCHANGED <<records, replayed>>

\* A completed row of the same request: its response is replayed.
ClaimReplays(r, t) ==
    LET row == Purged(t)[KeyOf(r)] IN
    /\ row # NoRecord
    /\ row.fp = FpOf(r) /\ row.state = "completed"
    /\ records' = Purged(t)
    /\ replayed' = IF pc[r] = "waiting" THEN [replayed EXCEPT ![r] = row.response]
                                        ELSE replayed
    /\ OpEnds(r, "replay")

Claim(r) ==
    /\ Doing(r, "claim")
    /\ \E t \in ClockReadings(r) :
          ClaimInserts(r, t) \/ ClaimRefused(r, t) \/ ClaimReplays(r, t)
    /\ UNCHANGED <<now, crashes, input, started>>

\* The action returned a response within max_response_bytes.
ActionSucceeds(r) ==
    /\ pc[r] = "acting"
    /\ Await(r, "complete")
    /\ UNCHANGED <<now, crashes, records, input, started, replayed>>

\* The action failed, or capture() refused its response for its size.
ActionFails(r) ==
    /\ pc[r] = "acting"
    /\ Await(r, "release")
    /\ UNCHANGED <<now, crashes, records, input, started, replayed>>

\* UPDATE ... SET state = 1 WHERE endpoint_name, key AND state = 0: the claim is
\* found by its key alone.  Nothing to update is an error.
Complete(r) ==
    /\ Doing(r, "complete")
    /\ \/ /\ Reserved(r)
          /\ records' = [records EXCEPT ![KeyOf(r)].state = "completed",
                                        ![KeyOf(r)].response = r]
          /\ OpEnds(r, "ok")
       \/ /\ ~Reserved(r)
          /\ OpEnds(r, "error")
          /\ UNCHANGED records
    /\ UNCHANGED <<now, crashes, input, started, replayed>>

\* DELETE ... WHERE endpoint_name, key AND state = 0.  The handler then returns
\* the error that made it release.
Release(r) ==
    /\ Doing(r, "release")
    /\ records' = IF Reserved(r) THEN [records EXCEPT ![KeyOf(r)] = NoRecord]
                                 ELSE records
    /\ OpEnds(r, "error")
    /\ UNCHANGED <<now, crashes, input, started, replayed>>

\* Mutant of OpFails: the handler ignores a failed completion.
OpFailsSilently(r) ==
    /\ op[r] # NoOp
    /\ OpEnds(r, IF op[r].kind = "complete" THEN "ok" ELSE "error")
    /\ UNCHANGED <<now, crashes, records, input, started, replayed>>

\* The operation fails without effect: the busy timeout runs out, the store
\* cannot be reached, or Postgres aborts the transaction.
OpFails(r) ==
    /\ op[r] # NoOp
    /\ OpEnds(r, "error")
    /\ UNCHANGED <<now, crashes, records, input, started, replayed>>

\* What becomes of the pending operations of the dropped handlers R.
OpsOutlive(R, killed) ==
    \E S \in SUBSET R :
        /\ CASE Driver = "postgres" -> TRUE
             [] Driver = "sqlite" -> S = IF killed THEN R ELSE {}
        /\ op' = [r \in Requests |-> IF r \in S THEN NoOp ELSE op[r]]

\* Mutant of DeadlinePasses: the deadline does not cover the action.
DeadlinePassesOutsideAction(r) ==
    /\ pc[r] \in {"guards", "waiting"}
    /\ Deadline # NoDeadline
    /\ now >= started[r] + Deadline
    /\ pc' = [pc EXCEPT ![r] = "timeout"]
    /\ OpsOutlive({r}, FALSE)
    /\ UNCHANGED <<now, crashes, records, input, started, replayed>>

\* tokio::time::timeout drops the handler, whatever it awaits, and answers 504.
DeadlinePasses(r) ==
    /\ pc[r] \in Alive
    /\ Deadline # NoDeadline
    /\ now >= started[r] + Deadline
    /\ pc' = [pc EXCEPT ![r] = "timeout"]
    /\ OpsOutlive({r}, FALSE)
    /\ UNCHANGED <<now, crashes, records, input, started, replayed>>

\* The client goes away and the server drops the handler.
Disconnect(r) ==
    /\ Disconnects
    /\ pc[r] \in Alive
    /\ pc' = [pc EXCEPT ![r] = "dropped"]
    /\ OpsOutlive({r}, FALSE)
    /\ UNCHANGED <<now, crashes, records, input, started, replayed>>

\* The process dies and is restarted: only the table survives.
Crash ==
    /\ crashes < MaxCrashes
    /\ crashes' = crashes + 1
    /\ pc' = [r \in Requests |-> IF pc[r] \in Alive THEN "dropped" ELSE pc[r]]
    /\ OpsOutlive(Requests, TRUE)
    /\ UNCHANGED <<now, records, input, started, replayed>>

\* Time passes, but not beyond a deadline that has to fire, nor beyond OpBound
\* for an operation that has to end.
Tick ==
    /\ now < MaxTime
    /\ \A r \in Requests :
          /\ pc[r] \in Alive /\ Deadline # NoDeadline => now < started[r] + Deadline
          /\ op[r] # NoOp => now < op[r].at + OpBound
    /\ now' = now + 1
    /\ UNCHANGED <<crashes, records, pc, input, started, op, replayed>>

Next ==
    \/ \E r \in Requests :
          \/ Arrive(r) \/ Refuse(r) \/ Authorize(r) \/ Claim(r)
          \/ ActionSucceeds(r) \/ ActionFails(r)
          \/ Complete(r) \/ Release(r) \/ OpFails(r)
          \/ DeadlinePasses(r) \/ Disconnect(r)
    \/ Crash
    \/ Tick

Spec == Init /\ [][Next]_vars

\* tokio polls the timer and runs the blocking pool; nothing makes an action, a
\* guard or a client make progress.
Fairness ==
    /\ WF_vars(Tick)
    /\ \A r \in Requests : /\ WF_vars(Claim(r) \/ Complete(r) \/ Release(r) \/ OpFails(r))
                           /\ WF_vars(DeadlinePasses(r))

FairSpec == Spec /\ Fairness

-----------------------------------------------------------------------------
\* A deadline, and a ttl longer than it and than the store operations that a
\* dropped handler leaves behind.
Timely == Deadline # NoDeadline /\ Deadline + OpBound < Ttl

Completed(k)  == records[k] # NoRecord /\ records[k].state = "completed"
Processing(k) == records[k] # NoRecord /\ records[k].state = "processing"

\* A completed row holds the response of the request whose claim inserted it:
\* complete() updates the row by key alone, without asking whose claim it is.
CompletedByOwner ==
    \A k \in Keys : Completed(k) => records[k].response = records[k].claimer

\* A replayed response was produced by a request with the same key and the same
\* fingerprint as the request it answers.
ReplaysSameRequest ==
    \A r \in Requests : replayed[r] # NoRequest => input[replayed[r]] = input[r]

\* No two requests run the action for one key at the same time.
OneRunPerKey ==
    \A q, r \in Requests :
        pc[q] = "acting" /\ pc[r] = "acting" /\ KeyOf(q) = KeyOf(r) => q = r

\* For ttl_secs after a request started that was answered with its own response,
\* the row of its key holds that response: a retry cannot run the action again.
OkIsReplayable ==
    \A r \in Requests : pc[r] = "ok" /\ now < started[r] + Ttl =>
        Completed(KeyOf(r)) /\ records[KeyOf(r)].response = r

\* A completed row never changes before it expires, whatever the requests for
\* its key, late or dropped, still do.
CompletedIsStable ==
    [][\A k \in Keys : Completed(k) /\ now < records[k].expires =>
                           records'[k] = records[k]]_vars

\* A claim that has not expired is ended by its owner alone: no other request
\* completes it, releases it or replaces it.
OnlyOwnerEndsClaim ==
    [][\A k \in Keys : Processing(k) /\ now < records[k].expires =>
          \/ records'[k] = records[k]
          \/ LET r == records[k].claimer IN
             (Doing(r, "complete") \/ Doing(r, "release")) /\ op'[r] = NoOp]_vars

\* A handler whose deadline falls within the horizon gives an answer.
EveryRequestAnswered ==
    \A r \in Requests :
        pc[r] \in Alive /\ started[r] + Deadline <= MaxTime ~> pc[r] \in Answers

-----------------------------------------------------------------------------
\* r has claimed its key and has not finished with it: its action runs, or its
\* complete or release is under way, awaited or left behind.
Holds(r) == pc[r] = "acting" \/ Doing(r, "complete") \/ Doing(r, "release")

\* An operation exists exactly when a handler waits for it or has left it
\* behind, and no handler or operation outlives its time.
OnTime ==
    \A r \in Requests :
        /\ pc[r] \in {"idle", "guards", "acting"} => op[r] = NoOp
        /\ pc[r] \in Alive => started[r] <= now /\ now <= started[r] + Deadline
        /\ op[r] # NoOp =>
              /\ started[r] <= op[r].at /\ op[r].at <= started[r] + Deadline
              /\ op[r].at <= now /\ now <= op[r].at + OpBound

\* A request that holds its key finds its own row there, with time to spare.
HeldRowIsMine ==
    \A r \in Requests : Holds(r) =>
        /\ Processing(KeyOf(r))
        /\ records[KeyOf(r)].claimer = r
        /\ started[r] + Ttl <= records[KeyOf(r)].expires

\* A row stands for the request that claimed it.
RowOfClaimer ==
    \A k \in Keys : records[k] # NoRecord =>
        /\ KeyOf(records[k].claimer) = k
        /\ FpOf(records[k].claimer) = records[k].fp

IInv == TypeOK /\ OnTime /\ HeldRowIsMine /\ RowOfClaimer /\ CompletedByOwner
               /\ ReplaysSameRequest

-----------------------------------------------------------------------------
\* The table as its promise sees it: who holds or completed each key.
Slot == [k \in Keys |->
    IF records[k] = NoRecord
    THEN [phase |-> "free", by |-> NoRequest]
    ELSE [phase |-> records[k].state,
          by |-> IF Completed(k) THEN records[k].response ELSE records[k].claimer]]

Promise == INSTANCE IdempotencyPromise WITH slot <- Slot, answer <- replayed

\* Every change of the table is a step of the promise that is stated without
\* clock, store operations or handlers.
KeepsPromise == Promise!Spec

=============================================================================
