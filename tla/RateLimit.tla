------------------------------ MODULE RateLimit ------------------------------
(***************************************************************************)
(* The persistent fixed-window rate limiter: rate_limit.rs, driven by      *)
(* apply_rate_limit of server.rs.                                          *)
(*                                                                         *)
(* check() reads the clock, computes the window of its endpoint, and only  *)
(* then runs the transaction that purges old rows of EVERY endpoint that   *)
(* shares the store and counts the request; other requests, and time, may  *)
(* come between.  A row is keyed by endpoint, client and window start; a   *)
(* missing row counts as zero, so zero stands for a missing row here.  On  *)
(* SQLite a SELECT that fails counts as zero too (unwrap_or(0)): the check *)
(* goes on blindly, and lets its request through a full bucket.            *)
(* Time is in units of the shortest window.                                *)
(***************************************************************************)
EXTENDS Integers, FiniteSets

CONSTANTS
    Requests,
    Endpoints,      \* rate-limited endpoints that share one store
    Clients,        \* the rendered rate keys
    Window,         \* window_secs of each endpoint
    Quota,          \* requests of each endpoint
    Retention,      \* the 172800 seconds a row outlives the start of its window
    Stall,          \* bound on the time from reading the clock to the transaction
    Drivers,        \* the drivers the store may have: "sqlite", "postgres"
    MaxTime         \* bound on the clock

ASSUME ConfigAssumption ==
    /\ Window \in [Endpoints -> Nat \ {0}]
    /\ Quota \in [Endpoints -> Nat \ {0}]
    /\ Retention \in Nat
    /\ Stall \in Nat
    /\ Drivers \subseteq {"sqlite", "postgres"}
    /\ MaxTime \in Nat

Starts == 0..MaxTime
Buckets == Endpoints \X Clients \X Starts

VARIABLES
    driver,     \* of the store, never changes
    now,        \* the clock
    rows,       \* the table artur_rate_limits
    pc,         \* where the check of each request is, or how it ended
    input,      \* endpoint and client of each request
    readAt,     \* the clock reading of each check
    pending,    \* the requests whose transaction has not ended
    remaining,  \* what an allowed request was told is left of its quota
    spent,      \* history: how many requests each bucket has ever counted
    misread     \* history: the requests counted by a check whose SELECT failed

vars == <<driver, now, rows, pc, input, readAt, pending, remaining, spent, misread>>

TypeOK ==
    /\ driver \in Drivers
    /\ now \in Starts
    /\ rows \in [Buckets -> Nat]
    /\ pc \in [Requests -> {"idle", "checking", "allowed", "limited", "failed", "dropped"}]
    /\ input \in [Requests -> [endpoint : Endpoints, client : Clients]]
    /\ readAt \in [Requests -> Starts]
    /\ pending \in SUBSET Requests
    /\ remaining \in [Requests -> Nat]
    /\ spent \in [Buckets -> Nat]
    /\ misread \in SUBSET Requests

Init ==
    /\ driver \in Drivers
    /\ now = 0
    /\ rows = [b \in Buckets |-> 0]
    /\ pc = [r \in Requests |-> "idle"]
    /\ input \in [Requests -> [endpoint : Endpoints, client : Clients]]
    /\ readAt = [r \in Requests |-> 0]
    /\ pending = {}
    /\ remaining = [r \in Requests |-> 0]
    /\ spent = [b \in Buckets |-> 0]
    /\ misread = {}

-----------------------------------------------------------------------------
\* now / window_secs * window_secs
WindowStart(e, t) == (t \div Window[e]) * Window[e]

\* Mutant of RetryAfter: the last second of the window.
RetryAfterShort(e, t) == WindowStart(e, t) + Window[e] - 1 - t

\* window + window_secs - now
RetryAfter(e, t) == WindowStart(e, t) + Window[e] - t

EndpointOf(r) == input[r].endpoint
WindowOf(r) == WindowStart(EndpointOf(r), readAt[r])
Bucket(r) == <<EndpointOf(r), input[r].client, WindowOf(r)>>

\* Mutant of Kept: no retention.
KeptSinceWindow(start) == [b \in Buckets |-> IF b[3] < start THEN 0 ELSE rows[b]]

\* DELETE FROM artur_rate_limits WHERE window_start < window - 172800
Kept(start) == [b \in Buckets |-> IF b[3] < start - Retention THEN 0 ELSE rows[b]]

\* Mutant of HasRoom: one request too few.
HasRoomBelow(table, r) == table[Bucket(r)] + 1 < Quota[EndpointOf(r)]

\* WHERE artur_rate_limits.count < quota, also true of a row that is not there.
HasRoom(table, r) == table[Bucket(r)] < Quota[EndpointOf(r)]

\* Mutant of Counted: the conflicting row is overwritten.
CountedOnce(table, r) == [table EXCEPT ![Bucket(r)] = 1]

\* INSERT ... VALUES (..., 1) ON CONFLICT DO UPDATE SET count = count + 1
Counted(table, r) == [table EXCEPT ![Bucket(r)] = @ + 1]

\* The transaction of r has ended; its handler, if there is one, goes on.  A
\* broken Postgres connection may hide a commit from it.
TransactionEnds(r, outcome) ==
    /\ pending' = pending \ {r}
    /\ \E p \in {outcome} \cup (IF driver = "postgres" THEN {"failed"} ELSE {}) :
          pc' = IF pc[r] = "checking" THEN [pc EXCEPT ![r] = p] ELSE pc

-----------------------------------------------------------------------------
\* check() reads the clock and hands the transaction to the store.
Begin(r) ==
    /\ pc[r] = "idle"
    /\ pc' = [pc EXCEPT ![r] = "checking"]
    /\ readAt' = [readAt EXCEPT ![r] = now]
    /\ pending' = pending \cup {r}
    /\ UNCHANGED <<driver, now, rows, input, remaining, spent, misread>>

\* The transaction finds room in the bucket and counts the request.
Allow(r) ==
    LET kept == Kept(WindowOf(r)) IN
    /\ r \in pending
    /\ HasRoom(kept, r)
    /\ rows' = Counted(kept, r)
    /\ spent' = [spent EXCEPT ![Bucket(r)] = @ + 1]
    /\ remaining' = [remaining EXCEPT ![r] = Quota[EndpointOf(r)] - rows'[Bucket(r)]]
    /\ TransactionEnds(r, "allowed")
    /\ UNCHANGED <<driver, now, input, readAt, misread>>

\* The bucket is full: the purge alone is committed.
Limit(r) ==
    LET kept == Kept(WindowOf(r)) IN
    /\ r \in pending
    /\ ~HasRoom(kept, r)
    /\ rows' = kept
    /\ TransactionEnds(r, "limited")
    /\ UNCHANGED <<driver, now, input, readAt, remaining, spent, misread>>

\* The SELECT of an SQLite check fails, and its count is taken to be zero: the
\* request is counted and allowed, whatever the bucket holds, and told that all but
\* one of the quota is left.  Some errors roll the transaction back: then the purge
\* is undone, the INSERT commits by itself, and the COMMIT fails.
ReadFails(r) ==
    /\ r \in pending
    /\ driver = "sqlite"
    /\ \/ /\ rows' = Counted(Kept(WindowOf(r)), r)
          /\ TransactionEnds(r, "allowed")
       \/ /\ rows' = Counted(rows, r)
          /\ TransactionEnds(r, "failed")
    /\ spent' = [spent EXCEPT ![Bucket(r)] = @ + 1]
    /\ remaining' = [remaining EXCEPT ![r] = Quota[EndpointOf(r)] - 1]
    /\ misread' = misread \cup {r}
    /\ UNCHANGED <<driver, now, input, readAt>>

\* The store is busy for 2 seconds, unreachable, or rolls the transaction back.
Fail(r) ==
    /\ r \in pending
    /\ TransactionEnds(r, "failed")
    /\ UNCHANGED <<driver, now, rows, input, readAt, remaining, spent, misread>>

\* The endpoint deadline or the client drops the handler.  The blocking SQLite
\* transaction goes on; one on Postgres may go on or not.
Drop(r) ==
    /\ pc[r] = "checking"
    /\ pc' = [pc EXCEPT ![r] = "dropped"]
    /\ pending' \in {pending} \cup (IF driver = "postgres" THEN {pending \ {r}} ELSE {})
    /\ UNCHANGED <<driver, now, rows, input, readAt, remaining, spent, misread>>

\* Time passes, but no transaction takes longer than Stall.
Tick ==
    /\ now < MaxTime
    /\ \A r \in pending : now < readAt[r] + Stall
    /\ now' = now + 1
    /\ UNCHANGED <<driver, rows, pc, input, readAt, pending, remaining, spent, misread>>

Next ==
    \/ \E r \in Requests : Begin(r) \/ Allow(r) \/ Limit(r) \/ ReadFails(r) \/ Fail(r) \/ Drop(r)
    \/ Tick

Spec == Init /\ [][Next]_vars

-----------------------------------------------------------------------------
\* Every window, with a stalled transaction, ends before its row is purged.
WindowsFit == \A e \in Endpoints : Window[e] + Stall <= Retention

\* The requests a bucket has counted blindly: at most this many pass its quota.
MisreadIn(b) == {r \in misread : Bucket(r) = b}

\* No bucket ever counts more requests than its quota, but for one for each check of
\* its own whose SELECT failed, though rows are purged by checks of other endpoints
\* and by checks that read the clock long ago.  A blind check lets its own request
\* through and no other: those that read the bucket later still find it full.  Every
\* allowed request is counted.
QuotaRespected ==
    \A b \in Buckets : spent[b] <= Quota[b[1]] + Cardinality(MisreadIn(b))

\* A request is limited only when its bucket has counted a full quota: nothing
\* else uses up its allowance.
LimitedOnlyWhenSpent ==
    \A r \in Requests : pc[r] = "limited" => spent[Bucket(r)] >= Quota[EndpointOf(r)]

\* A limited client that waits for retry_after begins in a later window.
RetryFindsNewWindow ==
    \A r \in Requests : pc[r] = "limited" =>
        LET e == EndpointOf(r)
            t == readAt[r] + RetryAfter(e, readAt[r])
        IN  RetryAfter(e, readAt[r]) \in 1..Window[e] /\ WindowStart(e, t) > WindowOf(r)

-----------------------------------------------------------------------------
\* A window some check of e may still count in.
Usable(e, start) == now < start + Window[e] + Stall

\* The row of a usable window holds all that was counted; a purged one may hold
\* less, but nothing can be counted in it any more.
RowsAreSpent ==
    \A b \in Buckets :
        /\ rows[b] <= spent[b]
        /\ spent[b] <= Quota[b[1]] + Cardinality(MisreadIn(b))
        /\ Usable(b[1], b[3]) => rows[b] = spent[b]

\* No transaction outlives Stall.
PendingOnTime ==
    \A r \in pending : readAt[r] <= now /\ now <= readAt[r] + Stall

\* A check reads its bucket once, so what is misread stays in its bucket.
MisreadOnce ==
    /\ IsFiniteSet(misread)
    /\ driver = "postgres" => misread = {}
    /\ \A r \in misread : r \notin pending /\ pc[r] # "idle"

\* A check ends before its request is answered.
PendingHasBegun == \A r \in pending : pc[r] \in {"checking", "dropped"}

IInv == TypeOK /\ PendingOnTime /\ RowsAreSpent /\ MisreadOnce /\ PendingHasBegun

-----------------------------------------------------------------------------
Promise == INSTANCE QuotaPromise WITH
    Quota <- [b \in Buckets |-> Quota[b[1]]],
    bucket <- [r \in Requests |-> Bucket(r)],
    exact <- driver = "postgres",
    count <- spent, open <- pending, status <- pc, left <- remaining

\* Transactions that purge rows of every endpoint, at any time after they read the
\* clock, amount to one counter for each bucket that is never lost and that its
\* requests use one at a time: no count is lost, none is taken twice.  On SQLite a
\* check may use it blindly.
KeepsPromise == Promise!Spec

=============================================================================
