----------------------------- MODULE FailureBlock -----------------------------
(***************************************************************************)
(* The failure block of one endpoint: check_block, record_failure and      *)
(* clear_failure of security.rs around the guards of authorize_endpoint,   *)
(* under the endpoint's concurrency limit.                                 *)
(*                                                                         *)
(* Requests of one key check the block, run the guards (API key, challenge *)
(* and x402 tasks, which take time) and then clear or record; the record   *)
(* may change between these steps.  check_block and record_failure read    *)
(* the clock before they wait for the lock.                                *)
(***************************************************************************)
EXTENDS Integers, FiniteSets, Sequences

CONSTANTS
    Requests,
    Keys,               \* rendered failure keys
    NoRecord,           \* a key absent from the map
    NotBlocked,         \* blocked_until is None
    MaxFailures,        \* max_failures
    Window,             \* window_secs
    Block,              \* block_secs
    MaxConcurrency,     \* restrictions.max_concurrency
    Stall,              \* bound on the wait for the lock
    MaxTime             \* bound on the clock

Record == [first_seen : Nat, failures : Nat, blocked_until : Nat \cup {NotBlocked}]

ASSUME ConfigAssumption ==
    /\ IsFiniteSet(Requests)
    /\ NoRecord \notin Record
    /\ NotBlocked \notin Nat
    /\ MaxFailures \in Nat \ {0}
    /\ Window \in Nat \ {0}
    /\ Block \in Nat \ {0}
    /\ MaxConcurrency \in Nat \ {0}
    /\ Stall \in Nat
    /\ MaxTime \in Nat

VARIABLES
    now,        \* the clock
    failures,   \* the map of SecurityState
    pc,         \* where each request is, or how it was answered
    key,        \* the failure key of each request
    at,         \* the last clock reading of each request
    log         \* history: when each key's guards failed since they last passed

vars == <<now, failures, pc, key, at, log>>

\* Waiting for the map's lock with a clock reading in hand, or past it.
Waiting == {"checking", "recording"}
InFlight == Waiting \cup {"guarding", "clearing", "acting"}

TypeOK ==
    /\ now \in 0..MaxTime
    /\ failures \in [Keys -> Record \cup {NoRecord}]
    /\ pc \in [Requests -> InFlight \cup {"idle", "busy", "blocked", "rejected",
                                          "served", "dropped"}]
    /\ key \in [Requests -> Keys]
    /\ at \in [Requests -> Nat]
    /\ log \in [Keys -> Seq(Nat)]

Init ==
    /\ now = 0
    /\ failures = [k \in Keys |-> NoRecord]
    /\ pc = [r \in Requests |-> "idle"]
    /\ key \in [Requests -> Keys]
    /\ at = [r \in Requests |-> 0]
    /\ log = [k \in Keys |-> <<>>]

-----------------------------------------------------------------------------
Goto(r, p) == pc' = [pc EXCEPT ![r] = p]

Permits == {r \in Requests : pc[r] \in InFlight}

\* try_acquire_owned(): a request that finds no permit is refused at once.
Admit(r) ==
    /\ pc[r] = "idle"
    /\ \/ Cardinality(Permits) < MaxConcurrency /\ Goto(r, "checking")
       \/ Cardinality(Permits) >= MaxConcurrency /\ Goto(r, "busy")
    /\ at' = [at EXCEPT ![r] = now]
    /\ UNCHANGED <<now, failures, key, log>>

IsBlocked(k, t) ==
    /\ failures[k] # NoRecord
    /\ failures[k].blocked_until # NotBlocked
    /\ t < failures[k].blocked_until

\* Mutant of CheckBlock: the block is not consulted.
CheckBlockIgnored(r) ==
    /\ pc[r] = "checking"
    /\ Goto(r, "guarding")
    /\ UNCHANGED <<now, failures, key, at, log>>

CheckBlock(r) ==
    /\ pc[r] = "checking"
    /\ Goto(r, IF IsBlocked(key[r], at[r]) THEN "blocked" ELSE "guarding")
    /\ UNCHANGED <<now, failures, key, at, log>>

\* Every guard allows the request.
GuardsPass(r) ==
    /\ pc[r] = "guarding"
    /\ Goto(r, "clearing")
    /\ UNCHANGED <<now, failures, key, at, log>>

\* A guard refuses the request, or fails itself: both are recorded.
GuardsFail(r) ==
    /\ pc[r] = "guarding"
    /\ Goto(r, "recording")
    /\ at' = [at EXCEPT ![r] = now]
    /\ UNCHANGED <<now, failures, key, log>>

ClearFailure(r) ==
    /\ pc[r] = "clearing"
    /\ failures' = [failures EXCEPT ![key[r]] = NoRecord]
    /\ log' = [log EXCEPT ![key[r]] = <<>>]
    /\ Goto(r, "acting")
    /\ UNCHANGED <<now, key, at>>

\* Instant::duration_since saturates at zero.
Since(t, first) == IF t < first THEN 0 ELSE t - first

Fresh(t) == [first_seen |-> t, failures |-> 0, blocked_until |-> NotBlocked]

\* Mutant of Entry: the count survives the window.
EntryNeverResets(k, t) == IF failures[k] = NoRecord THEN Fresh(t) ELSE failures[k]

\* Mutant of Entry: a new window keeps the block of the old one.
EntryKeepsBlock(k, t) ==
    IF failures[k] = NoRecord
    THEN Fresh(t)
    ELSE IF Since(t, failures[k].first_seen) > Window
         THEN [Fresh(t) EXCEPT !.blocked_until = failures[k].blocked_until]
         ELSE failures[k]

\* The record a failure at t is added to: a new one when the key has none or its
\* window is over, otherwise the one there is.
Entry(k, t) ==
    IF failures[k] = NoRecord \/ Since(t, failures[k].first_seen) > Window
    THEN Fresh(t)
    ELSE failures[k]

\* Mutant of Added: the key is blocked one failure early.
AddedEarly(e, t) ==
    [first_seen |-> e.first_seen,
     failures |-> e.failures + 1,
     blocked_until |-> IF e.failures + 2 >= MaxFailures THEN t + Block
                                                        ELSE e.blocked_until]

\* The failure is counted, and from max_failures on it blocks the key.
Added(e, t) ==
    [first_seen |-> e.first_seen,
     failures |-> e.failures + 1,
     blocked_until |-> IF e.failures + 1 >= MaxFailures THEN t + Block
                                                        ELSE e.blocked_until]

RecordFailure(r) ==
    /\ pc[r] = "recording"
    /\ failures' = [failures EXCEPT ![key[r]] = Added(Entry(key[r], at[r]), at[r])]
    /\ log' = [log EXCEPT ![key[r]] = Append(@, at[r])]
    /\ Goto(r, "rejected")
    /\ UNCHANGED <<now, key, at>>

\* Everything behind the guards; the permit is held to the end.
Serve(r) ==
    /\ pc[r] = "acting"
    /\ Goto(r, "served")
    /\ UNCHANGED <<now, failures, key, at, log>>

\* The deadline or the client drops the handler: nothing is recorded.
Drop(r) ==
    /\ pc[r] \in InFlight
    /\ Goto(r, "dropped")
    /\ UNCHANGED <<now, failures, key, at, log>>

Tick ==
    /\ now < MaxTime
    /\ \A r \in Requests : pc[r] \in Waiting => now < at[r] + Stall
    /\ now' = now + 1
    /\ UNCHANGED <<failures, pc, key, at, log>>

Next ==
    \/ \E r \in Requests :
          \/ Admit(r) \/ CheckBlock(r) \/ GuardsPass(r) \/ GuardsFail(r)
          \/ ClearFailure(r) \/ RecordFailure(r) \/ Serve(r) \/ Drop(r)
    \/ Tick

Spec == Init /\ [][Next]_vars

-----------------------------------------------------------------------------
Exists(k) == failures[k] # NoRecord

\* A record carries a block exactly when its count has reached max_failures,
\* whatever resets, clearings and late failures it has seen.
BlockedIffThreshold ==
    \A k \in Keys : Exists(k) =>
        (failures[k].blocked_until # NotBlocked <=> failures[k].failures >= MaxFailures)

\* Requests that passed the check together may fail after the key is blocked, but
\* the concurrency limit bounds how far a count can run past the threshold, if a
\* block outlasts the window in which its failures count.
OvershootBounded ==
    Block > Window + Stall =>
        \A k \in Keys : Exists(k) => failures[k].failures <= MaxFailures - 1 + MaxConcurrency

\* A key is blocked only by max_failures failures within one window, none of them
\* before the guards last passed.
NoEarlyBlock ==
    \A k \in Keys : Exists(k) /\ failures[k].blocked_until # NotBlocked =>
        \E t \in 0..MaxTime :
            Cardinality({i \in DOMAIN log[k] : log[k][i] \in t..(t + Window + Stall)})
                >= MaxFailures

\* While a key is blocked, a request gets past the check only if it was admitted
\* before the failure that blocked the key was recorded, however it interleaved
\* with the requests that failed, cleared the record or blocked the key again.
BlockHoldsBack ==
    \A r \in Requests :
        pc[r] \in {"guarding", "clearing"} /\ IsBlocked(key[r], now) =>
            at[r] + Block <= failures[key[r]].blocked_until + Stall

\* A block lasts for block_secs: nothing ends or shortens it before.  This takes
\* an endpoint that serves one request at a time, so that none is past the check
\* when the key is blocked.
BlockLasts ==
    [][\A k \in Keys : IsBlocked(k, now) =>
          /\ failures'[k] # NoRecord
          /\ failures'[k].blocked_until # NotBlocked
          /\ failures'[k].blocked_until >= failures[k].blocked_until]_vars

=============================================================================
