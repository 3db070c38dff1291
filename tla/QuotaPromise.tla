---------------------------- MODULE QuotaPromise ----------------------------
(***************************************************************************)
(* What the rate limiter promises: each bucket, that is an endpoint, a     *)
(* client and a window, has a counter that is never lost and that checks   *)
(* use one at a time.  A check counts and allows its request while the     *)
(* quota is not spent, tells it what is then left, and limits it when the  *)
(* quota is spent; it may fail, having counted or not, and its request may *)
(* give up.  A counter that is not exact may also be used blindly: the     *)
(* check counts and allows without knowing what is spent.  There is no     *)
(* clock, no table and nothing is purged.                                  *)
(***************************************************************************)
EXTENDS Integers

CONSTANTS Requests, Buckets, Quota

VARIABLES
    exact,      \* whether the counters are always read, never changes
    bucket,     \* of each request, once its check begins
    count,      \* of each bucket
    open,       \* the checks that have not ended
    status,     \* of each request
    left        \* what is left of the quota, told when a request is allowed

vars == <<exact, bucket, count, open, status, left>>

Init ==
    /\ exact \in BOOLEAN
    /\ bucket \in [Requests -> Buckets]
    /\ count = [b \in Buckets |-> 0]
    /\ open = {}
    /\ status = [r \in Requests |-> "idle"]
    /\ left = [r \in Requests |-> 0]

Begin(r) ==
    /\ status[r] = "idle"
    /\ status' = [status EXCEPT ![r] = "checking"]
    /\ bucket'[r] \in Buckets /\ bucket' = [bucket EXCEPT ![r] = bucket'[r]]
    /\ open' = open \cup {r}
    /\ UNCHANGED <<exact, count, left>>

\* A check ends once; the request hears of it if it still waits.
Ends(r, outcome) ==
    /\ r \in open
    /\ open' = open \ {r}
    /\ status' = IF status[r] = "checking" THEN [status EXCEPT ![r] = outcome] ELSE status

Allow(r) ==
    /\ count[bucket[r]] < Quota[bucket[r]]
    /\ count' = [count EXCEPT ![bucket[r]] = @ + 1]
    /\ left' = [left EXCEPT ![r] = Quota[bucket[r]] - count[bucket[r]] - 1]
    /\ Ends(r, "allowed") \/ Ends(r, "failed")
    /\ UNCHANGED <<exact, bucket>>

\* The counter is not read, but counts; the request takes it to be the first.
AllowBlindly(r) ==
    /\ ~exact
    /\ count' = [count EXCEPT ![bucket[r]] = @ + 1]
    /\ left' = [left EXCEPT ![r] = Quota[bucket[r]] - 1]
    /\ Ends(r, "allowed") \/ Ends(r, "failed")
    /\ UNCHANGED <<exact, bucket>>

Limit(r) ==
    /\ count[bucket[r]] >= Quota[bucket[r]]
    /\ Ends(r, "limited") \/ Ends(r, "failed")
    /\ UNCHANGED <<exact, bucket, count, left>>

Fail(r) ==
    /\ Ends(r, "failed")
    /\ UNCHANGED <<exact, bucket, count, left>>

\* The check may go on.
GiveUp(r) ==
    /\ status[r] = "checking"
    /\ status' = [status EXCEPT ![r] = "dropped"]
    /\ open' \in {open, open \ {r}}
    /\ UNCHANGED <<exact, bucket, count, left>>

Next ==
    \E r \in Requests :
        Begin(r) \/ Allow(r) \/ AllowBlindly(r) \/ Limit(r) \/ Fail(r) \/ GiveUp(r)

Spec == Init /\ [][Next]_vars

=============================================================================
