------------------------- MODULE IdempotencyPromise -------------------------
(***************************************************************************)
(* What idempotency promises to the callers of an endpoint: a key is held  *)
(* by one request at a time, only that request completes it or gives it    *)
(* up, a completed key keeps its response until it is forgotten, and a     *)
(* replay returns that response to the same request only.                  *)
(***************************************************************************)
CONSTANTS Requests, Keys, Fingerprints, NoRequest

VARIABLES
    input,      \* key and fingerprint of each request
    slot,       \* who holds or completed each key
    answer      \* whose response each request was given as a replay

vars == <<input, slot, answer>>

Free == [phase |-> "free", by |-> NoRequest]

Init ==
    /\ input \in [Requests -> [key : Keys, fp : Fingerprints]]
    /\ slot = [k \in Keys |-> Free]
    /\ answer = [r \in Requests |-> NoRequest]

\* Expired keys are forgotten, any number at a time.
Forgotten(K) == [k \in Keys |-> IF k \in K THEN Free ELSE slot[k]]

Claim(r, K) ==
    /\ Forgotten(K)[input[r].key] = Free
    /\ slot' = [Forgotten(K) EXCEPT ![input[r].key] = [phase |-> "processing", by |-> r]]
    /\ UNCHANGED <<input, answer>>

Complete(r) ==
    /\ slot[input[r].key] = [phase |-> "processing", by |-> r]
    /\ slot' = [slot EXCEPT ![input[r].key] = [phase |-> "completed", by |-> r]]
    /\ UNCHANGED <<input, answer>>

Release(r) ==
    /\ slot[input[r].key] = [phase |-> "processing", by |-> r]
    /\ slot' = [slot EXCEPT ![input[r].key] = Free]
    /\ UNCHANGED <<input, answer>>

\* The replay may reach nobody: its request may have been given up.
Replay(r, K) ==
    LET held == Forgotten(K)[input[r].key] IN
    /\ held.phase = "completed"
    /\ input[held.by] = input[r]
    /\ slot' = Forgotten(K)
    /\ answer' \in {answer, [answer EXCEPT ![r] = held.by]}
    /\ UNCHANGED input

Step == \E r \in Requests : \/ Complete(r) \/ Release(r)
                            \/ \E K \in SUBSET Keys : Claim(r, K) \/ Replay(r, K)

\* A step that changes something; nothing need be searched for one that does not.
Next == <<slot, answer>>' # <<slot, answer>> /\ Step

Spec == Init /\ [][Next]_vars

=============================================================================
