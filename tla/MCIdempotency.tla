--------------------------- MODULE MCIdempotency ---------------------------
(* Small instances of Idempotency: requests, keys and fingerprints are     *)
(* interchangeable, so the runs without liveness use them as symmetric.    *)
EXTENDS Idempotency, TLC

Symmetry == Permutations(Requests) \cup Permutations(Keys)
                                   \cup Permutations(Fingerprints)

=============================================================================
