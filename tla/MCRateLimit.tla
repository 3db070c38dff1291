----------------------------- MODULE MCRateLimit -----------------------------
(* Small instances of RateLimit: a fast and a slow endpoint on one store.  *)
EXTENDS RateLimit, TLC

CONSTANTS fast, slow, slowWindow, slowQuota

MCEndpoints == {fast, slow}
MCWindow == fast :> 1 @@ slow :> slowWindow
MCQuota == fast :> 1 @@ slow :> slowQuota

Symmetry == Permutations(Requests) \cup Permutations(Clients)

=============================================================================
