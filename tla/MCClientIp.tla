----------------------------- MODULE MCClientIp -----------------------------
(* A small instance of ClientIp; hosts may be exchanged, as any may be     *)
(* trusted.                                                                *)
EXTENDS ClientIp, TLC

Symmetry == Permutations(Hosts)

=============================================================================
