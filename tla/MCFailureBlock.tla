---------------------------- MODULE MCFailureBlock ----------------------------
(* Small instances of FailureBlock.                                        *)
EXTENDS FailureBlock, TLC

Symmetry == Permutations(Requests)

=============================================================================
