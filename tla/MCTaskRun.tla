------------------------------ MODULE MCTaskRun ------------------------------
(* Model values and input sizes for the TaskRun runs. *)
EXTENDS TaskRun

CONSTANT noStdin

Sizes(n) == {noStdin} \cup 0..n
UpToTwo == Sizes(2)

=============================================================================
