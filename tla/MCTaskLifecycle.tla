-------------------------- MODULE MCTaskLifecycle --------------------------
(* Small instances of TaskLifecycle for TLC. *)
EXTENDS TaskLifecycle, TLC

\* Decisions are interchangeable; the processes are not (one is the server).
DecisionSymmetry == Permutations(Decision)

Budget(c, f, x) == [crashes |-> c, faults |-> f, cancels |-> x]
\* A crash, or a cancellation and a write that fails.
OneTrouble == {Budget(1, 0, 0), Budget(0, 1, 1)}
=============================================================================
