---------------------------- MODULE TaskContract ----------------------------
(***************************************************************************)
(* What the orchestrator promises about the life of one task, whoever      *)
(* drives it: the status of a task only ever moves along the edges below.  *)
(* It says nothing of versions, leases, processes or crashes; the detailed *)
(* module TaskLifecycle implements it.                                     *)
(***************************************************************************)
EXTENDS TaskStatus

VARIABLE status

Init == status = "pending"

\* A loop picks the task up.
Begin == status = "pending" /\ status' = "understanding"

\* A step ends and the planner chooses the next phase; only a review closes
\* the task as done.
Advance == <<status, status'>> \in PhaseEdge

\* The workflow stops and waits for a human.
Pause == status \in Runnable /\ status' = "awaiting_decision"

\* The human answers: continue at some phase, accept as is, or abort.
Answer == status = "awaiting_decision" /\ status' \in Runnable \cup Terminal

\* Cancellation, shutdown or restart stops a task in the middle of a phase.
Interrupt == status \in Phase /\ status' = "interrupted"

\* Resumption re-enters the interrupted phase, or starts research again.
Resume == status = "interrupted" /\ status' \in Runnable \ {"understanding"}

\* A policy violation, an abort or revoked access fails a task that is open.
Fail == status \notin Terminal /\ status' = "failed"

\* Re-verification: the only way out of done and failed.
Reverify == status \notin Phase \cup {"awaiting_decision"} /\ status' = "verifying"

Next == \/ Begin \/ Advance \/ Pause \/ Answer
        \/ Interrupt \/ Resume \/ Fail \/ Reverify

Spec == Init /\ [][Next]_status
=============================================================================
