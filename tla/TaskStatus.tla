----------------------------- MODULE TaskStatus -----------------------------
(***************************************************************************)
(* The task statuses of internal/domain/domain.go and the phase graph of   *)
(* internal/engine/steps.go, shared by the modules that follow one task.   *)
(***************************************************************************)

\* Active(): statuses during which an engine step is in flight.
Phase == {"understanding", "investigating", "implementing", "verifying", "reviewing"}

\* Terminal(): the task makes no further progress on its own.
Terminal == {"done", "failed"}

Status == {"pending", "awaiting_decision", "interrupted"} \cup Phase \cup Terminal

\* Statuses whose step RunTask executes.
Runnable == {"pending"} \cup Phase

(***************************************************************************)
(* The phase graph: where a step that ends on its own (not by pausing,     *)
(* failing or being interrupted) sends the task; the edges into a review's *)
(* or a test run's failure lead back to implementation.                    *)
(***************************************************************************)
PhaseEdge == {<<"understanding", "investigating">>, <<"understanding", "implementing">>,
              <<"understanding", "verifying">>,     <<"investigating", "implementing">>,
              <<"implementing", "verifying">>,      <<"implementing", "investigating">>,
              <<"verifying", "reviewing">>,         <<"verifying", "implementing">>,
              <<"reviewing", "implementing">>,      <<"reviewing", "done">>}

\* Where Resume sends an interrupted task (engine.go, Resume): research is
\* restarted from the beginning, every other phase is re-entered.
ResumeTarget(resume) == IF resume \in {"", "understanding"} THEN "pending" ELSE resume
=============================================================================
