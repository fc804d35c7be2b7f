----------------------------- MODULE MCEvidence -----------------------------
(* Small instances of Evidence for TLC. *)
EXTENDS Evidence

\* A bug with a reproduction command whose output names its tests, a change
\* with a runner whose output does not, and a pull request with two commands
\* and a service.
Bug == [kind |-> "bugfix", cmds |-> {"repro"}, parsed |-> TRUE, integration |-> FALSE, external |-> FALSE]
Change == [kind |-> "change", cmds |-> {"suite"}, parsed |-> FALSE, integration |-> FALSE, external |-> FALSE]
PullRequest == [Change EXCEPT !.external = TRUE, !.integration = TRUE, !.cmds = {"repro", "suite"}]
Said(op, m) == [opinion |-> op, model |-> m]
SomeReviews == {Said("approve", "m1"), Said("approve", "m2"), Said("changes", "m2")}
\* The second content rewrites a test.
CodeThenTests == <<{"code"}, {"code", "test"}>>
BothTasks == {Bug, Change, PullRequest}
=============================================================================
