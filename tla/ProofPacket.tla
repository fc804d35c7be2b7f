---------------------------- MODULE ProofPacket ----------------------------
(***************************************************************************)
(* internal/proof/proof.go: what a packet concludes from the artifacts of  *)
(* one task and the present state of its worktree.  There is no state      *)
(* here: Build is a function of its input                                  *)
(*                                                                         *)
(*   in.kind, in.cmds, in.integration   what the task is, and what runs    *)
(*   in.status                          where it is                        *)
(*   in.known, in.head, in.dirty        the worktree now, if git answered  *)
(*   in.log                             the artifacts, oldest first        *)
(*                                                                         *)
(* An artifact has a kind ("what"), the state of the worktree it is bound  *)
(* to (sha, dirty), and                                                    *)
(*   baseline, test, original: repo, cmd ("repro" or "suite") and outcome  *)
(*   integration:              repo and outcome                            *)
(*   diff:                     files ("code", "test") and author           *)
(*   review:                   opinion and model                           *)
(*   root_cause:               file ("" if none, "missing", "code")        *)
(* The commits of all repositories together are one number, because they   *)
(* are only ever compared all together; the base commits are 0.  What is   *)
(* never produced by the program (artifacts of another task) is left out,  *)
(* and so is every text.                                                   *)
(***************************************************************************)
EXTENDS Naturals, Sequences

Base == 0

-----------------------------------------------------------------------------
(* Outcomes of a command whose output names the tests it ran:               *)
(*   pass     it exits 0 and the tests that failed on the base passed       *)
(*   skip     it exits 0 but not all of those tests ran                     *)
(*   empty    it exits 0 and ran no test at all                             *)
(*   fail     a test failed                                                 *)
(*   error    it exits non-zero and no test failed (it did not build)       *)
(* of a command whose output does not: opaque (exits 0), crash (does not);  *)
(* and of either: timeout, and an output too long to be kept, which names   *)
(* no test any more, after exit 0 (cut) or another (cutfail).               *)

Unfinished == {"timeout", "cut", "cutfail"}
Parsed == {"pass", "skip", "empty", "fail", "error"} \cup Unfinished
Unparsed == {"opaque", "crash"} \cup Unfinished

Passed(a) == a.out \in {"pass", "skip", "empty", "cut", "opaque"}

\* testsWith(tests, "fail"): some test is known to have failed.
NamesFailure(a) == a.out = "fail"

-----------------------------------------------------------------------------
(* index: which artifacts count, and for what.  Artifacts are their places  *)
(* in the log.                                                              *)

\* Mutant of Current: the mark of bindSource is ignored.
CurrentThoughDirty(in, i) ==
  in.known /\ ~in.dirty /\ in.log[i].sha = in.head

\* current: observed on the present state of the worktree.
Current(in, i) ==
  in.known /\ ~in.dirty /\ ~in.log[i].dirty /\ in.log[i].sha = in.head

\* onBase: observed on the untouched base.
OnBase(in, i) == ~in.log[i].dirty /\ in.log[i].sha = Base

Of(in, what) == {i \in DOMAIN in.log : in.log[i].what = what}
CurrentOf(in, what) == {i \in Of(in, what) : Current(in, i)}
Baselines(in) == {i \in Of(in, "baseline") : OnBase(in, i)}

First(S) == CHOOSE i \in S : \A j \in S : i <= j
Last(S) == CHOOSE i \in S : \A j \in S : j <= i

\* The last diff, of any state, and its files; none if there is no diff.
DiffFiles(in) ==
  IF Of(in, "diff") = {} THEN {} ELSE in.log[Last(Of(in, "diff"))].files

-----------------------------------------------------------------------------
(* Claims                                                                   *)

\* reproArtifacts: the runs of the command whose failure reproduces the bug.
ReproRuns(in, S) ==
  {i \in S : in.log[i].cmd = IF "repro" \in in.cmds THEN "repro" ELSE "suite"}

\* claimReproduced: the first run that failed decides, else the first run.
Reproduced(in) ==
  LET runs == ReproRuns(in, Baselines(in))
      red  == {i \in runs : ~Passed(in.log[i])}
      a    == in.log[First(IF red # {} THEN red ELSE runs)]
  IN IF in.kind # "bugfix" THEN "INSUFFICIENT"
     ELSE IF runs = {} THEN IF Of(in, "baseline") = Baselines(in) THEN "INSUFFICIENT" ELSE "STALE"
     ELSE IF Passed(a) /\ a.out # "empty" /\ "repro" \in in.cmds THEN "CONTRADICTED"
     ELSE IF a.out \in {"fail", "crash"} THEN "SUPPORTED"
     ELSE "INSUFFICIENT"

\* What a run of a command after the change says of its run before: the
\* tests that failed passed, or the run before names none.
Cures(before, after) ==
  /\ after.cmd = before.cmd /\ after.repo = before.repo
  /\ Passed(after)
  /\ NamesFailure(before) => after.out = "pass"

\* baselineFailedThenPassed
Flipped(in) ==
  \E i \in ReproRuns(in, Baselines(in)), j \in CurrentOf(in, "test") :
    /\ in.log[i].out \in {"fail", "crash", "cutfail"}
    /\ Cures(in.log[i], in.log[j])

\* claimRootCause
RootCause(in) ==
  LET roots == Of(in, "root_cause")
      file  == in.log[Last(roots)].file
  IN IF /\ roots # {}
        /\ file \notin {"", "missing"}
        /\ file \in DiffFiles(in)
        /\ Flipped(in)
     THEN "SUPPORTED" ELSE "INSUFFICIENT"

\* Mutant of ChangeVerified: only the last run counts.
ChangeVerifiedByLast(in) ==
  LET tests   == CurrentOf(in, "test")
      replays == CurrentOf(in, "original")
      rewrote == "test" \in DiffFiles(in)
  IN IF DiffFiles(in) = {} THEN "INSUFFICIENT"
     ELSE IF in.dirty \/ ~Current(in, Last(Of(in, "diff"))) THEN "STALE"
     ELSE IF tests = {} THEN IF Of(in, "test") = {} THEN "INSUFFICIENT" ELSE "STALE"
     ELSE IF ~Passed(in.log[Last(tests)]) THEN "CONTRADICTED"
     ELSE IF \E i \in tests : in.log[i].out \in {"cut", "empty"} THEN "INSUFFICIENT"
     ELSE IF rewrote /\ replays = {} THEN "INSUFFICIENT"
     ELSE IF rewrote /\ \E i \in replays : ~Passed(in.log[i]) THEN "CONTRADICTED"
     ELSE IF in.kind = "bugfix" /\ ~Flipped(in) THEN "INSUFFICIENT"
     ELSE "SUPPORTED"

\* claimChangeVerified
ChangeVerified(in) ==
  LET tests   == CurrentOf(in, "test")
      replays == CurrentOf(in, "original")
      rewrote == "test" \in DiffFiles(in)
  IN IF DiffFiles(in) = {} THEN "INSUFFICIENT"
     ELSE IF in.dirty \/ ~Current(in, Last(Of(in, "diff"))) THEN "STALE"
     ELSE IF tests = {} THEN IF Of(in, "test") = {} THEN "INSUFFICIENT" ELSE "STALE"
     ELSE IF \E i \in tests : ~Passed(in.log[i]) THEN "CONTRADICTED"
     ELSE IF \E i \in tests : in.log[i].out \in {"cut", "empty"} THEN "INSUFFICIENT"
     ELSE IF rewrote /\ replays = {} THEN "INSUFFICIENT"
     ELSE IF rewrote /\ \E i \in replays : ~Passed(in.log[i]) THEN "CONTRADICTED"
     ELSE IF in.kind = "bugfix" /\ ~Flipped(in) THEN "INSUFFICIENT"
     ELSE "SUPPORTED"

\* The model the diff names as its author; "" if there is no diff.
Author(in) ==
  IF Of(in, "diff") = {} THEN "" ELSE in.log[Last(Of(in, "diff"))].author

\* claimChallenge: the last review decides.  "changes" is the verdict
\* changes_requested; the other opinions are approvals: "counterexample" and
\* "high" with such a finding, "unchecked" with an empty list of checks.
Challenge(in) ==
  LET r == in.log[Last(Of(in, "review"))]
  IN IF Of(in, "review") = {} THEN "INSUFFICIENT"
     ELSE IF ~Current(in, Last(Of(in, "review"))) THEN "STALE"
     ELSE IF r.opinion \in {"changes", "counterexample", "high"} THEN "CONTRADICTED"
     ELSE IF Of(in, "diff") # {} /\ Author(in) \in {r.model, ""} THEN "INSUFFICIENT"
     ELSE IF r.opinion = "unchecked" THEN "INSUFFICIENT"
     ELSE "SUPPORTED"

\* claimIntegration: the first run that did not pass decides.
Integration(in) ==
  LET runs == CurrentOf(in, "integration")
      bad  == {i \in runs : in.log[i].out # "pass"}
      old  == {i \in Of(in, "integration") : ~Current(in, i) /\ ~OnBase(in, i)}
  IN IF ~in.integration THEN "INSUFFICIENT"
     ELSE IF runs = {} THEN IF old = {} THEN "INSUFFICIENT" ELSE "STALE"
     ELSE IF bad = {} THEN "SUPPORTED"
     ELSE IF in.log[First(bad)].out = "fail" THEN "CONTRADICTED"
     ELSE "INSUFFICIENT"

-----------------------------------------------------------------------------
(* The verdict                                                              *)

\* The claims that the kind of task makes core.  Cross-service impact never
\* is, and is never supported.
Core(in) ==
  {ChangeVerified(in), Challenge(in)}
    \cup (IF in.kind = "bugfix" THEN {Reproduced(in), RootCause(in)} ELSE {})
    \cup (IF in.integration THEN {Integration(in)} ELSE {})

\* verdict
Verdict(in) ==
  IF in.status = "failed" \/ "CONTRADICTED" \in Core(in) THEN "BLOCKED"
  ELSE IF "STALE" \in Core(in) THEN "STALE"
  ELSE IF in.status # "done" \/ "INSUFFICIENT" \in Core(in) THEN "INSUFFICIENT"
  ELSE "SUPPORTED"

=============================================================================
