------------------------------ MODULE Evidence ------------------------------
(***************************************************************************)
(* How the engine collects the artifacts that a packet (ProofPacket) is    *)
(* built from.  A command or a reviewer takes time, and somebody else may  *)
(* edit, revert or commit the worktree meanwhile: the engine reads the     *)
(* commits before a command and again after it (bindSource), but binds     *)
(* diffs and reviews only when it stores them (addArtifact).  Every        *)
(* artifact here also has "saw", the contents that were in the worktree    *)
(* while it was made: the truth, which the program does not know.          *)
(*                                                                         *)
(* The order of the steps is that of Workflow, whose budgets are left to   *)
(* chance here: a failed verification or review goes back to the           *)
(* developer or to a human.  Contents of the worktree are numbers, 0 the   *)
(* base; a new edit is a new number.                                       *)
(***************************************************************************)
EXTENDS ProofPacket, FiniteSets

CONSTANTS
  Cases,        \* the tasks: kind, cmds, parsed, integration, external
  Repos,        \* 1 .. the number of repositories
  RepeatRepro,  \* Config.RepeatRepro
  Outcomes,     \* bound: outcomes of commands
  Reviews,      \* bound: what reviewers say, and which model says it
  RootFiles,    \* bound: files that researchers name ("": none)
  EditWhile,    \* during which activities somebody else edits the worktree
  Touches,      \* bound: what the contents of the worktree change of the base
  MaxRounds,    \* bound: verifications
  MaxHuman      \* bound: answers, interruptions and re-verifications

ASSUME BoundAssumption ==
  /\ {RepeatRepro, MaxRounds, MaxHuman} \subseteq Nat
  /\ Repos \subseteq Nat /\ Touches \in Seq(SUBSET {"code", "test"})
  /\ \A r \in Reviews : r.opinion \in {"approve", "changes", "counterexample", "high", "unchecked"}

\* A task is a bug fix or another change.
ASSUME CaseAssumption ==
  Cases \subseteq [kind : {"bugfix", "change"}, cmds : SUBSET {"repro", "suite"},
                   parsed : BOOLEAN, integration : BOOLEAN, external : BOOLEAN]

\* Nobody edits the worktree in the moment between a diff and the commit and
\* artifact made of it.
ASSUME EditAssumption == EditWhile \cap {"commit", "bind", "rebind"} = {}

VARIABLES
  case,    \* the task; constant
  status,  \* its status, and the status to resume an interrupted task with
  resume,
  once,    \* State.BaselineDone, and whether the external head was applied
  changed, \* State.ChangedFiles, and State.AuthorModel
  author,
  ask,     \* the effects offered by the decision that the task awaits
  wt,      \* the worktree: the content of its head and of its files
  fresh,   \* the next content: nobody writes the same twice
  step,    \* what the engine is doing
  log,     \* the artifacts
  left     \* what is left of the bounds

vars == <<case, status, resume, once, changed, author, ask, wt, fresh, step, log, left>>
task == <<case, status, resume, once, changed, author, ask>>

-----------------------------------------------------------------------------
(* Commands and contents                                                    *)

\* verificationCommands in every repository, in order; the reproduction
\* command is repeated when it verifies a change.
Commands == [repo : Repos, cmd : case.cmds]
Times(c, again) == IF c.cmd = "repro" THEN again ELSE 1
Due(again) ==
  {r \in [cmd : Commands, time : 1 .. again] : r.time <= Times(r.cmd, again)}

\* The place of a run in the order in which the engine makes them.
Place(r) == <<r.cmd.repo, IF r.cmd.cmd = "repro" THEN 0 ELSE 1, r.time>>
Before(p, q) ==
  \E k \in 1 .. 3 : p[k] < q[k] /\ \A j \in 1 .. (k - 1) : p[j] = q[j]
NextRun(due) == CHOOSE r \in due : \A s \in due \ {r} : Before(Place(r), Place(s))

Services == IF case.integration THEN Repos ELSE {}
NextRepo(due) == CHOOSE r \in due : \A s \in due : r <= s

\* What a run of c may come to.
OutcomesOf(c) == Outcomes \cap IF case.parsed THEN Parsed ELSE Unparsed

\* Diff: what a content changes of the base.
Content == 0 .. Len(Touches)
Touched(n) == IF n = Base THEN {} ELSE Touches[n]

\* Somebody writes a new content.
Write == fresh <= Len(Touches) /\ fresh' = fresh + 1

\* Heads: what git says of the worktree.
Heads == [sha |-> wt.head, dirty |-> wt.files # wt.head]

\* bindSource: an artifact is bound to what was there before it was made,
\* and is called dirty if anything moved meanwhile.
Bound(held) == [sha |-> held.sha, dirty |-> held.dirty \/ Heads.dirty \/ Heads.sha # held.sha]

-----------------------------------------------------------------------------
(* The engine's activities.  "loop" is the point between two steps, "idle"  *)
(* means that no loop runs.                                                 *)

At(where) == [at |-> where, due |-> {}, held |-> Heads, seen |-> {wt.files}, ok |-> TRUE]
Doing(what, due) == [At(what) EXCEPT !.due = due]

Init ==
  /\ case \in Cases
  /\ status = "understanding" /\ resume = "none"
  /\ once = {} /\ changed = {} /\ author = ""
  /\ ask = {}
  /\ wt = [head |-> Base, files |-> Base]
  /\ fresh = 1
  /\ step = At("loop")
  /\ log = <<>>
  /\ left = [rounds |-> MaxRounds, human |-> MaxHuman]

\* setStatus, and on to the next step.
Goto(s) ==
  /\ status' = s
  /\ step' = At("loop")
  /\ UNCHANGED <<case, resume, ask>>

\* Mutant of Ask: the task is not paused.
AskAside(effects) ==
  /\ status' = status /\ ask' = effects
  /\ step' = At("idle")
  /\ UNCHANGED <<case, resume>>

\* requireDecision: the loop ends and a human chooses among the effects.
Ask(effects) ==
  /\ status' = "awaiting_decision" /\ ask' = effects
  /\ step' = At("idle")
  /\ UNCHANGED <<case, resume>>

Tools == [repo : Repos, cmd : {"repro", "suite"}]

\* A command ends; the next one begins at once.
CommandEnds ==
  /\ step.at \in {"baseline", "test", "original"} /\ step.due # {}
  /\ LET r == NextRun(step.due) IN
     \E o \in OutcomesOf(r.cmd) :
       LET b == IF step.at = "original" THEN step.held ELSE Bound(step.held)
           a == [what |-> step.at, repo |-> r.cmd.repo, cmd |-> r.cmd.cmd,
                 sha |-> b.sha, dirty |-> b.dirty, out |-> o, saw |-> step.seen]
       IN /\ log' = Append(log, a)
          /\ step' = [step EXCEPT !.due = @ \ {r}, !.seen = {wt.files}, !.ok = @ /\ Passed(a)]
  /\ UNCHANGED <<task, wt, fresh, left>>

\* What starting and probing a service may come to.
Probing == {"pass", "fail", "unavailable", "timeout"}

\* runIntegration: a service is started from a worktree and probed.  The
\* commits are read anew for each.
ServiceEnds ==
  /\ step.at \in {"probe", "service"} /\ step.due # {}
  /\ LET r == NextRepo(step.due) IN
     \E o \in Outcomes \cap Probing :
       LET b == Bound(step.held)
           a == [what |-> "integration", repo |-> r,
                 sha |-> b.sha, dirty |-> b.dirty, out |-> o, saw |-> step.seen]
       IN /\ log' = Append(log, a)
          /\ step' = [Doing(step.at, step.due \ {r}) EXCEPT !.ok = step.ok /\ o = "pass"]
  /\ UNCHANGED <<task, wt, fresh, left>>

Ended(what) == step.at = what /\ step.due = {}

-----------------------------------------------------------------------------
(* stepUnderstand: the baseline, once; the external change; research        *)

Understand ==
  /\ step.at = "loop" /\ status = "understanding"
  /\ step' = IF "baseline" \in once THEN At("head") ELSE Doing("baseline", Due(1))
  /\ UNCHANGED <<task, wt, fresh, log, left>>

BaselineEnds ==
  /\ Ended("baseline")
  /\ step' = Doing("probe", Services)
  /\ UNCHANGED <<task, wt, fresh, log, left>>

ProbeEnds ==
  /\ Ended("probe")
  /\ once' = once \cup {"baseline"}
  /\ step' = At("head")
  /\ UNCHANGED <<case, status, resume, changed, author, ask, wt, fresh, log, left>>

\* applyHead, and research: it may name a file as the root cause.
ApplyHead ==
  /\ step.at = "head" /\ case.external /\ "head" \notin once
  /\ Write /\ wt' = [head |-> fresh, files |-> fresh]
  /\ log' = Append(log, [what |-> "diff", sha |-> fresh, dirty |-> FALSE,
                         files |-> Touched(fresh), author |-> "external", saw |-> {fresh}])
  /\ changed' = Touched(fresh)
  /\ once' = once \cup {"head"} /\ author' = "external"
  /\ UNCHANGED <<case, status, resume, ask, step, left>>

Research ==
  /\ step.at = "head" /\ (case.external => "head" \in once)
  /\ \/ log' = log
     \/ \E f \in RootFiles :
          log' = Append(log, [what |-> "root_cause", file |-> f,
                              sha |-> Heads.sha, dirty |-> Heads.dirty, saw |-> {wt.files}])
  /\ Goto(IF case.external THEN "verifying" ELSE "implementing")
  /\ UNCHANGED <<once, changed, author, wt, fresh, left>>

-----------------------------------------------------------------------------
(* stepImplement: the developer, the diff, the commit, the artifact         *)

StopVerifyOnly ==
  /\ step.at = "loop" /\ status = "implementing" /\ case.external
  /\ Ask({"accept", "abort"})
  /\ UNCHANGED <<once, changed, author, wt, fresh, log, left>>

\* The developer leaves the worktree as it is or with a new content; the
\* diff is what is there then.
Develop ==
  /\ step.at = "loop" /\ status = "implementing" /\ ~case.external
  /\ \/ step' = At("commit") /\ UNCHANGED <<wt, fresh>>
     \/ /\ Write /\ wt' = [wt EXCEPT !.files = fresh]
        /\ step' = [At("commit") EXCEPT !.seen = {fresh}]
  /\ UNCHANGED <<task, log, left>>

\* The content that a diff was taken of.
Shown == CHOOSE n \in step.seen : TRUE

CommitChange ==
  /\ step.at = "commit"
  /\ IF Touched(Shown) = {}
       THEN /\ Goto("verifying")
            /\ changed' = {} /\ author' = "m1"
            /\ UNCHANGED <<once, wt>>
       ELSE /\ wt' = [wt EXCEPT !.head = wt.files]
            /\ step' = [step EXCEPT !.at = "bind"]
            /\ UNCHANGED task
  /\ UNCHANGED <<fresh, log, left>>

DiffArtifact(model) ==
  [what |-> "diff", sha |-> Heads.sha, dirty |-> Heads.dirty,
   files |-> Touched(Shown), author |-> model, saw |-> step.seen]

\* The developer is done, or blocked and asks.
BindDiff ==
  /\ step.at = "bind"
  /\ log' = Append(log, DiffArtifact("m1"))
  /\ changed' = Touched(Shown) /\ author' = "m1"
  /\ (Goto("verifying") \/ Ask({"retry", "abort"}))
  /\ UNCHANGED <<once, wt, fresh, left>>

-----------------------------------------------------------------------------
(* stepVerify                                                               *)

Verify ==
  /\ step.at = "loop" /\ status = "verifying" /\ left.rounds > 0
  /\ left' = [left EXCEPT !.rounds = @ - 1]
  /\ step' = Doing("test", Due(RepeatRepro))
  /\ UNCHANGED <<task, wt, fresh, log>>

\* Back to the developer, or to a human when the attempts are used up.
VerificationFails ==
  /\ step.at \in {"test", "original", "service"} /\ step.due = {} /\ ~step.ok
  /\ (Goto("implementing") \/ Ask({"retry", "accept", "abort"}))
  /\ UNCHANGED <<once, changed, author, wt, fresh, log, left>>

\* All tests passed: the original tests are replayed if the change rewrote
\* any, and then the services are probed.
TestsPass ==
  /\ Ended("test") /\ step.ok /\ Commands # {}
  /\ step' = IF "test" \in changed THEN Doing("original", Due(1)) ELSE Doing("service", Services)
  /\ UNCHANGED <<task, wt, fresh, log, left>>

OriginalsPass ==
  /\ Ended("original") /\ step.ok
  /\ step' = Doing("service", Services)
  /\ UNCHANGED <<task, wt, fresh, log, left>>

VerificationPasses ==
  /\ step.ok /\ (Ended("service") \/ (Ended("test") /\ Commands = {}))
  /\ Goto("reviewing")
  /\ UNCHANGED <<once, changed, author, wt, fresh, log, left>>

-----------------------------------------------------------------------------
(* stepReview: the reviewer is given the diff; its opinion is bound to the  *)
(* commits that are there when it is stored.                                *)

Review ==
  /\ step.at = "loop" /\ status = "reviewing"
  /\ IF Touched(wt.files) = {}
       THEN Ask({"retry", "abort"}) /\ UNCHANGED <<once, changed, author>>
       ELSE step' = At("review") /\ UNCHANGED task
  /\ UNCHANGED <<wt, fresh, log, left>>

ReviewEnds ==
  /\ step.at = "review"
  /\ \E r \in Reviews :
       /\ log' = Append(log, [what |-> "review", sha |-> Heads.sha, dirty |-> Heads.dirty,
                              opinion |-> r.opinion, model |-> r.model, saw |-> step.seen])
       /\ IF r.opinion # "changes"
            THEN /\ status' = "done" /\ step' = At("idle")
                 /\ UNCHANGED <<case, resume, ask>>
            ELSE Goto("implementing") \/ Ask({"retry", "accept", "abort"})
  /\ UNCHANGED <<once, changed, author, wt, fresh, left>>

-----------------------------------------------------------------------------
(* Humans and interruptions                                                 *)

Human == left.human > 0 /\ left' = [left EXCEPT !.human = @ - 1]

ResolveDecision ==
  /\ status = "awaiting_decision" /\ Human
  /\ \E e \in ask :
       /\ status' = CASE e = "retry" -> "implementing" [] e = "accept" -> "done" [] e = "abort" -> "failed"
       /\ step' = At(IF e = "retry" THEN "loop" ELSE "idle")
  /\ ask' = {}
  /\ UNCHANGED <<case, resume, once, changed, author, wt, fresh, log>>

\* A cancellation, a shutdown or a crash of the loop.  A replay that is
\* stopped may leave the original tests in the worktree.
Interrupt ==
  /\ step.at \notin {"idle", "rebind"} /\ Human
  /\ status' = "interrupted" /\ resume' = status
  /\ \/ wt' = wt /\ UNCHANGED fresh
     \/ step.at = "original" /\ Write /\ wt' = [wt EXCEPT !.files = fresh]
  /\ step' = At("idle")
  /\ UNCHANGED <<case, once, changed, author, ask, log>>

Resume ==
  /\ status = "interrupted"
  /\ status' = resume /\ resume' = "none"
  /\ step' = At("loop")
  /\ UNCHANGED <<case, once, changed, author, ask, wt, fresh, log, left>>

\* Reverify commits what is there and binds a fresh diff to it.
\* (The task is not active yet: if it stops here, only the commit is left.)
Reverify ==
  /\ status \in {"done", "failed", "interrupted"} /\ step.at = "idle" /\ Human
  /\ wt' = [wt EXCEPT !.head = wt.files]
  /\ step' = [At("rebind") EXCEPT !.held = [sha |-> wt.files, dirty |-> FALSE]]
  /\ UNCHANGED <<task, fresh, log>>

RebindDiff ==
  /\ step.at = "rebind"
  /\ log' = IF Touched(Shown) = {} THEN log ELSE Append(log, DiffArtifact(author))
  /\ changed' = Touched(Shown)
  /\ status' = "verifying" /\ resume' = "none" /\ step' = At("loop")
  /\ UNCHANGED <<case, once, author, ask, wt, fresh, left>>

\* It may be stopped, or its save fail, before or after the artifact.
StopReverify ==
  /\ step.at = "rebind"
  /\ \/ log' = log
     \/ Touched(Shown) # {} /\ log' = Append(log, DiffArtifact(author))
  /\ step' = At("idle")
  /\ UNCHANGED <<task, wt, fresh, left>>

-----------------------------------------------------------------------------
(* Somebody else: an editor, a git command, another agent                   *)

\* What runs meanwhile sees it, except a reviewer, who was given a diff.
Noticed(n) ==
  step' = IF step.at \in {"baseline", "probe", "test", "original", "service"}
            THEN [step EXCEPT !.seen = @ \cup {n}] ELSE step

EditOutside ==
  /\ step.at \in EditWhile
  /\ Write /\ wt' = [wt EXCEPT !.files = fresh]
  /\ Noticed(fresh)
  /\ UNCHANGED <<task, log, left>>

RevertOutside ==
  /\ step.at \in EditWhile /\ wt.files # wt.head
  /\ wt' = [wt EXCEPT !.files = wt.head]
  /\ Noticed(wt.head)
  /\ UNCHANGED <<task, fresh, log, left>>

CommitOutside ==
  /\ step.at \in EditWhile /\ wt.files # wt.head
  /\ wt' = [wt EXCEPT !.head = wt.files]
  /\ UNCHANGED <<task, fresh, step, log, left>>

Outsider == EditOutside \/ RevertOutside \/ CommitOutside

-----------------------------------------------------------------------------
Next ==
  \/ Understand \/ CommandEnds \/ BaselineEnds \/ ServiceEnds \/ ProbeEnds \/ ApplyHead \/ Research
  \/ StopVerifyOnly \/ Develop \/ CommitChange \/ BindDiff
  \/ Verify \/ VerificationFails \/ TestsPass \/ OriginalsPass \/ VerificationPasses
  \/ Review \/ ReviewEnds
  \/ ResolveDecision \/ Interrupt \/ Resume \/ Reverify \/ RebindDiff \/ StopReverify
  \/ Outsider

Spec == Init /\ [][Next]_vars

-----------------------------------------------------------------------------
(* Properties                                                               *)

\* snapshotPacket: the packet that would be built now, if git answers.
Input ==
  [kind |-> case.kind, cmds |-> case.cmds, integration |-> case.integration,
   status |-> status, known |-> TRUE, head |-> wt.head,
   dirty |-> wt.files # wt.head, log |-> log]

Now == wt.files
SawNow(what) == {i \in Of(Input, what) : Now \in log[i].saw}

\* The shape of the state.
RunKind == {"baseline", "test", "original"}
IsArtifact(a) ==
  /\ a.what \in RunKind \cup {"integration", "diff", "review", "root_cause"}
  /\ a.sha \in Content /\ a.dirty \in BOOLEAN /\ a.saw \subseteq Content
  /\ a.what \in RunKind => [repo |-> a.repo, cmd |-> a.cmd] \in Tools /\ a.out \in Parsed \cup Unparsed
  /\ a.what = "diff" => a.files \subseteq {"code", "test"}
TypeOK ==
  /\ case \in Cases
  /\ status \in {"understanding", "implementing", "verifying", "reviewing",
                 "awaiting_decision", "done", "failed", "interrupted"}
  /\ (status = "awaiting_decision") = (ask # {})
  /\ once \subseteq {"baseline", "head"} /\ changed \subseteq {"code", "test"}
  /\ wt \in [head : Content, files : Content]
  /\ fresh \in 1 .. Len(Touches) + 1
  /\ step.at # "idle" => status \in {"understanding", "implementing", "verifying", "reviewing"}
                         \/ step.at = "rebind"
  /\ \A i \in DOMAIN log : IsArtifact(log[i])

\* A packet says SUPPORTED only if a reviewer of another model than the
\* author's was given, and approved, the very content of the worktree that
\* the packet is about.
ReviewIsOfThisCode ==
  Verdict(Input) = "SUPPORTED" =>
    \E i \in SawNow("review") : log[i].opinion = "approve" /\ log[i].model # author

\* The runs that a packet about a clean worktree counts.
Counted ==
  CurrentOf(Input, "test")
    \cup (IF "test" \in Touched(Now) THEN CurrentOf(Input, "original") ELSE {})
    \cup (IF case.integration THEN CurrentOf(Input, "integration") ELSE {})

\* A packet says SUPPORTED only if all of it happened to the very content of
\* the worktree it is about: every run that it counts saw that content and
\* passed, and there is a test among them that ran something, a replay of the
\* original tests if the change rewrites any, and a service if there is one;
\* it was reviewed; and a bug was seen to fail on the base.  Not that every
\* configured command is among them.
SupportedIsEarned ==
  /\ ReviewIsOfThisCode
  /\ Verdict(Input) = "SUPPORTED" =>
      /\ \A i \in Counted : Now \in log[i].saw /\ Passed(log[i])
      /\ \E i \in SawNow("test") : Passed(log[i]) /\ log[i].out # "empty"
      /\ "test" \in Touched(Now) => \E i \in SawNow("original") : Passed(log[i])
      /\ case.integration => \E i \in SawNow("integration") : log[i].out = "pass"
      /\ case.kind = "bugfix" =>
           \E i \in Of(Input, "baseline") : Base \in log[i].saw /\ ~Passed(log[i])

\* As long as the worktree does not change, no later run, review, diff or
\* answer turns a change that failed its tests, or the original ones, into a
\* verified one.
FailureSticks ==
  [][ChangeVerified(Input) = "CONTRADICTED" /\ wt' = wt
       => ChangeVerified(Input)' # "SUPPORTED"]_vars

=============================================================================
