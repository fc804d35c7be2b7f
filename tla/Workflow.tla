------------------------------ MODULE Workflow ------------------------------
(***************************************************************************)
(* What the steps of internal/engine/steps.go do: one task, driven by one  *)
(* engine loop at a time (TaskLifecycle shows that there is only one, and  *)
(* what becomes of writes that fail or are refused).  A step works on a    *)
(* copy of the task in memory and on the worktree, and saves the copy; a   *)
(* crash or a cancellation in between loses the copy and keeps the         *)
(* worktree.  Agents, tests and humans are the environment: any answer     *)
(* they can give, they may give.                                           *)
(***************************************************************************)
EXTENDS Naturals, TaskStatus

CONSTANTS
  MaxSteps, MaxFixAttempts, MaxReviewRounds, MaxInvestigations,   \* Config
  MaxRevision,   \* bound: revisions that developers write
  MaxHuman,      \* bound: answers, resumptions and re-verifications
  MaxCrashes,    \* bound: crashes of the process
  MaxCancels,    \* bound: cancellations and shutdowns
  MaxFaults      \* bound: commits, and diffs of a re-verification, that fail

ASSUME ConfigAssumption ==
  {MaxSteps, MaxFixAttempts, MaxReviewRounds, MaxInvestigations} \subseteq Nat
ASSUME BoundAssumption == /\ {MaxHuman, MaxCrashes, MaxCancels, MaxFaults} \subseteq Nat
                          /\ MaxRevision \in Nat \ {0}

VARIABLES
  task,   \* task.json
  mem,    \* the loop's copy of it
  pc,     \* where the loop is; "idle": no loop runs
  work,   \* the worktree on disk, and the head of an external change
  swap,   \* the test files a replay has put aside
  ask,    \* the decision the task awaits
  hist,   \* what happened, for the properties only
  left    \* what is left of the bounds

vars == <<task, mem, pc, work, swap, ask, hist, left>>

-----------------------------------------------------------------------------
(* The worktree.  The content of a file is the number of the revision that *)
(* wrote it: 0 is the base commit's (where "newtest" and "aside" do not    *)
(* exist), Gone that of a file of the base commit that was deleted.        *)

File == {"code", "test",     \* files of the base commit
         "newtest",          \* a test file that the change adds
         "aside"}            \* the name under which a replay hides it

TestFile == {"test", "newtest"}

Gone == MaxRevision + 1
Tree == [File -> 0 .. Gone]
Base == [f \in File |-> 0]

\* Diff: the files that differ from the base commit.
Differs(tree) == {f \in File : tree[f] # 0}

\* The ways a developer leaves the worktree: as it was, with another code,
\* with code and tests rewritten, or with code rewritten and a test deleted.
Edited(tree, r) ==
  {tree,
   [tree EXCEPT !["code"] = r],
   [tree EXCEPT !["code"] = r, !["test"] = r, !["newtest"] = r],
   [tree EXCEPT !["code"] = r, !["test"] = Gone]}

\* The changes a verify-only task can be about, made by a developer elsewhere.
PullRequests == Edited(Base, 1)

\* WithOriginalFiles: the tests as they were before the change; a test file
\* that did not exist is moved aside, unless it is not there.
Swappable(tree, files) == {f \in files \cap TestFile : f = "test" \/ tree[f] # 0}

Swapped(tree, fs) ==
  [f \in File |-> IF f \in fs THEN 0
                  ELSE IF f = "aside" /\ "newtest" \in fs THEN tree["newtest"] ELSE tree[f]]

\* Its deferred restore: `git checkout HEAD` for the files of the base
\* commit (which fails if HEAD does not have the file), then the renames.
Restorable(head) == "test" \in swap => head["test"] # Gone

Restored(tree, fs, head) ==
  [f \in File |->
     CASE f = "test" /\ f \in fs /\ head[f] # Gone -> head[f]
       [] f = "newtest" /\ f \in fs                -> tree["aside"]
       [] f = "aside" /\ "newtest" \in fs          -> 0
       [] OTHER                                    -> tree[f]]

\* What the restore achieves when the context is cancelled: git does not
\* start any more, the renames are made.
HalfRestored(tree, fs, head) == Restored(tree, fs \ {"test"}, head)

-----------------------------------------------------------------------------
(* The task. *)

Task == [status   : Status,
         resume   : Phase \cup {""},
         steps    : Nat,  inv : Nat,  fix : Nat,  rounds : Nat,
         ready    : BOOLEAN,                \* WorktreeRoot is set
         baseline : BOOLEAN,                \* BaselineDone
         commits  : BOOLEAN,                \* Commits is not empty
         changed  : SUBSET File,            \* ChangedFiles
         headRef  : BOOLEAN,                \* HeadRef is set: verify-only
         tests    : BOOLEAN]                \* there is a command to verify with

NewTask(verifyOnly, tests) ==
  [status |-> "pending", resume |-> "", steps |-> 0, inv |-> 0, fix |-> 0, rounds |-> 0,
   ready |-> FALSE, baseline |-> FALSE, commits |-> FALSE, changed |-> {},
   headRef |-> verifyOnly, tests |-> tests]

\* Why the task waits for a human, and the effects of the options offered;
\* an agent's own options may have any effect.
Effect == {"continue", "accept", "abort", "extend"}

Offered == [agent   |-> Effect,
            stopped |-> {"accept", "abort"},          \* verify-only, implementing
            blocked |-> {"continue", "abort"},
            empty   |-> {"continue", "abort"},
            error   |-> {"continue", "abort"},
            tests   |-> {"continue", "accept", "abort"},
            review  |-> {"continue", "accept", "abort"},
            budget  |-> {"extend", "abort"}]

NoQuestion == [cause |-> "agent", back |-> "pending"]

\* The run of steps since the last contact with a human; a count stops one
\* above its limit.
NoHistory == [fails |-> 0, rejects |-> 0, steps |-> 0]

Count(n, limit) == IF n > limit THEN n ELSE n + 1

Init ==
  /\ \E verifyOnly \in BOOLEAN, tests \in BOOLEAN : task = NewTask(verifyOnly, tests)
  /\ mem = task
  /\ pc = "idle"
  /\ \E pull \in IF task.headRef THEN PullRequests ELSE {Base} :
       work = [made |-> FALSE, tree |-> Base, head |-> Base, rev |-> 0, pull |-> pull]
  /\ swap = {}
  /\ ask = NoQuestion
  /\ hist = [run |-> NoHistory, baselines |-> {}, tested |-> Base, replayed |-> Base,
             approved |-> FALSE]
  /\ left = [human |-> MaxHuman, crashes |-> MaxCrashes, cancels |-> MaxCancels,
             faults |-> MaxFaults]

-----------------------------------------------------------------------------
(* How a step ends: the planner's next phase, or a question to a human.    *)

Save(t, next) == task' = t /\ mem' = t /\ pc' = next

\* Mutant: the counters of the step are not saved with the status.
SetStatusOnly(t, s) == Save([task EXCEPT !.status = s], "top") /\ UNCHANGED ask

SetStatus(t, s) == Save([t EXCEPT !.status = s], "top") /\ UNCHANGED ask

\* Mutant: the phase to return to is read after the status was assigned.
PauseLate(t, cause, back) ==
  /\ Save([t EXCEPT !.status = "awaiting_decision"],
          IF cause \in {"budget", "error"} THEN "idle" ELSE "top")
  /\ ask' = [cause |-> cause, back |-> mem'.status]

\* requireDecision.  A step's caller goes round the loop once more, the
\* budget check and the error branch leave RunTask.
Pause(t, cause, back) ==
  /\ Save([t EXCEPT !.status = "awaiting_decision"],
          IF cause \in {"budget", "error"} THEN "idle" ELSE "top")
  /\ ask' = [cause |-> cause, back |-> back]

\* RunTask: stop, ask for more budget, or count a step and begin it.
ReadTask ==
  /\ pc = "top"
  /\ \/ /\ task.status \notin Runnable
        /\ pc' = "idle" /\ mem' = task
        /\ UNCHANGED <<task, ask, hist>>
     \/ /\ task.status \in Runnable /\ task.steps >= MaxSteps
        /\ Pause(task, "budget", task.status)
        /\ UNCHANGED hist
     \/ /\ task.status \in Runnable /\ task.steps < MaxSteps
        /\ mem' = [task EXCEPT !.steps = @ + 1]
        /\ pc' = "step"
        /\ hist' = [hist EXCEPT !.run.steps = Count(@, MaxSteps)]
        /\ UNCHANGED <<task, ask>>
  /\ UNCHANGED <<work, swap, left>>

At(s) == pc = "step" /\ mem.status = s

-----------------------------------------------------------------------------
(* stepUnderstand. *)

Understand ==
  /\ pc = "step" /\ mem.status \in {"pending", "understanding"}
  /\ Save([mem EXCEPT !.status = "understanding"], "prepare")
  /\ UNCHANGED <<work, swap, ask, hist, left>>

\* A worktree that exists already is used as it is.
Prepare ==
  /\ pc = "prepare"
  /\ \/ mem.ready /\ pc' = "baseline" /\ UNCHANGED <<mem, work>>
     \/ /\ ~mem.ready
        /\ work' = IF work.made THEN work
                   ELSE [work EXCEPT !.made = TRUE, !.tree = Base, !.head = Base]
        /\ mem' = [mem EXCEPT !.ready = TRUE]
        /\ pc' = "prepared"
  /\ UNCHANGED <<task, swap, ask, hist, left>>

\* Each run of the baseline leaves its artifact, also when the step does not
\* live to record that it is done.
RunBaseline ==
  /\ pc = "baseline"
  /\ \/ mem.baseline /\ pc' = "apply" /\ UNCHANGED <<mem, hist>>
     \/ /\ ~mem.baseline
        /\ hist' = [hist EXCEPT !.baselines = @ \cup {work.tree}]
        /\ mem' = [mem EXCEPT !.baseline = TRUE]
        /\ pc' = "baselined"
  /\ UNCHANGED <<task, work, swap, ask, left>>

ApplyHead ==
  /\ pc = "apply"
  /\ \/ /\ ~mem.headRef \/ mem.commits
        /\ pc' = "research" /\ UNCHANGED <<mem, work>>
     \/ /\ mem.headRef /\ ~mem.commits
        /\ work' = [work EXCEPT !.tree = work.pull, !.head = work.pull]
        /\ mem' = [mem EXCEPT !.commits = TRUE, !.changed = Differs(work.pull)]
        /\ pc' = "applied"
  /\ UNCHANGED <<task, swap, ask, hist, left>>

\* Mutant: that the baseline is done is saved with the next change only.
SaveProgressLate ==
  /\ pc \in {"prepared", "baselined", "applied"}
  /\ \/ pc = "baselined" /\ pc' = "apply" /\ UNCHANGED <<task, mem>>
     \/ pc = "prepared" /\ Save(mem, "baseline")
     \/ pc = "applied" /\ Save(mem, "research")
  /\ UNCHANGED <<work, swap, ask, hist, left>>

SaveProgress ==
  /\ pc \in {"prepared", "baselined", "applied"}
  /\ Save(mem, CASE pc = "prepared"  -> "baseline"
                 [] pc = "baselined" -> "apply"
                 [] pc = "applied"   -> "research")
  /\ UNCHANGED <<work, swap, ask, hist, left>>

\* The researcher answers; it may ask a human, or be too uncertain.
Research ==
  /\ pc = "research"
  /\ \/ Pause(mem, "agent", "implementing")
     \/ mem.inv < MaxInvestigations /\ SetStatus(mem, "investigating")
     \/ SetStatus(mem, IF mem.headRef THEN "verifying" ELSE "implementing")
  /\ UNCHANGED <<work, swap, hist, left>>

-----------------------------------------------------------------------------
(* stepInvestigate, stepImplement. *)

Investigate ==
  /\ At("investigating")
  /\ LET t == [mem EXCEPT !.inv = @ + 1] IN
       Pause(t, "agent", "implementing") \/ SetStatus(t, "implementing")
  /\ UNCHANGED <<work, swap, hist, left>>

\* A verify-only task never runs a developer.
StopVerifyOnly ==
  /\ At("implementing") /\ mem.headRef
  /\ Pause(mem, "stopped", "implementing")
  /\ UNCHANGED <<work, swap, hist, left>>

\* Mutant: the developer runs for verify-only tasks too.
DevelopAnyway ==
  /\ At("implementing")
  /\ \E tree \in Edited(work.tree, work.rev + 1) :
       /\ tree # work.tree => work.rev < MaxRevision
       /\ work' = [work EXCEPT !.tree = tree,
                               !.rev = IF tree = work.tree THEN @ ELSE @ + 1]
  /\ pc' = "developed"
  /\ UNCHANGED <<task, mem, swap, ask, hist, left>>

\* The developer works on the worktree, until it is done, fails or is killed.
Develop ==
  /\ At("implementing") /\ ~mem.headRef
  /\ \E tree \in Edited(work.tree, work.rev + 1) :
       /\ tree # work.tree => work.rev < MaxRevision
       /\ work' = [work EXCEPT !.tree = tree,
                               !.rev = IF tree = work.tree THEN @ ELSE @ + 1]
  /\ pc' = "developed"
  /\ UNCHANGED <<task, mem, swap, ask, hist, left>>

\* Its change is committed; that a commit fails is only a warning.
CommitChange ==
  LET t == [mem EXCEPT !.changed = Differs(work.tree)] IN
  /\ pc = "developed"
  /\ \/ /\ Differs(work.tree) = {} \/ work.tree = work.head
        /\ mem' = t
        /\ UNCHANGED <<work, left>>
     \/ /\ Differs(work.tree) # {} /\ work.tree # work.head
        /\ mem' = [t EXCEPT !.commits = TRUE]
        /\ work' = [work EXCEPT !.head = work.tree]
        /\ UNCHANGED left
     \/ /\ Differs(work.tree) # {} /\ work.tree # work.head
        /\ left.faults > 0 /\ left' = [left EXCEPT !.faults = @ - 1]
        /\ mem' = t
        /\ UNCHANGED work
  /\ pc' = "committed"
  /\ UNCHANGED <<task, swap, ask, hist>>

\* The developer reported completed, or blocked, with or without a question.
EndImplement ==
  /\ pc = "committed"
  /\ \/ SetStatus(mem, "verifying")
     \/ Pause(mem, "agent", "implementing")
     \/ IF mem.inv < MaxInvestigations THEN SetStatus(mem, "investigating")
        ELSE Pause(mem, "blocked", "implementing")
  /\ UNCHANGED <<work, swap, hist, left>>

-----------------------------------------------------------------------------
(* stepVerify. *)

\* Mutant: an off-by-one in the comparison, after the attempt was counted.
VerificationFailedAgain ==
  LET t == [mem EXCEPT !.fix = @ + 1] IN
  /\ IF mem.fix > MaxFixAttempts THEN Pause(t, "tests", "implementing")
     ELSE SetStatus(t, "implementing")
  /\ hist' = [hist EXCEPT !.run.fails = Count(@, MaxFixAttempts + 1)]

VerificationFailed ==
  LET t == [mem EXCEPT !.fix = @ + 1] IN
  /\ IF t.fix > MaxFixAttempts THEN Pause(t, "tests", "implementing")
     ELSE SetStatus(t, "implementing")
  /\ hist' = [hist EXCEPT !.run.fails = Count(@, MaxFixAttempts + 1)]

\* Mutant: a replay that passed once is not repeated for a later change.
VerifyAgain ==
  LET fs == Swappable(work.tree, mem.changed) IN
  /\ At("verifying")
  /\ \/ /\ mem.tests
        /\ VerificationFailed
        /\ UNCHANGED <<work, swap>>
     \/ /\ ~mem.tests \/ mem.changed \cap TestFile = {} \/ mem.rounds > 0
        /\ SetStatus(mem, "reviewing")
        /\ hist' = [hist EXCEPT !.tested = work.tree]
        /\ UNCHANGED <<work, swap>>
     \/ /\ mem.tests /\ mem.changed \cap TestFile # {}
        /\ work' = [work EXCEPT !.tree = Swapped(work.tree, fs)]
        /\ swap' = fs
        /\ hist' = [hist EXCEPT !.tested = work.tree]
        /\ pc' = "replay"
        /\ UNCHANGED <<task, mem, ask>>
  /\ UNCHANGED left

\* Without a command to verify with, the review decides.  Otherwise they run
\* on the worktree, and a change of test files is not verified before the
\* tests that it replaced have passed on it too.
Verify ==
  LET fs == Swappable(work.tree, mem.changed) IN
  /\ At("verifying")
  /\ \/ /\ mem.tests
        /\ VerificationFailed
        /\ UNCHANGED <<work, swap>>
     \/ /\ ~mem.tests \/ mem.changed \cap TestFile = {}
        /\ SetStatus(mem, "reviewing")
        /\ hist' = [hist EXCEPT !.tested = work.tree]
        /\ UNCHANGED <<work, swap>>
     \/ /\ mem.tests /\ mem.changed \cap TestFile # {}
        /\ work' = [work EXCEPT !.tree = Swapped(work.tree, fs)]
        /\ swap' = fs
        /\ hist' = [hist EXCEPT !.tested = work.tree]
        /\ pc' = "replay"
        /\ UNCHANGED <<task, mem, ask>>
  /\ UNCHANGED left

\* Mutant: the files put aside are not put back.
EndReplayUnrestored ==
  /\ pc = "replay" /\ Restorable(work.head)
  /\ swap' = {}
  /\ \/ SetStatus(mem, "reviewing") /\ hist' = [hist EXCEPT !.replayed = hist.tested]
     \/ VerificationFailed
  /\ UNCHANGED <<work, left>>

\* The replay ends, then the integration check.
EndReplay ==
  /\ pc = "replay" /\ Restorable(work.head)
  /\ work' = [work EXCEPT !.tree = Restored(work.tree, swap, work.head)]
  /\ swap' = {}
  /\ \/ SetStatus(mem, "reviewing") /\ hist' = [hist EXCEPT !.replayed = hist.tested]
     \/ VerificationFailed
  /\ UNCHANGED left

-----------------------------------------------------------------------------
(* stepReview. *)

ReviewEmpty ==
  /\ At("reviewing") /\ Differs(work.tree) = {}
  /\ Pause(mem, "empty", "implementing")
  /\ UNCHANGED <<work, swap, hist, left>>

Approve ==
  /\ At("reviewing") /\ Differs(work.tree) # {}
  /\ SetStatus(mem, "done")
  /\ hist' = [hist EXCEPT !.approved = TRUE]
  /\ UNCHANGED <<work, swap, left>>

RequestChanges ==
  LET t == [mem EXCEPT !.rounds = @ + 1] IN
  /\ At("reviewing") /\ Differs(work.tree) # {}
  /\ IF t.rounds > MaxReviewRounds THEN Pause(t, "review", "implementing")
     ELSE SetStatus(t, "implementing")
  /\ hist' = [hist EXCEPT !.run.rejects = Count(@, MaxReviewRounds + 1)]
  /\ UNCHANGED <<work, swap, left>>

-----------------------------------------------------------------------------
(* Steps that fail. *)

\* What a step that fails has changed in memory.
Partial == IF At("investigating") THEN [mem EXCEPT !.inv = @ + 1] ELSE mem

\* RunTask's error branch asks whether to retry the step; a replay has put
\* the files back by then, as far as it could.
StepFails ==
  /\ \/ pc = "prepare" /\ ~mem.ready
     \/ pc = "baseline" /\ ~mem.baseline
     \/ pc \in {"prepared", "research", "developed", "replay"}
     \/ At("investigating") \/ At("verifying") \/ At("reviewing")
  /\ Pause(Partial, "error", Partial.status)
  /\ work' = IF pc = "replay" THEN [work EXCEPT !.tree = Restored(work.tree, swap, work.head)]
             ELSE work
  /\ swap' = {}
  /\ UNCHANGED <<hist, left>>

\* The head is not found; or it is checked out, and what follows fails: the
\* diff of it, once Commits is set, or the scan of its content.
ApplyHeadFails ==
  LET moved == [work EXCEPT !.tree = work.pull, !.head = work.pull] IN
  /\ pc = "apply" /\ mem.headRef /\ ~mem.commits
  /\ \/ Pause(mem, "error", mem.status) /\ UNCHANGED work
     \/ Pause([mem EXCEPT !.commits = TRUE], "error", mem.status) /\ work' = moved
     \/ Save([mem EXCEPT !.status = "failed"], "idle") /\ work' = moved /\ UNCHANGED ask
  /\ UNCHANGED <<swap, hist, left>>

\* The content of the repository violates the execution policy: found when
\* the worktree is made and before tests run.
Violation ==
  /\ pc = "prepared" \/ At("verifying")
  /\ Save([mem EXCEPT !.status = "failed"], "idle")
  /\ UNCHANGED <<work, swap, ask, hist, left>>

LoopStep ==
  \/ ReadTask \/ Understand \/ Prepare \/ RunBaseline \/ ApplyHead \/ SaveProgress
  \/ Research \/ Investigate \/ StopVerifyOnly \/ Develop \/ CommitChange
  \/ EndImplement \/ Verify \/ EndReplay \/ ReviewEmpty \/ Approve
  \/ RequestChanges \/ StepFails \/ ApplyHeadFails \/ Violation

-----------------------------------------------------------------------------
(* The loop is stopped: the process dies, or the task is cancelled. *)

Stop ==
  /\ pc # "idle"
  /\ pc' = "idle" /\ mem' = task /\ swap' = {}
  /\ hist' = [hist EXCEPT !.run = NoHistory]
  /\ UNCHANGED <<task, ask>>

Crash ==
  /\ Stop
  /\ left.crashes > 0 /\ left' = [left EXCEPT !.crashes = @ - 1]
  /\ UNCHANGED work

Cancel ==
  /\ Stop
  /\ left.cancels > 0 /\ left' = [left EXCEPT !.cancels = @ - 1]
  /\ work' = IF pc = "replay" THEN [work EXCEPT !.tree = HalfRestored(work.tree, swap, work.head)]
             ELSE work

\* Mutant: any open task is marked.
MarkAny ==
  /\ pc = "idle" /\ task.status \notin Terminal \cup {"interrupted", "pending"}
  /\ Save([task EXCEPT !.resume = task.status, !.status = "interrupted"], "idle")
  /\ UNCHANGED <<work, swap, ask, hist, left>>

\* RecoverInterrupted and MarkInterrupted.
MarkInterrupted ==
  /\ pc = "idle" /\ task.status \in Phase
  /\ Save([task EXCEPT !.resume = task.status, !.status = "interrupted"], "idle")
  /\ UNCHANGED <<work, swap, ask, hist, left>>

-----------------------------------------------------------------------------
(* Humans. *)

Start ==
  /\ pc = "idle" /\ task.status \in Runnable
  /\ pc' = "top"
  /\ UNCHANGED <<task, mem, work, swap, ask, hist, left>>

\* A human saves t, after so many failures of git.
Human(t, failures) ==
  /\ pc = "idle" /\ left.human > 0 /\ failures <= left.faults
  /\ left' = [left EXCEPT !.human = @ - 1, !.faults = @ - failures]
  /\ Save(t, "idle")
  /\ hist' = [hist EXCEPT !.run = NoHistory, !.approved = FALSE]
  /\ UNCHANGED <<swap, ask>>

\* Mutant: an interrupted verification is taken for done.
ResumeFurther ==
  /\ task.status = "interrupted"
  /\ Human([task EXCEPT !.resume = "",
       !.status = IF task.resume = "verifying" THEN "reviewing" ELSE ResumeTarget(task.resume)], 0)
  /\ UNCHANGED work

Resume ==
  /\ task.status = "interrupted"
  /\ Human([task EXCEPT !.status = ResumeTarget(task.resume), !.resume = ""], 0)
  /\ UNCHANGED work

Answered(e) ==
  CASE e = "abort"  -> [task EXCEPT !.status = "failed"]
    [] e = "accept" -> [task EXCEPT !.status = "done"]
    [] e = "extend" -> [task EXCEPT !.status = ask.back, !.steps = 0]
    [] OTHER        -> [task EXCEPT !.status = ask.back]

ResolveDecision ==
  /\ task.status = "awaiting_decision"
  /\ \E e \in Offered[ask.cause] : Human(Answered(e), 0)
  /\ UNCHANGED work

\* What the worktree holds is committed and becomes the change to verify; a
\* commit or a diff that fails is passed over.
TakeWorktree ==
  \E committed, compared \in BOOLEAN :
    LET head == IF committed THEN work.tree ELSE work.head IN
    /\ work' = [work EXCEPT !.head = head]
    /\ Human([task EXCEPT !.status = "verifying", !.resume = "", !.fix = 0, !.rounds = 0,
                          !.changed = IF compared THEN Differs(work.tree) ELSE @,
                          !.commits = @ \/ head # work.head],
             IF committed /\ compared THEN 0 ELSE 1)

\* Mutant: it is not checked that there is a worktree.
ReverifyUnprepared ==
  /\ task.status \notin Phase \cup {"awaiting_decision"}
  /\ TakeWorktree

Reverify ==
  /\ task.status \notin Phase \cup {"awaiting_decision"}
  /\ task.ready
  /\ TakeWorktree

Next == LoopStep \/ Crash \/ Cancel \/ MarkInterrupted \/ Start \/ Resume
        \/ ResolveDecision \/ Reverify

Spec == Init /\ [][Next]_vars

\* Once it runs, the loop goes on: it is one goroutine, agents and tests
\* have timeouts (Commands has the one agent that outlives its own), and
\* nothing it waits for is held by a human.
FairSpec == Spec /\ WF_vars(LoopStep)

-----------------------------------------------------------------------------
(* Properties. *)

Loop == {"idle", "top", "step", "prepare", "prepared", "baseline", "baselined", "apply",
         "applied", "research", "developed", "committed", "replay"}

Worktree == [made : BOOLEAN, tree : Tree, head : Tree, rev : 0 .. MaxRevision,
             pull : PullRequests]
Question == [cause : DOMAIN Offered, back : Runnable]
Run == [fails : Nat, rejects : Nat, steps : Nat]
History == [run : Run, baselines : SUBSET Tree, tested : Tree, replayed : Tree,
            approved : BOOLEAN]
Bounds == [human : Nat, crashes : Nat, cancels : Nat, faults : Nat]

TypeOK ==
  /\ task \in Task /\ mem \in Task
  /\ pc \in Loop
  /\ work \in Worktree /\ swap \subseteq TestFile
  /\ ask \in Question /\ hist \in History /\ left \in Bounds

\* A change that a review has approved is, file by file, the one that the
\* last verification ran on: nothing moved it between the two.
ApprovedIsVerified == hist.approved => task.status = "done" /\ work.tree = hist.tested

\* A developer's change that rewrites or deletes tests is approved only when
\* the original tests were replayed against what is approved.
RewrittenTestsAreReplayed ==
  hist.approved /\ task.tests /\ ~task.headRef /\ Differs(work.tree) \cap TestFile # {} =>
    hist.replayed = work.tree

\* Even when it is interrupted and resumed at any point, a task is approved
\* with the code that the last verification ran on.
ApprovedCodeIsVerified ==
  hist.approved => task.status = "done" /\ work.tree["code"] = hist.tested["code"]

\* The baseline only ever runs on the untouched base commit, however often
\* it is interrupted, restarted or followed by a head to verify.
BaselineIsPristine == hist.baselines \subseteq {Base}

\* Every phase after research finds a worktree that was prepared and saved.
WorktreeReady ==
  task.status \in Phase \ {"understanding"} => task.ready /\ work.made

\* What a verify-only worktree holds once the head is applied: the head, or,
\* if the head deletes a test of the base commit, what a replay makes of it:
\* it brings the test back, and HEAD has nothing to restore it from.
BroughtBack(head) == [head EXCEPT !["test"] = IF @ = Gone THEN 0 ELSE @]

Applied == IF task.tests THEN {work.pull, BroughtBack(work.pull)} ELSE {work.pull}

\* Proofline does not edit an external change: outside a replay the worktree
\* of a verify-only task is the base commit or the head, but for the deleted
\* test that a replay has brought back.
VerifyOnlyUntouched ==
  task.headRef /\ pc # "replay" => work.tree \in {Base} \cup Applied

\* Between two contacts with a human the task takes at most MaxSteps steps,
\* and its tests fail, and its review asks for changes, no more often than
\* the configuration allows.
WorkIsBounded ==
  /\ hist.run.steps <= MaxSteps
  /\ hist.run.fails <= MaxFixAttempts + 1
  /\ hist.run.rejects <= MaxReviewRounds + 1

\* Every run of the engine loop comes to an end.
LoopEnds == pc # "idle" ~> pc = "idle"

\* The steps implement the phase graph.
Contract == INSTANCE TaskContract WITH status <- task.status
ImplementsContract == Contract!Spec
=============================================================================
